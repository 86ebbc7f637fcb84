---------------------------- MODULE EngineProofs ----------------------------
(***************************************************************************)
(* Proofs about MatchingEngine, for any number of slots, instruments,      *)
(* clients and prices.  The argument goes from the bottom up: sequences    *)
(* and linked lists, the order pool, the queue of a price level, the       *)
(* levels of a book, the book with its order map, matching, one command as *)
(* its book sees it, and the whole engine, whose inductive invariant is    *)
(* EngineInv.  It says that the slots divide into the free ones F, those   *)
(* of the commands in flight and, for each instrument i, the orders R[i]   *)
(* of its book; each operation is proved to move slots between them.       *)
(*                                                                         *)
(* Conclusions that later proofs cite as a whole have names (Removed,      *)
(* Inserted, Filled, Absorbed and others).                                 *)
(***************************************************************************)
EXTENDS MatchingEngine, SumLemmas, TLAPS

-----------------------------------------------------------------------------
(***************************************************************************)
(* Sequences without repetition.                                           *)
(***************************************************************************)
Distinct(s) == \A j, k \in DOMAIN s : s[j] = s[k] => j = k

\* The elements of a sequence.
Members(s) == {s[k] : k \in DOMAIN s}

\* s without its element at n.
Without(s, n) == [k \in 1..(Len(s) - 1) |-> IF k < n THEN s[k] ELSE s[k + 1]]

\* A sequence without repetition has as many elements as it is long.
LEMMA MembersCount ==
  ASSUME NEW S, NEW s \in Seq(S), Distinct(s)
  PROVE  IsFiniteSet(Members(s)) /\ Cardinality(Members(s)) = Len(s)
<1>1. PICK n, T : n = Len(s) /\ T = Members(s)
  OBVIOUS
<1>2. n \in Nat /\ DOMAIN s = 1..n /\ s \in [1..n -> S]
  BY <1>1
<1>3. IsFiniteSet(1..n) /\ Cardinality(1..n) = n
  BY <1>2, FS_Interval
<1>4. s \in Bijection(1..n, T)
  <2>1. s \in [1..n -> T] /\ (\A t \in T : \E k \in 1..n : s[k] = t)
    BY <1>1, <1>2 DEF Members
  <2>2. \A j, k \in 1..n : s[j] = s[k] => j = k
    BY <1>2 DEF Distinct
  <2>3. DOMAIN s = 1..n
    BY <1>2
  <2> QED BY <2>1, <2>2, <2>3 DEF Bijection, Injection, Surjection, IsInjective
<1>5. ExistsBijection(1..n, T)
  BY <1>4 DEF ExistsBijection
<1> QED BY <1>1, <1>3, <1>5, FS_Bijection

\* There are finitely many slots.
LEMMA SlotsFinite == IsFiniteSet(Slot) /\ Cardinality(Slot) = MaxOrders - 1
BY PoolAssumption, FS_Interval DEF Slot

\* There are no more slots in a list than there are slots.
LEMMA FewSlots ==
  ASSUME NEW s \in Seq(Slot), Distinct(s)
  PROVE  Len(s) <= MaxOrders - 1
<1>1. Members(s) \in SUBSET Slot
  BY DEF Members
<1>2. Cardinality(Members(s)) <= Cardinality(Slot)
  BY <1>1, SlotsFinite, FS_Subset
<1> QED BY <1>2, SlotsFinite, MembersCount

\* Without its n-th element a sequence is still one without repetition.
LEMMA WithoutShape ==
  ASSUME NEW S, NEW s \in Seq(S), Distinct(s), NEW n \in 1..Len(s)
  PROVE  /\ Without(s, n) \in Seq(S) /\ Distinct(Without(s, n))
         /\ Len(Without(s, n)) = Len(s) - 1
         /\ Members(Without(s, n)) = Members(s) \ {s[n]}
<1>1. PICK m, t : m = Len(s) /\ t = Without(s, n)
  OBVIOUS
<1>2. m \in Nat /\ m # 0 /\ n \in 1..m /\ DOMAIN s = 1..m /\ s \in [1..m -> S]
  BY <1>1
<1>3. t = [k \in 1..(m - 1) |-> IF k < n THEN s[k] ELSE s[k + 1]]
  BY <1>1 DEF Without
<1>4. \A k \in 1..(m - 1) : k \in 1..m /\ k + 1 \in 1..m
  BY <1>2
<1>5. t \in Seq(S) /\ Len(t) = m - 1 /\ DOMAIN t = 1..(m - 1)
  BY <1>2, <1>3, <1>4
<1>6. \A j, k \in 1..m : s[j] = s[k] => j = k
  BY <1>2 DEF Distinct
<1>7. Distinct(t)
  <2>1. ASSUME NEW j \in 1..(m - 1), NEW k \in 1..(m - 1), t[j] = t[k] PROVE j = k
    BY <1>2, <1>3, <1>4, <1>6, <2>1
  <2> QED BY <1>5, <2>1 DEF Distinct
<1>8. ASSUME NEW k \in 1..(m - 1) PROVE \E j \in 1..m : t[k] = s[j] /\ s[j] # s[n]
  <2>1. CASE k < n
    BY <1>2, <1>3, <1>4, <1>6, <2>1
  <2>2. CASE ~(k < n)
    <3>1. k + 1 # n /\ k + 1 \in 1..m /\ t[k] = s[k + 1]
      BY <1>2, <1>3, <1>4, <2>2
    <3> QED BY <1>2, <1>6, <3>1
  <2> QED BY <2>1, <2>2
<1>9. ASSUME NEW j \in 1..m, s[j] # s[n] PROVE \E k \in 1..(m - 1) : t[k] = s[j]
  <2>1. j # n
    BY <1>9
  <2>2. CASE j < n
    <3>1. j \in 1..(m - 1)
      BY <1>2, <2>2
    <3> QED BY <1>3, <2>2, <3>1
  <2>3. CASE j > n
    <3>1. j - 1 \in 1..(m - 1) /\ ~(j - 1 < n) /\ (j - 1) + 1 = j
      BY <1>2, <2>3
    <3> QED BY <1>3, <3>1
  <2> QED BY <1>2, <2>1, <2>2, <2>3
<1>10. Members(t) = Members(s) \ {s[n]}
  BY <1>2, <1>5, <1>8, <1>9 DEF Members
<1> QED BY <1>1, <1>5, <1>7, <1>10

-----------------------------------------------------------------------------
(***************************************************************************)
(* Lists that are linked through next.                                     *)
(***************************************************************************)
IsList(data, s, start, end) ==
  /\ s \in Seq(Slot) /\ Distinct(s)
  /\ start = IF s = <<>> THEN end ELSE s[1]
  /\ \A k \in DOMAIN s : data[s[k]].next = IF k = Len(s) THEN end ELSE s[k + 1]

\* The slots that Chain meets are those of the list, in its order.
LEMMA ChainOfList ==
  ASSUME NEW data, NEW s, NEW start, NEW end, end \notin Slot, IsList(data, s, start, end)
  PROVE  Chain(data, start) = s
<1>1. PICK n : n = Len(s)
  OBVIOUS
<1>2. n \in Nat /\ DOMAIN s = 1..n /\ s \in [1..n -> Slot] /\ n <= MaxOrders - 1 /\ MaxOrders \in Nat
  BY <1>1, FewSlots, PoolAssumption DEF IsList
<1>3. PICK f : f = [k \in 0..MaxOrders |-> IF k < n THEN s[k + 1] ELSE end]
  OBVIOUS
<1> DEFINE Met(g) == g = [k \in 0..MaxOrders |->
                            IF k = 0 THEN start
                            ELSE IF g[k - 1] \in Slot THEN data[g[k - 1]].next ELSE g[k - 1]]
<1>4. Met(f)
  <2>1. f[0] = start
    <3>1. CASE n = 0
      BY <1>1, <1>2, <1>3, <3>1 DEF IsList
    <3>2. CASE n > 0
      BY <1>1, <1>2, <1>3, <3>2 DEF IsList
    <3> QED BY <1>2, <3>1, <3>2
  <2>2. ASSUME NEW k \in 1..MaxOrders
        PROVE  f[k] = IF f[k - 1] \in Slot THEN data[f[k - 1]].next ELSE f[k - 1]
    <3>1. k \in 0..MaxOrders /\ k - 1 \in 0..MaxOrders
      BY <1>2
    <3>2. CASE k - 1 < n
      <4>1. k \in 1..n /\ f[k - 1] = s[k] /\ s[k] \in Slot
        <5>1. k \in 1..n /\ (k - 1) + 1 = k
          BY <1>2, <3>2
        <5> QED BY <1>2, <1>3, <3>1, <3>2, <5>1
      <4>2. data[s[k]].next = IF k = n THEN end ELSE s[k + 1]
        BY <1>1, <1>2, <4>1 DEF IsList
      <4>3. f[k] = IF k < n THEN s[k + 1] ELSE end
        BY <1>3, <3>1
      <4> QED BY <1>2, <4>1, <4>2, <4>3
    <3>3. CASE ~(k - 1 < n)
      <4>1. f[k - 1] = end /\ f[k] = end
        BY <1>2, <1>3, <3>1, <3>3
      <4> QED BY <4>1
    <3> QED BY <3>2, <3>3
  <2>3. f = [k \in 0..MaxOrders |-> f[k]]
    BY <1>3
  <2>4. \A k \in 0..MaxOrders : k = 0 \/ k \in 1..MaxOrders
    BY <1>2
  <2> QED BY <2>1, <2>2, <2>3, <2>4
<1>5. PICK at : at = CHOOSE g : Met(g)
  OBVIOUS
<1>6. Met(at)
  BY <1>4, <1>5
<1>7. at = f
  <2> DEFINE Same == {k \in Nat : k <= MaxOrders => at[k] = f[k]}
  <2>1. 0 \in Same
    BY <1>2, <1>4, <1>6
  <2>2. ASSUME NEW k \in Nat, k \in Same PROVE k + 1 \in Same
    <3> SUFFICES ASSUME k + 1 <= MaxOrders PROVE at[k + 1] = f[k + 1]
      OBVIOUS
    <3>1. k + 1 \in 0..MaxOrders /\ k + 1 # 0 /\ (k + 1) - 1 = k /\ at[k] = f[k]
      BY <1>2, <2>2
    <3>2. at[k + 1] = IF at[k] \in Slot THEN data[at[k]].next ELSE at[k]
      BY <1>6, <3>1
    <3>3. f[k + 1] = IF f[k] \in Slot THEN data[f[k]].next ELSE f[k]
      BY <1>4, <3>1
    <3> QED BY <3>1, <3>2, <3>3
  <2>3. Nat \subseteq Same
    <3> HIDE DEF Same
    <3> QED BY <2>1, <2>2, Induction
  <2>4. \A k \in 0..MaxOrders : at[k] = f[k]
    BY <1>2, <2>3
  <2>5. at = [k \in 0..MaxOrders |-> at[k]]
    BY <1>6
  <2>6. f = [k \in 0..MaxOrders |-> f[k]]
    BY <1>3
  <2> QED BY <2>4, <2>5, <2>6
<1>8. {k \in 0..MaxOrders : f[k] \in Slot} = 0..(n - 1)
  BY <1>2, <1>3
<1>9. Cardinality(0..(n - 1)) = n
  BY <1>2, FS_Interval
<1>10. Chain(data, start) = [k \in 1..Cardinality({k \in 0..MaxOrders : at[k] \in Slot}) |-> at[k - 1]]
  BY <1>5 DEF Chain
<1>11. Chain(data, start) = [k \in 1..n |-> f[k - 1]]
  BY <1>7, <1>8, <1>9, <1>10
<1>12. \A k \in 1..n : f[k - 1] = s[k]
  <2> SUFFICES ASSUME NEW k \in 1..n PROVE f[k - 1] = s[k]
    OBVIOUS
  <2>1. k - 1 \in 0..MaxOrders /\ k - 1 < n /\ (k - 1) + 1 = k
    BY <1>2
  <2> QED BY <1>3, <2>1
<1>13. s = [k \in 1..n |-> s[k]]
  BY <1>2
<1> QED BY <1>11, <1>12, <1>13

-----------------------------------------------------------------------------
(***************************************************************************)
(* The records of the orders.                                              *)
(***************************************************************************)
\* What may remain of an order: as much of it as there are slots fits in a volume.
Amounts == {r \in Nat : VolumesFit => (MaxOrders - 1) * r < U32Size}

\* The records that slots hold: blank ones, commands and orders.
OrderRecord ==
  [kind : {"New", "Cancel", "Replace"}, instrument : Instrument \cup {0}, account : Account \cup {0},
   clientOrderId : ClientOrderId \cup {0}, target : ClientOrderId \cup {0}, side : Side,
   price : Nat, quantity : Nat, remaining : Amounts, exchangeOrderId : Nat, sequence : Nat,
   next : 0..MaxOrders, prev : 0..MaxOrders]

\* What an order keeps while it is linked, unlinked and filled.
SameOrder(o, p) ==
  /\ o.instrument = p.instrument /\ o.account = p.account /\ o.clientOrderId = p.clientOrderId
  /\ o.side = p.side /\ o.price = p.price /\ o.sequence = p.sequence
  /\ o.exchangeOrderId = p.exchangeOrderId

\* Setting one field of an order leaves the others.
LEMMA SetNext ==
  ASSUME NEW o \in OrderRecord, NEW n \in 0..MaxOrders
  PROVE  LET p == [o EXCEPT !.next = n]
         IN  /\ p \in OrderRecord /\ SameOrder(p, o)
             /\ p.next = n /\ p.prev = o.prev /\ p.remaining = o.remaining
BY DEF OrderRecord, SameOrder

\* So does setting its link backwards.
LEMMA SetPrev ==
  ASSUME NEW o \in OrderRecord, NEW n \in 0..MaxOrders
  PROVE  LET p == [o EXCEPT !.prev = n]
         IN  /\ p \in OrderRecord /\ SameOrder(p, o)
             /\ p.prev = n /\ p.next = o.next /\ p.remaining = o.remaining
BY DEF OrderRecord, SameOrder

\* So does a fill.
LEMMA SetRemaining ==
  ASSUME NEW o \in OrderRecord, NEW n \in Amounts
  PROVE  LET p == [o EXCEPT !.remaining = n]
         IN  /\ p \in OrderRecord /\ SameOrder(p, o)
             /\ p.remaining = n /\ p.next = o.next /\ p.prev = o.prev
BY DEF OrderRecord, SameOrder

\* So does turning a replacement into a new order.
LEMMA SetKind ==
  ASSUME NEW o \in OrderRecord
  PROVE  LET p == [o EXCEPT !.kind = "New"]
         IN  /\ p \in OrderRecord /\ SameOrder(p, o)
             /\ p.remaining = o.remaining /\ p.next = o.next /\ p.prev = o.prev
BY DEF OrderRecord, SameOrder

\* Less than an amount is an amount.
LEMMA LessRemains ==
  ASSUME NEW a \in Amounts, NEW b \in Nat, b <= a
  PROVE  b \in Amounts
<1>1. PICK n : n = MaxOrders - 1
  OBVIOUS
<1>2. n \in Nat /\ a \in Nat /\ U32Size \in Nat
  BY <1>1, PoolAssumption, U32Assumption DEF Amounts
<1>3. n * b <= n * a /\ n * a \in Nat /\ n * b \in Nat
  <2>1. \A x, y, z \in Nat : y <= z => x * y <= x * z
    OBVIOUS
  <2> QED BY <1>2, <2>1
<1> QED BY <1>1, <1>2, <1>3 DEF Amounts

\* Nothing is an amount.
LEMMA NothingRemains == 0 \in Amounts
<1>1. PICK n : n = MaxOrders - 1
  OBVIOUS
<1>2. n \in Nat /\ n * 0 = 0
  BY <1>1, PoolAssumption
<1> QED BY <1>1, <1>2, U32Assumption DEF Amounts

\* A freed slot.
LEMMA FreedSlot ==
  ASSUME NEW n \in 0..MaxOrders
  PROVE  [BlankOrder EXCEPT !.next = n] \in OrderRecord /\ [BlankOrder EXCEPT !.next = n].next = n
BY NothingRemains, PoolAssumption DEF BlankOrder, OrderRecord, NullOrder, Side

-----------------------------------------------------------------------------
(***************************************************************************)
(* The free list.                                                          *)
(***************************************************************************)
LEMMA ListFrame ==
  ASSUME NEW data, NEW new, NEW s, NEW start, NEW end, IsList(data, s, start, end),
         \A x \in Members(s) : new[x].next = data[x].next
  PROVE  IsList(new, s, start, end)
BY DEF IsList, Members

\* A list that is not empty starts with its first slot and goes on after it.
LEMMA ListTail ==
  ASSUME NEW data, NEW s, NEW start, NEW end, IsList(data, s, start, end), s # <<>>
  PROVE  /\ start = s[1] /\ start \in Members(s)
         /\ IsList(data, Tail(s), data[start].next, end)
         /\ Members(Tail(s)) = Members(s) \ {start} /\ Len(Tail(s)) = Len(s) - 1
<1>1. PICK n, t : n = Len(s) /\ t = Tail(s)
  OBVIOUS
<1>2. s \in Seq(Slot) /\ n \in Nat /\ n # 0 /\ DOMAIN s = 1..n /\ start = s[1] /\ 1 \in 1..n
  BY <1>1 DEF IsList
<1>3. t \in Seq(Slot) /\ Len(t) = n - 1 /\ DOMAIN t = 1..(n - 1) /\ \A k \in 1..(n - 1) : t[k] = s[k + 1] /\ k + 1 \in 1..n
  BY <1>1, <1>2
<1>4. \A j, k \in 1..n : s[j] = s[k] => j = k
  BY <1>2 DEF IsList, Distinct
<1>5. Distinct(t)
  BY <1>2, <1>3, <1>4 DEF Distinct
<1>6. Members(t) = Members(s) \ {start}
  <2>1. \A j \in 1..n : j # 1 => j - 1 \in 1..(n - 1) /\ t[j - 1] = s[j]
    BY <1>2, <1>3
  <2>2. \A k \in 1..(n - 1) : s[k + 1] # s[1]
    <3>1. \A k \in 1..(n - 1) : k + 1 # 1 /\ k + 1 \in 1..n
      BY <1>2
    <3> QED BY <1>2, <1>4, <3>1
  <2>3. ASSUME NEW k \in 1..(n - 1) PROVE t[k] \in Members(s) /\ t[k] # start
    BY <1>2, <1>3, <2>2 DEF Members
  <2>4. ASSUME NEW j \in 1..n, s[j] # start PROVE s[j] \in Members(t)
    <3>1. j # 1
      BY <1>2, <2>4
    <3>2. j - 1 \in DOMAIN t /\ t[j - 1] = s[j]
      BY <1>3, <2>1, <3>1
    <3> QED BY <3>2 DEF Members
  <2>5. Members(t) = {t[k] : k \in 1..(n - 1)} /\ Members(s) = {s[j] : j \in 1..n}
    BY <1>2, <1>3 DEF Members
  <2>6. Members(t) \subseteq Members(s) \ {start}
    BY ONLY <2>3, <2>5
  <2>7. Members(s) \ {start} \subseteq Members(t)
    BY ONLY <2>4, <2>5
  <2> QED BY <2>6, <2>7
<1>7. data[start].next = IF t = <<>> THEN end ELSE t[1]
  <2>1. data[s[1]].next = IF n = 1 THEN end ELSE s[2]
    BY <1>1, <1>2 DEF IsList
  <2>2. CASE n = 1
    BY <1>2, <1>3, <2>1, <2>2
  <2>3. CASE n # 1
    <3>1. t # <<>> /\ 1 \in 1..(n - 1) /\ t[1] = s[2]
      BY <1>2, <1>3, <2>3
    <3> QED BY <1>2, <2>1, <2>3, <3>1
  <2> QED BY <2>2, <2>3
<1>8. ASSUME NEW k \in 1..(n - 1) PROVE data[t[k]].next = IF k = n - 1 THEN end ELSE t[k + 1]
  <2>1. k + 1 \in 1..n /\ t[k] = s[k + 1]
    BY <1>3
  <2>2. data[s[k + 1]].next = IF k + 1 = n THEN end ELSE s[(k + 1) + 1]
    BY <1>1, <1>2, <2>1 DEF IsList
  <2>3. k # n - 1 => k + 1 \in 1..(n - 1)
    BY <1>2
  <2>4. k # n - 1 => t[k + 1] = s[(k + 1) + 1]
    BY <1>3, <2>3
  <2>5. k + 1 = n <=> k = n - 1
    BY <1>2
  <2> QED BY <2>1, <2>2, <2>4, <2>5
<1>9. IsList(data, t, data[start].next, end)
  BY <1>3, <1>5, <1>7, <1>8 DEF IsList
<1>10. start \in Members(s)
  BY <1>2 DEF Members
<1> QED BY <1>1, <1>2, <1>3, <1>6, <1>9, <1>10

\* A slot that links to the start of a list makes it longer.
LEMMA ListCons ==
  ASSUME NEW data, NEW s, NEW start, NEW end, IsList(data, s, start, end),
         NEW x \in Slot, x \notin Members(s), data[x].next = start
  PROVE  /\ IsList(data, <<x>> \o s, x, end)
         /\ Members(<<x>> \o s) = Members(s) \cup {x} /\ Len(<<x>> \o s) = Len(s) + 1
<1>1. PICK n, t : n = Len(s) /\ t = <<x>> \o s
  OBVIOUS
<1>2. s \in Seq(Slot) /\ n \in Nat /\ DOMAIN s = 1..n
  BY <1>1 DEF IsList
<1>3. t \in Seq(Slot) /\ Len(t) = n + 1 /\ DOMAIN t = 1..(n + 1) /\ t[1] = x /\ \A k \in 1..n : t[k + 1] = s[k]
  BY <1>1, <1>2
<1>4. \A j, k \in 1..n : s[j] = s[k] => j = k
  BY <1>2 DEF IsList, Distinct
<1>5. \A k \in 1..(n + 1) : k = 1 \/ (k - 1 \in 1..n /\ t[k] = s[k - 1])
  <2> SUFFICES ASSUME NEW k \in 1..(n + 1), k # 1 PROVE k - 1 \in 1..n /\ t[k] = s[k - 1]
    OBVIOUS
  <2>1. k - 1 \in 1..n /\ (k - 1) + 1 = k
    BY <1>2
  <2> QED BY <1>3, <2>1
<1>6. \A k \in 1..n : s[k] # x
  BY <1>2 DEF Members
<1>7. Distinct(t)
  <2>1. ASSUME NEW j \in 1..(n + 1), NEW k \in 1..(n + 1), t[j] = t[k] PROVE j = k
    BY <1>2, <1>3, <1>4, <1>5, <1>6, <2>1
  <2> QED BY <1>3, <2>1 DEF Distinct
<1>8. Members(t) = Members(s) \cup {x}
  <2>1. 1 \in 1..(n + 1) /\ \A k \in 1..n : k + 1 \in 1..(n + 1)
    BY <1>2
  <2>2. Members(t) = {t[k] : k \in 1..(n + 1)} /\ Members(s) = {s[j] : j \in 1..n}
    BY <1>2, <1>3 DEF Members
  <2>3. Members(t) \subseteq Members(s) \cup {x}
    BY <1>3, <1>5, <2>2
  <2>4. Members(s) \subseteq Members(t)
    <3> SUFFICES ASSUME NEW k \in 1..n PROVE s[k] \in Members(t)
      BY <2>2
    <3>1. k + 1 \in 1..(n + 1) /\ t[k + 1] = s[k]
      BY <1>3, <2>1
    <3> QED BY <2>2, <3>1
  <2>5. x \in Members(t)
    BY <1>3, <2>1, <2>2
  <2> QED BY <2>3, <2>4, <2>5
<1>9. start = IF n = 0 THEN end ELSE s[1]
  BY <1>1, <1>2 DEF IsList
<1>10. ASSUME NEW k \in 1..(n + 1) PROVE data[t[k]].next = IF k = n + 1 THEN end ELSE t[k + 1]
  <2>1. CASE k = 1
    <3>1. n # 0 => t[2] = s[1]
      BY <1>2, <1>3
    <3> QED BY <1>2, <1>3, <1>9, <2>1, <3>1
  <2>2. CASE k # 1
    <3>1. k - 1 \in 1..n /\ t[k] = s[k - 1] /\ data[s[k - 1]].next = IF k - 1 = n THEN end ELSE s[(k - 1) + 1]
      BY <1>1, <1>2, <1>5, <2>2 DEF IsList
    <3>2. (k - 1) + 1 = k /\ (k # n + 1 => k \in 1..n /\ t[k + 1] = s[k])
      BY <1>2, <1>3, <2>2
    <3> QED BY <1>2, <3>1, <3>2
  <2> QED BY <2>1, <2>2
<1>11. t # <<>>
  BY <1>2, <1>3
<1>12. IsList(data, t, x, end)
  BY <1>3, <1>7, <1>10, <1>11 DEF IsList
<1> QED BY <1>1, <1>3, <1>8, <1>12

\* A pool whose free list holds exactly the slots of F, and which counts the others.
PoolOK(p, F) ==
  /\ p = [data |-> p.data, freeHead |-> p.freeHead, allocatedCount |-> p.allocatedCount]
  /\ p.data \in [Slot -> OrderRecord]
  /\ p.allocatedCount \in Int
  /\ \E s : /\ IsList(p.data, s, p.freeHead, EndOfPool) /\ Members(s) = F
            /\ p.allocatedCount + Len(s) = MaxOrders - 1

\* What is written into slots that are not free leaves the free list as it is.
LEMMA PoolFrame ==
  ASSUME NEW p, NEW F, PoolOK(p, F), NEW data \in [Slot -> OrderRecord],
         \A x \in F : data[x].next = p.data[x].next
  PROVE  PoolOK([data |-> data, freeHead |-> p.freeHead, allocatedCount |-> p.allocatedCount], F)
<1>1. PICK s : /\ IsList(p.data, s, p.freeHead, EndOfPool) /\ Members(s) = F
               /\ p.allocatedCount + Len(s) = MaxOrders - 1
  BY DEF PoolOK
<1>2. IsList(data, s, p.freeHead, EndOfPool)
  BY <1>1, ListFrame
<1> QED BY <1>1, <1>2 DEF PoolOK

\* The free slots are those that the model's FreeSlots finds.
LEMMA FreeSlotsAre ==
  ASSUME NEW p, NEW F, PoolOK(p, F)
  PROVE  /\ FreeSlots(p) = F /\ F \subseteq Slot /\ IsFiniteSet(F)
         /\ p.allocatedCount = MaxOrders - 1 - Cardinality(F)
<1>1. PICK s : /\ IsList(p.data, s, p.freeHead, EndOfPool) /\ Members(s) = F
               /\ p.allocatedCount + Len(s) = MaxOrders - 1
  BY DEF PoolOK
<1>2. EndOfPool \notin Slot
  BY PoolAssumption DEF EndOfPool, Slot
<1>3. Chain(p.data, p.freeHead) = s
  BY <1>1, <1>2, ChainOfList
<1>4. s \in Seq(Slot) /\ Distinct(s) /\ Len(s) \in Nat
  BY <1>1 DEF IsList
<1>5. FreeSlots(p) = F
  BY <1>1, <1>3 DEF FreeSlots, Members
<1>6. F \subseteq Slot
  BY <1>1, <1>4 DEF Members
<1>7. IsFiniteSet(F) /\ Cardinality(F) = Len(s)
  BY <1>1, <1>4, MembersCount
<1>8. p.allocatedCount \in Int
  BY DEF PoolOK
<1> QED BY <1>1, <1>4, <1>5, <1>6, <1>7, <1>8, PoolAssumption

\* allocate takes the first free slot.
LEMMA AllocateTakes ==
  ASSUME NEW p, NEW F, PoolOK(p, F), CanAllocate(p), NEW order \in OrderRecord
  PROVE  /\ p.freeHead \in F /\ p.freeHead \in Slot
         /\ PoolOK(Allocate(p, order), F \ {p.freeHead})
         /\ Allocate(p, order).data = [p.data EXCEPT ![p.freeHead] = order]
<1>1. PICK s : /\ IsList(p.data, s, p.freeHead, EndOfPool) /\ Members(s) = F
               /\ p.allocatedCount + Len(s) = MaxOrders - 1
  BY DEF PoolOK
<1>2. PICK x, data : x = p.freeHead /\ data = [p.data EXCEPT ![x] = order]
  OBVIOUS
<1>3. s # <<>>
  BY <1>1 DEF IsList, CanAllocate
<1>4. /\ x \in Members(s) /\ IsList(p.data, Tail(s), p.data[x].next, EndOfPool)
      /\ Members(Tail(s)) = F \ {x} /\ Len(Tail(s)) = Len(s) - 1
  BY <1>1, <1>2, <1>3, ListTail
<1>5. x \in F /\ x \in Slot /\ p.data \in [Slot -> OrderRecord] /\ p.allocatedCount \in Int /\ Len(s) \in Nat
  <2>1. F \subseteq Slot
    BY FreeSlotsAre
  <2>2. p.data \in [Slot -> OrderRecord] /\ p.allocatedCount \in Int
    BY DEF PoolOK
  <2>3. s \in Seq(Slot)
    BY <1>1 DEF IsList
  <2> QED BY <1>1, <1>4, <2>1, <2>2, <2>3
<1>6. data \in [Slot -> OrderRecord] /\ \A y \in Members(Tail(s)) : data[y].next = p.data[y].next
  <2>1. \A y \in Members(Tail(s)) : y # x /\ y \in Slot
    BY <1>4, FreeSlotsAre
  <2> QED BY <1>2, <1>5, <2>1
<1>7. IsList(data, Tail(s), p.data[x].next, EndOfPool)
  BY <1>4, <1>6, ListFrame
<1>8. Allocate(p, order) = [data |-> data, freeHead |-> p.data[x].next, allocatedCount |-> p.allocatedCount + 1]
  BY <1>2 DEF Allocate
<1>9. PICK c : c = p.allocatedCount + 1
  OBVIOUS
<1>10. PICK t, n : t = Tail(s) /\ n = Len(s)
  OBVIOUS
<1>11. c \in Int /\ c + Len(t) = MaxOrders - 1
  <2>1. Len(t) = n - 1 /\ n \in Nat /\ p.allocatedCount + n = MaxOrders - 1
    BY <1>1, <1>4, <1>5, <1>10
  <2> QED BY <1>5, <1>9, <2>1, PoolAssumption
<1>12. PoolOK([data |-> data, freeHead |-> p.data[x].next, allocatedCount |-> c], F \ {x})
  <2>1. IsList(data, t, p.data[x].next, EndOfPool) /\ Members(t) = F \ {x}
    BY <1>4, <1>7, <1>10
  <2> QED BY <1>6, <1>11, <2>1 DEF PoolOK
<1> QED BY <1>2, <1>5, <1>8, <1>9, <1>12

\* deallocate puts a slot at the head of the free list and blanks it.
LEMMA DeallocateGives ==
  ASSUME NEW p, NEW F, PoolOK(p, F), NEW x \in Slot, x \notin F
  PROVE  /\ PoolOK(Deallocate(p, x), F \cup {x})
         /\ \A y \in Slot \ {x} : Deallocate(p, x).data[y] = p.data[y]
<1>1. PICK s : /\ IsList(p.data, s, p.freeHead, EndOfPool) /\ Members(s) = F
               /\ p.allocatedCount + Len(s) = MaxOrders - 1
  BY DEF PoolOK
<1>2. PICK h, blank : h = p.freeHead /\ blank = [BlankOrder EXCEPT !.next = h]
  OBVIOUS
<1>3. s \in Seq(Slot) /\ Len(s) \in Nat /\ p.data \in [Slot -> OrderRecord] /\ p.allocatedCount \in Int
  BY <1>1 DEF PoolOK, IsList
<1>4. h \in 0..MaxOrders
  <2>1. h = EndOfPool \/ h \in Slot
    <3>1. h = IF s = <<>> THEN EndOfPool ELSE s[1]
      BY <1>1, <1>2 DEF IsList
    <3>2. s # <<>> => s[1] \in Slot
      BY <1>3
    <3> QED BY <3>1, <3>2
  <2> QED BY <2>1, PoolAssumption DEF EndOfPool, Slot
<1>5. blank \in OrderRecord /\ blank.next = h
  BY <1>2, <1>4, FreedSlot
<1>6. PICK data : data = [p.data EXCEPT ![x] = blank]
  OBVIOUS
<1>7. data \in [Slot -> OrderRecord] /\ data[x] = blank /\ \A y \in Slot \ {x} : data[y] = p.data[y]
  BY <1>3, <1>5, <1>6
<1>8. \A y \in Members(s) : data[y].next = p.data[y].next
  BY <1>1, <1>7, FreeSlotsAre
<1>9. IsList(data, s, h, EndOfPool)
  BY <1>1, <1>2, <1>8, ListFrame
<1>10. PICK t : t = <<x>> \o s
  OBVIOUS
<1>11. IsList(data, t, x, EndOfPool) /\ Members(t) = F \cup {x} /\ Len(t) = Len(s) + 1
  <2>1. x \notin Members(s) /\ data[x].next = h
    BY <1>1, <1>5, <1>7
  <2> QED BY <1>1, <1>9, <1>10, <2>1, ListCons
<1>12. Deallocate(p, x) = [data |-> data, freeHead |-> x, allocatedCount |-> p.allocatedCount - 1]
  BY <1>2, <1>6 DEF Deallocate
<1>13. PICK c : c = p.allocatedCount - 1
  OBVIOUS
<1>14. c \in Int /\ c + Len(t) = MaxOrders - 1
  BY <1>1, <1>3, <1>11, <1>13, PoolAssumption
<1>15. PoolOK(Deallocate(p, x), F \cup {x})
  BY <1>7, <1>11, <1>12, <1>13, <1>14 DEF PoolOK
<1> QED BY <1>7, <1>12, <1>15

\* In a new pool every slot is free.
LEMMA NewPoolFree == PoolOK(NewPool, Slot)
<1>1. PICK n, s : n = MaxOrders - 1 /\ s = [k \in 1..n |-> k]
  OBVIOUS
<1>2. n \in Nat /\ n >= 1 /\ Slot = 1..n /\ MaxOrders = n + 1 /\ MaxOrders \in Nat
  BY <1>1, PoolAssumption DEF Slot
<1>3. s \in Seq(Slot) /\ Len(s) = n /\ DOMAIN s = 1..n /\ \A k \in 1..n : s[k] = k
  BY <1>1, <1>2
<1>4. Distinct(s) /\ Members(s) = Slot
  BY <1>2, <1>3 DEF Distinct, Members
<1>5. PICK data : data = NewPool.data
  OBVIOUS
<1>6. data = [i \in Slot |-> [BlankOrder EXCEPT !.next = IF i = n THEN EndOfPool ELSE i + 1]]
  BY <1>1, <1>5 DEF NewPool
<1>7. \A i \in Slot : data[i] \in OrderRecord /\ data[i].next = IF i = n THEN EndOfPool ELSE i + 1
  <2> SUFFICES ASSUME NEW i \in Slot
               PROVE  data[i] \in OrderRecord /\ data[i].next = IF i = n THEN EndOfPool ELSE i + 1
    OBVIOUS
  <2>1. PICK m : m = IF i = n THEN EndOfPool ELSE i + 1
    OBVIOUS
  <2>2. m \in 0..MaxOrders
    BY <1>2, <2>1 DEF EndOfPool
  <2>3. data[i] = [BlankOrder EXCEPT !.next = m]
    BY <1>6, <2>1
  <2> QED BY <2>1, <2>2, <2>3, FreedSlot
<1>8. data \in [Slot -> OrderRecord]
  BY <1>6, <1>7
<1>9. IsList(data, s, 1, EndOfPool)
  <2>1. s # <<>> /\ s[1] = 1
    BY <1>2, <1>3
  <2>2. \A k \in 1..n : data[s[k]].next = IF k = n THEN EndOfPool ELSE s[k + 1]
    <3> SUFFICES ASSUME NEW k \in 1..n PROVE data[s[k]].next = IF k = n THEN EndOfPool ELSE s[k + 1]
      OBVIOUS
    <3>1. s[k] = k /\ k \in Slot /\ (k # n => s[k + 1] = k + 1)
      BY <1>2, <1>3
    <3> QED BY <1>7, <3>1
  <2> QED BY <1>3, <1>4, <2>1, <2>2 DEF IsList
<1>10. NewPool = [data |-> data, freeHead |-> 1, allocatedCount |-> 0]
  BY <1>5 DEF NewPool
<1>11. PICK p : p = NewPool
  OBVIOUS
<1>12. /\ p = [data |-> p.data, freeHead |-> p.freeHead, allocatedCount |-> p.allocatedCount]
       /\ p.data = data /\ p.freeHead = 1 /\ p.allocatedCount = 0
  BY <1>10, <1>11
<1>13. p.allocatedCount + Len(s) = MaxOrders - 1
  BY <1>2, <1>3, <1>12
<1> QED BY <1>4, <1>8, <1>9, <1>11, <1>12, <1>13 DEF PoolOK

-----------------------------------------------------------------------------
(***************************************************************************)
(* The queue of a price level.                                             *)
(***************************************************************************)
\* The slots of s are linked in both directions, in the order of admission.
Queued(data, s) ==
  /\ s \in Seq(Slot) /\ s # <<>> /\ Distinct(s)
  /\ \A k \in DOMAIN s :
       /\ data[s[k]].next = IF k = Len(s) THEN NullOrder ELSE s[k + 1]
       /\ data[s[k]].prev = IF k = 1 THEN NullOrder ELSE s[k - 1]
       /\ k > 1 => data[s[k - 1]].sequence < data[s[k]].sequence

\* What remains of the orders of M.
Volume(data, M) == SumFunctionOnSet([x \in Slot |-> data[x].remaining], M)

\* The level describes the queue s.
LevelOf(data, level, s) ==
  /\ level = [head |-> s[1], tail |-> s[Len(s)], volume |-> level.volume, orderCount |-> Len(s)]
  /\ level.volume \in Nat
  /\ VolumesFit => level.volume = Volume(data, Members(s))

\* The level describes some queue of exactly the orders of M.
LevelOK(data, level, M) ==
  \E s : Queued(data, s) /\ Members(s) = M /\ LevelOf(data, level, s)

\* A queue is a list that ends at NullOrder.
LEMMA QueueIsList ==
  ASSUME NEW data, NEW s, Queued(data, s)
  PROVE  /\ IsList(data, s, s[1], NullOrder) /\ Chain(data, s[1]) = s
         /\ Len(s) \in Nat \ {0} /\ DOMAIN s = 1..Len(s)
         /\ \A k \in 1..Len(s) : s[k] \in Slot
         /\ \A k \in 1..Len(s) : s[k] \in Members(s)
         /\ Members(s) \subseteq Slot /\ IsFiniteSet(Members(s))
         /\ Cardinality(Members(s)) = Len(s)
<1>1. s \in Seq(Slot) /\ s # <<>> /\ Distinct(s)
  BY DEF Queued
<1>2. Len(s) \in Nat /\ DOMAIN s = 1..Len(s) /\ Len(s) # 0
  BY <1>1
<1>3. IsList(data, s, s[1], NullOrder)
  BY <1>1 DEF IsList, Queued
<1>4. NullOrder \notin Slot
  BY PoolAssumption DEF NullOrder, Slot
<1>5. Chain(data, s[1]) = s
  BY <1>3, <1>4, ChainOfList
<1>6. \A k \in 1..Len(s) : s[k] \in Slot
  BY <1>1, <1>2
<1>7. \A k \in 1..Len(s) : s[k] \in Members(s)
  BY <1>2 DEF Members
<1>8. Members(s) \subseteq Slot
  BY <1>2, <1>6 DEF Members
<1>9. IsFiniteSet(Members(s)) /\ Cardinality(Members(s)) = Len(s)
  BY <1>1, MembersCount
<1> QED BY <1>2, <1>3, <1>5, <1>6, <1>7, <1>8, <1>9

\* The volume is a number, and it is that of other records with the same amounts.
LEMMA VolumeType ==
  ASSUME NEW data, NEW M \in SUBSET Slot, \A x \in M : data[x].remaining \in Nat
  PROVE  IsFiniteSet(M) /\ Volume(data, M) \in Nat /\ \A x \in M : data[x].remaining <= Volume(data, M)
<1>1. PICK f : f = [x \in Slot |-> data[x].remaining]
  OBVIOUS
<1>2. IsFiniteSet(M)
  BY SlotsFinite, FS_Subset
<1>3. \A x \in M : f[x] \in Nat /\ f[x] = data[x].remaining
  BY <1>1
<1>4. SumFunctionOnSet(f, M) \in Nat /\ \A x \in M : f[x] <= SumFunctionOnSet(f, M)
  BY <1>2, <1>3, SumBounds
<1> QED BY <1>1, <1>2, <1>3, <1>4 DEF Volume

\* The volume depends on the amounts only.
LEMMA VolumeSame ==
  ASSUME NEW data, NEW new, NEW M \in SUBSET Slot, \A x \in M : new[x].remaining = data[x].remaining
  PROVE  Volume(new, M) = Volume(data, M)
<1>1. PICK f, g : f = [x \in Slot |-> data[x].remaining] /\ g = [x \in Slot |-> new[x].remaining]
  OBVIOUS
<1>2. IsFiniteSet(M)
  BY SlotsFinite, FS_Subset
<1>3. \A x \in M : f[x] = g[x]
  BY <1>1
<1>4. SumFunctionOnSet(f, M) = SumFunctionOnSet(g, M)
  BY <1>2, <1>3, SumSame
<1> QED BY <1>1, <1>4 DEF Volume

\* An order contributes what remains of it.
LEMMA VolumeWithout ==
  ASSUME NEW data, NEW M \in SUBSET Slot, \A x \in M : data[x].remaining \in Nat, NEW y \in M
  PROVE  Volume(data, M) = data[y].remaining + Volume(data, M \ {y})
<1>1. PICK f : f = [x \in Slot |-> data[x].remaining]
  OBVIOUS
<1>2. IsFiniteSet(M)
  BY SlotsFinite, FS_Subset
<1>3. \A x \in M : f[x] \in Int /\ f[x] = data[x].remaining
  BY <1>1
<1>4. SumFunctionOnSet(f, M) = f[y] + SumFunctionOnSet(f, M \ {y})
  BY <1>2, <1>3, SumWithout
<1> QED BY <1>1, <1>3, <1>4 DEF Volume

\* A fill of one order changes the volume by as much.
LEMMA VolumeChanged ==
  ASSUME NEW data, NEW new, NEW M \in SUBSET Slot, NEW y \in M,
         \A x \in M : data[x].remaining \in Nat /\ new[x].remaining \in Nat,
         \A x \in M \ {y} : new[x].remaining = data[x].remaining
  PROVE  Volume(new, M) = Volume(data, M) - data[y].remaining + new[y].remaining
<1>1. PICK f, g : f = [x \in Slot |-> data[x].remaining] /\ g = [x \in Slot |-> new[x].remaining]
  OBVIOUS
<1>2. IsFiniteSet(M)
  BY SlotsFinite, FS_Subset
<1>3. \A x \in M : f[x] \in Int /\ g[x] \in Int
  BY <1>1
<1>4. \A x \in M \ {y} : g[x] = f[x]
  BY <1>1
<1>5. SumFunctionOnSet(g, M) = SumFunctionOnSet(f, M) - f[y] + g[y]
  BY <1>2, <1>3, <1>4, SumChanged
<1>6. f[y] = data[y].remaining /\ g[y] = new[y].remaining
  BY <1>1
<1> QED BY <1>1, <1>5, <1>6 DEF Volume

\* What orders of such amounts add up to fits in a u32.
LEMMA VolumeFits ==
  ASSUME NEW data, NEW M \in SUBSET Slot, VolumesFit, \A x \in M : data[x].remaining \in Amounts
  PROVE  Volume(data, M) < U32Size
<1>1. PICK n, f, b : n = MaxOrders - 1 /\ f = [x \in Slot |-> data[x].remaining] /\ b = U32Size - 1
  OBVIOUS
<1>2. n \in Nat /\ n >= 1 /\ b \in Nat /\ U32Size = b + 1
  BY <1>1, PoolAssumption, U32Assumption
<1>3. IsFiniteSet(M) /\ IsFiniteSet(Slot) /\ Cardinality(Slot) = n
  BY <1>1, SlotsFinite, FS_Subset
<1>4. \A x \in M : f[x] \in Nat /\ n * f[x] <= b
  <2> SUFFICES ASSUME NEW x \in M PROVE f[x] \in Nat /\ n * f[x] <= b
    OBVIOUS
  <2>1. f[x] \in Amounts
    BY <1>1
  <2>2. f[x] \in Nat /\ n * f[x] < U32Size
    BY <1>1, <2>1 DEF Amounts
  <2>3. n * f[x] \in Nat
    BY <1>2, <2>2
  <2> QED BY <1>2, <2>2, <2>3
<1> DEFINE Fits == {T \in SUBSET M : n * SumFunctionOnSet(f, T) <= Cardinality(T) * b}
<1>5. {} \in Fits
  <2>1. SumFunctionOnSet(f, {}) = 0 /\ Cardinality({}) = 0
    BY SumEmpty, FS_EmptySet
  <2>2. n * 0 = 0 /\ 0 * b = 0
    BY <1>2
  <2> QED BY <2>1, <2>2
<1>6. ASSUME NEW T \in SUBSET M, NEW x \in M \ T, T \in Fits PROVE T \cup {x} \in Fits
  <2>1. PICK U : U = T \cup {x}
    OBVIOUS
  <2>2. U \in SUBSET M /\ x \in U /\ U \ {x} = T
    BY <2>1
  <2>3. IsFiniteSet(U) /\ IsFiniteSet(T)
    BY <1>3, <2>2, FS_Subset
  <2>4. \A y \in U : f[y] \in Int
    BY <1>4, <2>2
  <2>5. SumFunctionOnSet(f, U) = f[x] + SumFunctionOnSet(f, U \ {x})
    BY <2>2, <2>3, <2>4, SumWithout
  <2>6. Cardinality(T) \in Nat /\ Cardinality(U) = Cardinality(T) + 1
    BY <2>1, <2>3, FS_CardinalityType, FS_AddElement
  <2>7. SumFunctionOnSet(f, T) \in Int
    <3>1. \A y \in T : f[y] \in Int
      BY <1>4
    <3> QED BY <2>3, <3>1, SumType
  <2>8. PICK c, v, w : c = Cardinality(T) /\ v = SumFunctionOnSet(f, T) /\ w = f[x]
    OBVIOUS
  <2>9. c \in Nat /\ v \in Int /\ w \in Nat /\ n * w <= b /\ n * v <= c * b
    BY <1>4, <1>6, <2>6, <2>7, <2>8
  <2>10. n * (w + v) = n * w + n * v /\ (c + 1) * b = c * b + b
    BY <1>2, <2>9
  <2>11. n * w \in Int /\ n * v \in Int /\ c * b \in Int
    BY <1>2, <2>9
  <2>12. n * (w + v) <= (c + 1) * b
    BY <1>2, <2>9, <2>10, <2>11
  <2> QED BY <2>1, <2>2, <2>5, <2>6, <2>8, <2>12
<1>7. M \in Fits
  <2> HIDE DEF Fits
  <2> QED BY <1>3, <1>5, <1>6, SetInduction
<1>8. PICK v, c : v = SumFunctionOnSet(f, M) /\ c = Cardinality(M)
  OBVIOUS
<1>9. v \in Int
  <2>1. \A y \in M : f[y] \in Int
    BY <1>4
  <2> QED BY <1>3, <1>8, <2>1, SumType
<1>10. c \in Nat /\ c <= n
  <2>1. M \in SUBSET Slot
    OBVIOUS
  <2> QED BY <1>3, <1>8, <2>1, FS_Subset, FS_CardinalityType
<1>11. n * v <= c * b /\ c * b <= n * b
  <2>1. n * v <= c * b
    BY <1>7, <1>8
  <2>2. \A x, y, z \in Nat : x <= y => x * z <= y * z
    OBVIOUS
  <2> QED BY <1>2, <1>10, <2>1, <2>2
<1>12. n * v <= n * b
  BY <1>2, <1>9, <1>10, <1>11
<1>13. v <= b
  <2> SUFFICES ASSUME v > b PROVE FALSE
    BY <1>2, <1>9
  <2>1. PICK d : d = v - b
    OBVIOUS
  <2>2. d \in Nat /\ d >= 1 /\ v = b + d
    BY <1>2, <1>9, <2>1
  <2>3. n * v = n * b + n * d
    BY <1>2, <2>2
  <2>4. n * d >= 1
    BY <1>2, <2>2
  <2>5. n * b \in Int /\ n * d \in Int
    BY <1>2, <2>2
  <2> QED BY <1>12, <2>3, <2>4, <2>5
<1> QED BY <1>1, <1>2, <1>8, <1>9, <1>13 DEF Volume

\* Same links and same place in time.
SameLinks(o, p) == o.next = p.next /\ o.prev = p.prev /\ o.sequence = p.sequence

\* A queue is one as long as its links and places in time stay.
LEMMA QueueFrame ==
  ASSUME NEW data, NEW new, NEW s, Queued(data, s), \A x \in Members(s) : SameLinks(new[x], data[x])
  PROVE  Queued(new, s)
<1>1. s \in Seq(Slot) /\ s # <<>> /\ Distinct(s)
  BY DEF Queued
<1>2. Len(s) \in Nat /\ DOMAIN s = 1..Len(s)
  BY <1>1
<1>3. \A k \in DOMAIN s : SameLinks(new[s[k]], data[s[k]])
  BY DEF Members
<1>4. ASSUME NEW k \in DOMAIN s
      PROVE  /\ new[s[k]].next = IF k = Len(s) THEN NullOrder ELSE s[k + 1]
             /\ new[s[k]].prev = IF k = 1 THEN NullOrder ELSE s[k - 1]
             /\ k > 1 => new[s[k - 1]].sequence < new[s[k]].sequence
  <2>1. k > 1 => k - 1 \in DOMAIN s
    BY <1>2
  <2> QED BY <1>3, <2>1 DEF Queued, SameLinks
<1> QED BY <1>1, <1>4 DEF Queued

\* A level keeps its form while its orders keep links and amounts.
LEMMA LevelFrame ==
  ASSUME NEW data, NEW new, NEW level, NEW M, LevelOK(data, level, M),
         \A x \in M : SameLinks(new[x], data[x]) /\ new[x].remaining = data[x].remaining
  PROVE  LevelOK(new, level, M)
<1>1. PICK s : Queued(data, s) /\ Members(s) = M /\ LevelOf(data, level, s)
  BY DEF LevelOK
<1>2. Queued(new, s)
  BY <1>1, QueueFrame
<1>3. M \in SUBSET Slot
  BY <1>1, QueueIsList
<1>4. Volume(new, M) = Volume(data, M)
  BY <1>3, VolumeSame
<1>5. LevelOf(new, level, s)
  BY <1>1, <1>4 DEF LevelOf
<1> QED BY <1>1, <1>2, <1>5 DEF LevelOK

\* An order is linked behind the last one of a queue.
LEMMA QueueAppend ==
  ASSUME NEW data, NEW new, NEW s, Queued(data, s), NEW x \in Slot, x \notin Members(s),
         \A y \in Members(s) :
           new[y].prev = data[y].prev /\ new[y].sequence = data[y].sequence,
         \A y \in Members(s) : y # s[Len(s)] => new[y].next = data[y].next,
         new[s[Len(s)]].next = x, new[x].prev = s[Len(s)], new[x].next = NullOrder,
         new[s[Len(s)]].sequence < new[x].sequence
  PROVE  /\ Queued(new, Append(s, x)) /\ Members(Append(s, x)) = Members(s) \cup {x}
         /\ Append(s, x)[1] = s[1] /\ Append(s, x)[Len(Append(s, x))] = x
         /\ Len(Append(s, x)) = Len(s) + 1
<1>1. PICK n, t : n = Len(s) /\ t = Append(s, x)
  OBVIOUS
<1>2. s \in Seq(Slot) /\ n \in Nat \ {0} /\ DOMAIN s = 1..n /\ \A k \in 1..n : s[k] \in Members(s)
  BY <1>1, QueueIsList DEF Queued
<1>3. t \in Seq(Slot) /\ Len(t) = n + 1 /\ DOMAIN t = 1..(n + 1) /\ t[n + 1] = x /\ \A k \in 1..n : t[k] = s[k]
  BY <1>1, <1>2
<1>4. \A j, k \in 1..n : s[j] = s[k] => j = k
  BY <1>2 DEF Queued, Distinct
<1>5. \A k \in 1..(n + 1) : k \in 1..n \/ k = n + 1
  BY <1>2
<1>6. \A k \in 1..n : s[k] # x
  BY <1>2
<1>7. Distinct(t)
  <2>1. ASSUME NEW j \in 1..(n + 1), NEW k \in 1..(n + 1), t[j] = t[k] PROVE j = k
    BY <1>3, <1>4, <1>5, <1>6, <2>1
  <2> QED BY <1>3, <2>1 DEF Distinct
<1>8. Members(t) = Members(s) \cup {x}
  <2>1. Members(t) = {t[k] : k \in 1..(n + 1)} /\ Members(s) = {s[j] : j \in 1..n}
    BY <1>2, <1>3 DEF Members
  <2>2. n + 1 \in 1..(n + 1) /\ \A k \in 1..n : k \in 1..(n + 1)
    BY <1>2
  <2> QED BY <1>3, <1>5, <2>1, <2>2
<1>9. ASSUME NEW k \in 1..n
      PROVE  /\ data[s[k]].next = IF k = n THEN NullOrder ELSE s[k + 1]
             /\ data[s[k]].prev = IF k = 1 THEN NullOrder ELSE s[k - 1]
             /\ k > 1 => data[s[k - 1]].sequence < data[s[k]].sequence
  BY <1>1, <1>2 DEF Queued
<1>10. ASSUME NEW k \in 1..(n + 1)
       PROVE  /\ new[t[k]].next = IF k = n + 1 THEN NullOrder ELSE t[k + 1]
              /\ new[t[k]].prev = IF k = 1 THEN NullOrder ELSE t[k - 1]
              /\ k > 1 => new[t[k - 1]].sequence < new[t[k]].sequence
  <2>1. CASE k = n + 1
    <3>1. k # 1 /\ k > 1 /\ k - 1 = n /\ n \in 1..n
      BY <1>2, <2>1
    <3>2. t[k] = x /\ t[k - 1] = s[n]
      BY <1>3, <2>1, <3>1
    <3> QED BY <1>1, <2>1, <3>1, <3>2
  <2>2. CASE k \in 1..n /\ k # n
    <3>1. k + 1 \in 1..n /\ k # n + 1 /\ (k # 1 => k - 1 \in 1..n /\ k > 1) /\ n \in 1..n
      BY <1>2, <2>2
    <3>2. t[k] = s[k] /\ t[k + 1] = s[k + 1] /\ (k # 1 => t[k - 1] = s[k - 1])
      BY <1>3, <2>2, <3>1
    <3>3. s[k] \in Members(s) /\ s[k] # s[n] /\ (k # 1 => s[k - 1] \in Members(s))
      BY <1>2, <1>4, <2>2, <3>1
    <3>4. new[s[k]].next = data[s[k]].next /\ new[s[k]].prev = data[s[k]].prev /\ new[s[k]].sequence = data[s[k]].sequence
      BY <1>1, <3>3
    <3>5. k # 1 => new[s[k - 1]].sequence = data[s[k - 1]].sequence
      BY <3>3
    <3>6. k > 1 => k # 1
      BY <2>2
    <3> QED BY <1>9, <2>2, <3>1, <3>2, <3>4, <3>5, <3>6
  <2>3. CASE k = n
    <3>1. k \in 1..n /\ k # n + 1 /\ (k # 1 => k - 1 \in 1..n /\ k > 1)
      BY <1>2, <2>3
    <3>2. t[k] = s[k] /\ t[k + 1] = x /\ (k # 1 => t[k - 1] = s[k - 1])
      BY <1>3, <2>3, <3>1
    <3>3. s[k] \in Members(s) /\ (k # 1 => s[k - 1] \in Members(s))
      BY <1>2, <3>1
    <3>4. new[s[k]].next = x /\ new[s[k]].prev = data[s[k]].prev /\ new[s[k]].sequence = data[s[k]].sequence
      BY <1>1, <2>3, <3>3
    <3>5. k # 1 => new[s[k - 1]].sequence = data[s[k - 1]].sequence
      BY <3>3
    <3>6. k > 1 => k # 1
      BY <3>1
    <3> QED BY <1>9, <3>1, <3>2, <3>4, <3>5, <3>6
  <2> QED BY <1>5, <2>1, <2>2, <2>3
<1>11. t # <<>>
  BY <1>2, <1>3
<1>12. Queued(new, t)
  BY <1>3, <1>7, <1>10, <1>11 DEF Queued
<1>13. 1 \in 1..n
  BY <1>2
<1> QED BY <1>1, <1>3, <1>8, <1>12, <1>13

\* A queue of one order.
LEMMA QueueOfOne ==
  ASSUME NEW data, NEW x \in Slot, data[x].next = NullOrder, data[x].prev = NullOrder
  PROVE  Queued(data, <<x>>) /\ Members(<<x>>) = {x}
<1>1. PICK s : s = <<x>>
  OBVIOUS
<1>2. s \in Seq(Slot) /\ s # <<>> /\ Len(s) = 1 /\ DOMAIN s = {1} /\ s[1] = x
  BY <1>1
<1>3. Distinct(s) /\ Members(s) = {x}
  BY <1>2 DEF Distinct, Members
<1>4. Queued(data, s)
  BY <1>2, <1>3 DEF Queued
<1> QED BY <1>1, <1>3, <1>4

\* The neighbours of an order are linked with each other.
LEMMA QueueWithout ==
  ASSUME NEW data, NEW new, NEW s, Queued(data, s), NEW n \in 1..Len(s), Len(s) # 1,
         \A x \in Slot : data[x].sequence \in Nat,
         \A x \in Members(s) \ {s[n]} :
           /\ new[x].sequence = data[x].sequence
           /\ new[x].next = IF x = data[s[n]].prev THEN data[s[n]].next ELSE data[x].next
           /\ new[x].prev = IF x = data[s[n]].next THEN data[s[n]].prev ELSE data[x].prev
  PROVE  Queued(new, Without(s, n))
<1>1. PICK m, t : m = Len(s) /\ t = Without(s, n)
  OBVIOUS
<1>2. s \in Seq(Slot) /\ Distinct(s) /\ m \in Nat /\ m > 1 /\ n \in 1..m /\ DOMAIN s = 1..m
  BY <1>1, QueueIsList DEF Queued
<1>3. t \in Seq(Slot) /\ Distinct(t) /\ Len(t) = m - 1
  BY <1>1, <1>2, WithoutShape
<1>4. DOMAIN t = 1..(m - 1) /\ \A k \in 1..(m - 1) : t[k] = IF k < n THEN s[k] ELSE s[k + 1]
  BY <1>1, <1>3 DEF Without
<1>5. \A j, k \in 1..m : s[j] = s[k] => j = k
  BY <1>2 DEF Distinct
<1>6. \A k \in 1..m : s[k] \in Slot /\ s[k] \in Members(s) /\ s[k] # NullOrder
  <2>1. NullOrder \notin Slot
    BY PoolAssumption DEF NullOrder, Slot
  <2> QED BY <1>2, <2>1 DEF Members
<1> DEFINE Nxt(k) == IF k = m THEN NullOrder ELSE s[k + 1]
           Prv(k) == IF k = 1 THEN NullOrder ELSE s[k - 1]
<1>7. ASSUME NEW k \in 1..m
      PROVE  /\ data[s[k]].next = Nxt(k) /\ data[s[k]].prev = Prv(k)
             /\ k > 1 => data[s[k - 1]].sequence < data[s[k]].sequence
  BY <1>1, <1>2 DEF Queued
<1>8. ASSUME NEW k \in 1..m, k # n
      PROVE  /\ new[s[k]].sequence = data[s[k]].sequence
             /\ new[s[k]].next = IF k = n - 1 THEN Nxt(n) ELSE Nxt(k)
             /\ new[s[k]].prev = IF k = n + 1 THEN Prv(n) ELSE Prv(k)
  <2>1. s[k] \in Members(s) \ {s[n]}
    BY <1>2, <1>5, <1>6, <1>8
  <2>2. /\ new[s[k]].sequence = data[s[k]].sequence
        /\ new[s[k]].next = IF s[k] = data[s[n]].prev THEN data[s[n]].next ELSE data[s[k]].next
        /\ new[s[k]].prev = IF s[k] = data[s[n]].next THEN data[s[n]].prev ELSE data[s[k]].prev
    BY <2>1
  <2>3. /\ data[s[n]].next = Nxt(n) /\ data[s[n]].prev = Prv(n)
        /\ data[s[k]].next = Nxt(k) /\ data[s[k]].prev = Prv(k)
    BY <1>2, <1>7
  <2>4. s[k] = Prv(n) <=> k = n - 1
    <3>1. CASE n = 1
      BY <1>2, <1>6, <3>1
    <3>2. CASE n # 1
      <4>1. n - 1 \in 1..m
        BY <1>2, <3>2
      <4> QED BY <1>5, <3>2, <4>1
    <3> QED BY <3>1, <3>2
  <2>5. s[k] = Nxt(n) <=> k = n + 1
    <3>1. CASE n = m
      BY <1>2, <1>6, <3>1
    <3>2. CASE n # m
      <4>1. n + 1 \in 1..m
        BY <1>2, <3>2
      <4> QED BY <1>5, <3>2, <4>1
    <3> QED BY <3>1, <3>2
  <2> HIDE DEF Nxt, Prv
  <2> QED BY <2>2, <2>3, <2>4, <2>5
<1>9. ASSUME NEW k \in 1..(m - 1)
      PROVE  /\ new[t[k]].next = IF k = m - 1 THEN NullOrder ELSE t[k + 1]
             /\ new[t[k]].prev = IF k = 1 THEN NullOrder ELSE t[k - 1]
             /\ k > 1 => new[t[k - 1]].sequence < new[t[k]].sequence
  <2>1. \A j \in 1..m : data[s[j]].sequence \in Nat
    BY <1>6
  <2>2. CASE k < n
    <3>1. k \in 1..m /\ k # n /\ t[k] = s[k]
      BY <1>2, <1>4, <2>2
    <3>2. new[s[k]].next = IF k = n - 1 THEN Nxt(n) ELSE Nxt(k)
      BY <1>8, <3>1
    <3>3. new[s[k]].prev = Prv(k)
      <4>1. k # n + 1
        BY <1>2, <2>2
      <4> QED BY <1>8, <3>1, <4>1
    <3>4. k # 1 => t[k - 1] = s[k - 1] /\ k - 1 \in 1..m /\ k - 1 # n
      <4>1. k # 1 => k - 1 \in 1..(m - 1) /\ k - 1 < n /\ k - 1 \in 1..m /\ k - 1 # n
        BY <1>2, <2>2
      <4> QED BY <1>4, <4>1
    <3>5. new[t[k]].prev = IF k = 1 THEN NullOrder ELSE t[k - 1]
      BY <3>1, <3>3, <3>4
    <3>6. new[t[k]].next = IF k = m - 1 THEN NullOrder ELSE t[k + 1]
      <4>1. CASE k = n - 1
        <5>1. k + 1 = n /\ ~(k + 1 < n) /\ (n = m <=> k = m - 1) /\ (k # m - 1 => k + 1 \in 1..(m - 1))
          BY <1>2, <4>1
        <5>2. k # m - 1 => t[k + 1] = s[n + 1]
          BY <1>4, <5>1
        <5> QED BY <3>1, <3>2, <4>1, <5>1, <5>2
      <4>2. CASE k # n - 1
        <5>1. k + 1 < n /\ k + 1 \in 1..(m - 1) /\ k # m - 1 /\ k # m
          <6>1. k \in Nat /\ n \in Nat /\ m \in Nat /\ n <= m /\ k >= 1
            BY <1>2
          <6>2. k + 1 < n
            BY <2>2, <4>2, <6>1
          <6> QED BY <6>1, <6>2
        <5>2. t[k + 1] = s[k + 1]
          BY <1>4, <5>1
        <5> QED BY <3>1, <3>2, <4>2, <5>1, <5>2
      <4> QED BY <4>1, <4>2
    <3>7. k > 1 => new[t[k - 1]].sequence < new[t[k]].sequence
      <4> SUFFICES ASSUME k > 1 PROVE new[t[k - 1]].sequence < new[t[k]].sequence
        OBVIOUS
      <4>1. k # 1
        OBVIOUS
      <4>2. new[s[k]].sequence = data[s[k]].sequence
        BY <1>8, <3>1
      <4>3. new[s[k - 1]].sequence = data[s[k - 1]].sequence
        BY <1>8, <3>4, <4>1
      <4>4. data[s[k - 1]].sequence < data[s[k]].sequence
        BY <1>7, <3>1
      <4> QED BY <3>1, <3>4, <4>1, <4>2, <4>3, <4>4
    <3> QED BY <3>5, <3>6, <3>7
  <2>3. CASE ~(k < n)
    <3>1. k + 1 \in 1..m /\ k + 1 # n /\ t[k] = s[k + 1]
      BY <1>2, <1>4, <2>3
    <3>2. new[s[k + 1]].next = Nxt(k + 1)
      <4>1. k + 1 # n - 1
        BY <1>2, <2>3
      <4> QED BY <1>8, <3>1, <4>1
    <3>3. new[s[k + 1]].prev = IF k + 1 = n + 1 THEN Prv(n) ELSE Prv(k + 1)
      BY <1>8, <3>1
    <3>4. new[t[k]].next = IF k = m - 1 THEN NullOrder ELSE t[k + 1]
      <4>1. (k + 1 = m <=> k = m - 1) /\ (k # m - 1 => k + 1 \in 1..(m - 1) /\ ~(k + 1 < n))
        BY <1>2, <2>3
      <4>2. k # m - 1 => t[k + 1] = s[(k + 1) + 1]
        BY <1>4, <4>1
      <4> QED BY <3>1, <3>2, <4>1, <4>2
    <3>5. CASE k = n
      <4>1. k + 1 = n + 1 /\ (k # 1 => k - 1 \in 1..(m - 1) /\ k - 1 < n /\ k - 1 \in 1..m /\ k - 1 # n)
        BY <1>2, <3>5
      <4>2. k # 1 => t[k - 1] = s[k - 1]
        BY <1>4, <4>1
      <4>3. new[t[k]].prev = IF k = 1 THEN NullOrder ELSE t[k - 1]
        BY <3>1, <3>3, <3>5, <4>1, <4>2
      <4>4. k > 1 => new[t[k - 1]].sequence < new[t[k]].sequence
        <5> SUFFICES ASSUME k > 1 PROVE new[t[k - 1]].sequence < new[t[k]].sequence
          OBVIOUS
        <5>1. k # 1
          OBVIOUS
        <5>2. new[s[k + 1]].sequence = data[s[k + 1]].sequence /\ new[s[k - 1]].sequence = data[s[k - 1]].sequence
          BY <1>8, <3>1, <4>1, <5>1
        <5>3. data[s[k - 1]].sequence < data[s[k]].sequence
          BY <1>2, <1>7, <3>5
        <5>4. k + 1 > 1 /\ (k + 1) - 1 = k
          BY <1>2
        <5>5. data[s[(k + 1) - 1]].sequence < data[s[k + 1]].sequence
          BY <1>7, <3>1, <5>4
        <5>6. k \in 1..m
          BY <1>2, <3>5
        <5>7. PICK a, b, c : a = data[s[k - 1]].sequence /\ b = data[s[k]].sequence /\ c = data[s[k + 1]].sequence
          OBVIOUS
        <5>8. a \in Nat /\ b \in Nat /\ c \in Nat
          BY <2>1, <3>1, <4>1, <5>1, <5>6, <5>7
        <5>9. a < c
          BY <5>3, <5>4, <5>5, <5>7, <5>8, SMTT(20)
        <5> QED BY <3>1, <4>2, <5>1, <5>2, <5>7, <5>9
      <4> QED BY <3>4, <4>3, <4>4
    <3>6. CASE k # n
      <4>1. k + 1 # n + 1 /\ k + 1 # 1 /\ (k + 1) - 1 = k /\ k # 1 /\ k - 1 \in 1..(m - 1) /\ ~(k - 1 < n) /\ (k - 1) + 1 = k /\ k \in 1..m
        BY <1>2, <2>3, <3>6
      <4>2. t[k - 1] = s[k]
        BY <1>4, <4>1
      <4>3. new[t[k]].prev = t[k - 1]
        BY <3>1, <3>3, <4>1, <4>2
      <4>4. new[t[k - 1]].sequence < new[t[k]].sequence
        <5>1. new[s[k + 1]].sequence = data[s[k + 1]].sequence /\ new[s[k]].sequence = data[s[k]].sequence
          BY <1>8, <3>1, <3>6, <4>1
        <5>2. k + 1 > 1
          BY <1>2
        <5>3. data[s[(k + 1) - 1]].sequence < data[s[k + 1]].sequence
          BY <1>7, <3>1, <5>2
        <5> QED BY <3>1, <4>1, <4>2, <5>1, <5>3
      <4> QED BY <3>4, <4>1, <4>3, <4>4
    <3> QED BY <3>5, <3>6
  <2> QED BY <2>2, <2>3
<1>10. t # <<>>
  BY <1>2, <1>3
<1>11. Queued(new, t)
  BY <1>3, <1>4, <1>9, <1>10 DEF Queued
<1> QED BY <1>1, <1>11

\* What the records of a pool's slots hold.
Records(data) == data \in [Slot -> OrderRecord]

\* What kind of values they are.
LEMMA RecordFields ==
  ASSUME NEW data, Records(data), NEW x \in Slot
  PROVE  /\ data[x] \in OrderRecord
         /\ data[x].remaining \in Amounts /\ data[x].remaining \in Nat
         /\ data[x].sequence \in Nat /\ data[x].side \in Side /\ data[x].price \in Nat
         /\ data[x].next \in 0..MaxOrders /\ data[x].prev \in 0..MaxOrders
<1>1. data[x] \in OrderRecord
  BY DEF Records
<1>2. \A r \in Amounts : r \in Nat
  BY DEF Amounts
<1> QED BY <1>1, <1>2 DEF OrderRecord

\* The ends of a level, and the neighbours of one of its orders.
LEMMA LevelEnds ==
  ASSUME NEW data, NEW level, NEW M, LevelOK(data, level, M)
  PROVE  /\ M \subseteq Slot /\ IsFiniteSet(M) /\ M # {}
         /\ level.head \in M /\ level.tail \in M
         /\ level.head # NullOrder /\ level.tail # NullOrder
         /\ level.orderCount \in Nat \ {0}
         /\ data[level.head].prev = NullOrder /\ data[level.tail].next = NullOrder
<1>1. PICK s : Queued(data, s) /\ Members(s) = M /\ LevelOf(data, level, s)
  BY DEF LevelOK
<1>2. PICK n : n = Len(s)
  OBVIOUS
<1>3. n \in Nat \ {0} /\ M \subseteq Slot /\ IsFiniteSet(M) /\ \A k \in 1..n : s[k] \in M
  BY <1>1, <1>2, QueueIsList
<1>4. 1 \in 1..n /\ n \in 1..n
  BY <1>3
<1>5. level.head = s[1] /\ level.tail = s[n] /\ level.orderCount = n
  BY <1>1, <1>2 DEF LevelOf
<1>6. NullOrder \notin Slot
  BY PoolAssumption DEF NullOrder, Slot
<1>7. DOMAIN s = 1..n
  BY <1>1, <1>2, QueueIsList
<1>8. data[s[1]].prev = NullOrder /\ data[s[n]].next = NullOrder
  BY <1>1, <1>2, <1>4, <1>7 DEF Queued
<1> QED BY <1>3, <1>4, <1>5, <1>6, <1>8

\* The neighbours of an order are other orders of its level.
LEMMA LevelNeighbours ==
  ASSUME NEW data, NEW level, NEW M, LevelOK(data, level, M), NEW x \in M
  PROVE  /\ data[x].next = NullOrder \/ data[x].next \in M \ {x}
         /\ data[x].prev = NullOrder \/ data[x].prev \in M \ {x}
         /\ data[x].next = NullOrder \/ data[x].next # data[x].prev
<1>1. PICK s : Queued(data, s) /\ Members(s) = M /\ LevelOf(data, level, s)
  BY DEF LevelOK
<1>2. PICK n : n = Len(s)
  OBVIOUS
<1>3. n \in Nat \ {0} /\ DOMAIN s = 1..n /\ \A k \in 1..n : s[k] \in M
  BY <1>1, <1>2, QueueIsList
<1>4. PICK k \in 1..n : x = s[k]
  BY <1>1, <1>3 DEF Members
<1>5. \A i, j \in 1..n : s[i] = s[j] => i = j
  BY <1>1, <1>3 DEF Queued, Distinct
<1>6. /\ data[x].next = IF k = n THEN NullOrder ELSE s[k + 1]
      /\ data[x].prev = IF k = 1 THEN NullOrder ELSE s[k - 1]
  BY <1>1, <1>2, <1>3, <1>4 DEF Queued
<1>7. \A i \in 1..n : s[i] # NullOrder
  <2>1. NullOrder \notin Slot
    BY PoolAssumption DEF NullOrder, Slot
  <2>2. \A i \in 1..n : s[i] \in Slot
    BY <1>1, <1>2, QueueIsList
  <2> QED BY <2>1, <2>2
<1>8. (k # n => k + 1 \in 1..n /\ k + 1 # k) /\ (k # 1 => k - 1 \in 1..n /\ k - 1 # k /\ k - 1 # k + 1)
  BY <1>3
<1>9. k # n => s[k + 1] \in M /\ s[k + 1] # s[k]
  BY <1>3, <1>5, <1>8
<1>10. k # 1 => s[k - 1] \in M /\ s[k - 1] # s[k]
  BY <1>3, <1>5, <1>8
<1>11. k # 1 /\ k # n => s[k - 1] # s[k + 1]
  BY <1>5, <1>8
<1>12. k = 1 /\ k # n => s[k + 1] # NullOrder
  BY <1>7, <1>8
<1> QED BY <1>4, <1>6, <1>9, <1>10, <1>11, <1>12

\* A fill takes the same amount from an order and from the volume of its level.
LEMMA LevelFill ==
  ASSUME NEW data, NEW new, NEW level, NEW M, LevelOK(data, level, M),
         Records(data), Records(new), NEW y \in M, NEW q \in Nat,
         \A x \in M : SameLinks(new[x], data[x]),
         \A x \in M \ {y} : new[x].remaining = data[x].remaining,
         q <= data[y].remaining, new[y].remaining = data[y].remaining - q
  PROVE  LevelOK(new, [level EXCEPT !.volume = SaturatingSub(@, q)], M)
<1>1. PICK s : Queued(data, s) /\ Members(s) = M /\ LevelOf(data, level, s)
  BY DEF LevelOK
<1>2. Queued(new, s)
  BY <1>1, QueueFrame
<1>3. M \in SUBSET Slot
  BY <1>1, QueueIsList
<1>4. \A x \in M : data[x].remaining \in Nat /\ new[x].remaining \in Nat
  BY <1>3, RecordFields
<1>5. Volume(data, M) \in Nat /\ data[y].remaining <= Volume(data, M)
  <2>1. \A x \in M : data[x].remaining \in Nat
    BY <1>4
  <2> QED BY <1>3, <2>1, VolumeType
<1>6. Volume(new, M) = Volume(data, M) - data[y].remaining + new[y].remaining
  BY <1>3, <1>4, VolumeChanged
<1>7. PICK v : v = SaturatingSub(level.volume, q)
  OBVIOUS
<1>8. level.volume \in Nat /\ (VolumesFit => level.volume = Volume(data, M))
  BY <1>1 DEF LevelOf
<1>9. v \in Nat /\ (VolumesFit => v = Volume(new, M))
  <2>1. PICK a, b, r, t : a = level.volume /\ b = Volume(data, M) /\ r = data[y].remaining /\ t = new[y].remaining
    OBVIOUS
  <2>2. a \in Nat /\ b \in Nat /\ r \in Nat /\ t = r - q /\ q <= r /\ r <= b
    BY <1>4, <1>5, <1>8, <2>1
  <2>3. v = IF a >= q THEN a - q ELSE 0
    BY <1>7, <2>1 DEF SaturatingSub
  <2>4. v \in Nat
    BY <2>2, <2>3
  <2>5. a = b => v = b - r + t
    BY <2>2, <2>3
  <2> QED BY <1>6, <1>8, <2>1, <2>4, <2>5
<1>10. level = [head |-> s[1], tail |-> s[Len(s)], volume |-> level.volume, orderCount |-> Len(s)]
  BY <1>1 DEF LevelOf
<1>11. [level EXCEPT !.volume = SaturatingSub(@, q)] = [head |-> s[1], tail |-> s[Len(s)], volume |-> v, orderCount |-> Len(s)]
  BY <1>7, <1>10
<1>12. LevelOf(new, [head |-> s[1], tail |-> s[Len(s)], volume |-> v, orderCount |-> Len(s)], s)
  BY <1>1, <1>9 DEF LevelOf
<1> QED BY <1>1, <1>2, <1>11, <1>12 DEF LevelOK

\* The volume of a level after one more order has come to it.
Grown(volume, amount) == (volume + amount) % U32Size

\* It is a number.
LEMMA GrownType ==
  ASSUME NEW v \in Nat, NEW r \in Nat
  PROVE  Grown(v, r) \in Nat
BY U32Assumption DEF Grown

\* It is the volume of the orders that are there now.
LEMMA VolumeGrows ==
  ASSUME NEW data, NEW new, Records(data), Records(new), NEW M \in SUBSET Slot,
         NEW x \in Slot, x \notin M, VolumesFit,
         \A y \in M : new[y].remaining = data[y].remaining
  PROVE  Grown(Volume(data, M), new[x].remaining) = Volume(new, M \cup {x})
<1>1. PICK N, r, v : N = M \cup {x} /\ r = new[x].remaining /\ v = Volume(data, M)
  OBVIOUS
<1>2. N \in SUBSET Slot /\ x \in N /\ N \ {x} = M
  BY <1>1
<1>3. r \in Nat /\ \A y \in N : new[y].remaining \in Nat /\ new[y].remaining \in Amounts
  BY <1>1, <1>2, RecordFields
<1>4. Volume(new, N) = r + Volume(new, M)
  <2>1. \A y \in N : new[y].remaining \in Nat
    BY <1>3
  <2>2. Volume(new, N) = new[x].remaining + Volume(new, N \ {x})
    BY <1>2, <2>1, VolumeWithout
  <2> QED BY <1>1, <1>2, <2>2
<1>5. Volume(new, M) = v
  BY <1>1, VolumeSame
<1>6. v \in Nat
  <2>1. \A y \in M : data[y].remaining \in Nat
    BY RecordFields
  <2> QED BY <1>1, <2>1, VolumeType
<1>7. Volume(new, N) < U32Size
  <2>1. \A y \in N : new[y].remaining \in Amounts
    BY <1>3
  <2> QED BY <1>2, <2>1, VolumeFits
<1>8. PICK c : c = v + r
  OBVIOUS
<1>9. c \in Nat /\ c < U32Size /\ c = Volume(new, N)
  BY <1>3, <1>4, <1>5, <1>6, <1>7, <1>8
<1>10. c % U32Size = c
  BY <1>9, U32Assumption
<1> QED BY <1>1, <1>8, <1>9, <1>10 DEF Grown

\* An order joins a level at its tail.
LEMMA LevelAppend ==
  ASSUME NEW data, NEW new, NEW level, NEW M, LevelOK(data, level, M),
         Records(data), Records(new), NEW x \in Slot, x \notin M,
         \A y \in M : /\ new[y].prev = data[y].prev /\ new[y].sequence = data[y].sequence
                      /\ new[y].remaining = data[y].remaining /\ data[y].sequence < new[x].sequence,
         \A y \in M : y # level.tail => new[y].next = data[y].next,
         new[level.tail].next = x, new[x].prev = level.tail, new[x].next = NullOrder
  PROVE  LevelOK(new, [head |-> level.head, tail |-> x,
                       volume |-> Grown(level.volume, new[x].remaining),
                       orderCount |-> level.orderCount + 1], M \cup {x})
<1>1. PICK s : Queued(data, s) /\ Members(s) = M /\ LevelOf(data, level, s)
  BY DEF LevelOK
<1>2. level.head = s[1] /\ level.tail = s[Len(s)] /\ level.orderCount = Len(s) /\ level.volume \in Nat
      /\ (VolumesFit => level.volume = Volume(data, M))
  BY <1>1 DEF LevelOf
<1>3. M \in SUBSET Slot
  BY <1>1, QueueIsList
<1>4. PICK t : t = Append(s, x)
  OBVIOUS
<1>5. /\ Queued(new, t) /\ Members(t) = M \cup {x}
      /\ t[1] = s[1] /\ t[Len(t)] = x /\ Len(t) = Len(s) + 1
  <2>1. s[Len(s)] \in M
    BY <1>1, <1>2, LevelEnds
  <2>2. \A y \in Members(s) : new[y].prev = data[y].prev /\ new[y].sequence = data[y].sequence
    BY <1>1
  <2>3. \A y \in Members(s) : y # s[Len(s)] => new[y].next = data[y].next
    BY <1>1, <1>2
  <2>4. new[s[Len(s)]].next = x /\ new[x].prev = s[Len(s)] /\ x \notin Members(s)
    BY <1>1, <1>2
  <2>5. new[s[Len(s)]].sequence < new[x].sequence
    BY <2>1
  <2>6. new[x].next = NullOrder
    OBVIOUS
  <2>7. /\ Queued(new, Append(s, x)) /\ Members(Append(s, x)) = Members(s) \cup {x}
        /\ Append(s, x)[1] = s[1] /\ Append(s, x)[Len(Append(s, x))] = x
        /\ Len(Append(s, x)) = Len(s) + 1
    <3>1. Queued(data, s) /\ x \in Slot /\ x \notin Members(s)
      BY <1>1, <2>4
    <3> QED BY ONLY <3>1, <2>2, <2>3, <2>4, <2>5, <2>6, QueueAppend
  <2> QED BY <1>1, <1>4, <2>7
<1>6. PICK w : w = Grown(level.volume, new[x].remaining)
  OBVIOUS
<1>7. w \in Nat /\ (VolumesFit => w = Volume(new, M \cup {x}))
  <2>1. \A y \in M : new[y].remaining = data[y].remaining
    OBVIOUS
  <2>2. new[x].remaining \in Nat
    BY RecordFields
  <2>3. VolumesFit => Grown(Volume(data, M), new[x].remaining) = Volume(new, M \cup {x})
    BY <1>3, <2>1, VolumeGrows
  <2> QED BY <1>2, <1>6, <2>2, <2>3, GrownType
<1>8. LevelOf(new, [head |-> s[1], tail |-> x, volume |-> w, orderCount |-> Len(s) + 1], t)
  BY <1>5, <1>7 DEF LevelOf
<1> QED BY <1>2, <1>5, <1>6, <1>8 DEF LevelOK

\* The first order of a new level.
LEMMA LevelFirst ==
  ASSUME NEW data, Records(data), NEW x \in Slot, data[x].next = NullOrder, data[x].prev = NullOrder
  PROVE  LevelOK(data, [head |-> x, tail |-> x,
                        volume |-> Grown(NewLevel.volume, data[x].remaining),
                        orderCount |-> NewLevel.orderCount + 1], {x})
<1>1. PICK s : s = <<x>>
  OBVIOUS
<1>2. Queued(data, s) /\ Members(s) = {x}
  BY <1>1, QueueOfOne
<1>3. s[1] = x /\ Len(s) = 1
  BY <1>1
<1>4. PICK w : w = Grown(0, data[x].remaining)
  OBVIOUS
<1>5. w \in Nat /\ (VolumesFit => w = Volume(data, {x}))
  <2>1. Volume(data, {}) = 0
    BY SumEmpty DEF Volume
  <2>2. {} \in SUBSET Slot /\ x \notin {} /\ \A y \in {} : data[y].remaining = data[y].remaining
    OBVIOUS
  <2>3. VolumesFit => Grown(Volume(data, {}), data[x].remaining) = Volume(data, {} \cup {x})
    BY <2>2, VolumeGrows
  <2>4. data[x].remaining \in Nat /\ {} \cup {x} = {x}
    BY RecordFields
  <2> QED BY <1>4, <2>1, <2>3, <2>4, GrownType
<1>6. NewLevel.volume = 0 /\ NewLevel.orderCount + 1 = 1
  BY DEF NewLevel
<1>7. LevelOf(data, [head |-> x, tail |-> x, volume |-> w, orderCount |-> 1], s)
  BY <1>2, <1>3, <1>5 DEF LevelOf
<1> QED BY <1>2, <1>4, <1>6, <1>7 DEF LevelOK

\* What is left of a level without one of its orders, if it had others.
LEMMA LevelRemove ==
  ASSUME NEW data, NEW new, NEW level, NEW M, LevelOK(data, level, M),
         Records(data), NEW x \in M,
         \A y \in M \ {x} :
           /\ new[y].sequence = data[y].sequence /\ new[y].remaining = data[y].remaining
           /\ new[y].next = IF y = data[x].prev THEN data[x].next ELSE data[y].next
           /\ new[y].prev = IF y = data[x].next THEN data[x].prev ELSE data[y].prev
  PROVE  /\ LevelGone(LevelWithout(level, data[x])) <=> M = {x}
         /\ M # {x} => LevelOK(new, LevelWithout(level, data[x]), M \ {x})
<1>1. PICK s : Queued(data, s) /\ Members(s) = M /\ LevelOf(data, level, s)
  BY DEF LevelOK
<1>2. PICK n, v : n = Len(s) /\ v = level.volume
  OBVIOUS
<1>3. n \in Nat \ {0} /\ DOMAIN s = 1..n /\ M \in SUBSET Slot /\ Cardinality(M) = n /\ IsFiniteSet(M)
      /\ \A k \in 1..n : s[k] \in M /\ s[k] \in Slot
  BY <1>1, <1>2, QueueIsList
<1>4. PICK k \in 1..n : x = s[k]
  BY <1>1, <1>3 DEF Members
<1>5. \A i, j \in 1..n : s[i] = s[j] => i = j
  BY <1>1, <1>3 DEF Queued, Distinct
<1>6. /\ data[x].next = IF k = n THEN NullOrder ELSE s[k + 1]
      /\ data[x].prev = IF k = 1 THEN NullOrder ELSE s[k - 1]
  BY <1>1, <1>2, <1>3, <1>4 DEF Queued
<1>7. NullOrder \notin Slot
  BY PoolAssumption DEF NullOrder, Slot
<1>8. v \in Nat /\ (VolumesFit => v = Volume(data, M))
      /\ level.head = s[1] /\ level.tail = s[n] /\ level.orderCount = n /\ level.volume = v
  BY <1>1, <1>2 DEF LevelOf
<1>9. PICK h, t, w, r :
        /\ h = IF data[x].prev = NullOrder THEN data[x].next ELSE level.head
        /\ t = IF data[x].next = NullOrder THEN data[x].prev ELSE level.tail
        /\ r = data[x].remaining /\ w = SaturatingSub(v, r)
  OBVIOUS
<1>10. SaturatingSub(level.orderCount, 1) = n - 1
  BY <1>3, <1>8 DEF SaturatingSub
<1>11. LevelWithout(level, data[x]) = [head |-> h, tail |-> t, volume |-> w, orderCount |-> n - 1]
  BY <1>8, <1>9, <1>10 DEF LevelWithout
<1>12. (k # 1 => k - 1 \in 1..n) /\ (k # n => k + 1 \in 1..n) /\ 1 \in 1..n /\ n \in 1..n
  BY <1>3
<1>13. h = (IF k = 1 THEN IF n = 1 THEN NullOrder ELSE s[2] ELSE s[1])
  <2>1. CASE k = 1
    BY <1>6, <1>9, <2>1
  <2>2. CASE k # 1
    <3>1. s[k - 1] # NullOrder
      BY <1>3, <1>7, <1>12, <2>2
    <3> QED BY <1>6, <1>8, <1>9, <2>2, <3>1
  <2> QED BY <2>1, <2>2
<1>14. t = (IF k = n THEN IF n = 1 THEN NullOrder ELSE s[n - 1] ELSE s[n])
  <2>1. CASE k = n
    BY <1>6, <1>9, <2>1
  <2>2. CASE k # n
    <3>1. s[k + 1] # NullOrder
      BY <1>3, <1>7, <1>12, <2>2
    <3> QED BY <1>6, <1>8, <1>9, <2>2, <3>1
  <2> QED BY <2>1, <2>2
<1>15. M = {x} <=> n = 1
  <2>1. M = {x} => n = 1
    BY <1>3, FS_Singleton
  <2>2. n = 1 => M = {x}
    BY <1>1, <1>3, <1>4 DEF Members
  <2> QED BY <2>1, <2>2
<1>16. (h = NullOrder \/ n - 1 = 0) <=> n = 1
  <2>1. n # 1 => 2 \in 1..n
    BY <1>3
  <2>2. n # 1 => h \in Slot
    BY <1>3, <1>12, <1>13, <2>1
  <2> QED BY <1>3, <1>7, <2>2
<1>17. LevelGone(LevelWithout(level, data[x])) <=> M = {x}
  BY <1>11, <1>15, <1>16 DEF LevelGone
<1>18. ASSUME M # {x} PROVE LevelOK(new, [head |-> h, tail |-> t, volume |-> w, orderCount |-> n - 1], M \ {x})
  <2>1. n # 1
    BY <1>15, <1>18
  <2>2. PICK u : u = Without(s, k)
    OBVIOUS
  <2>3. Queued(new, u)
    <3>1. \A y \in Slot : data[y].sequence \in Nat
      BY RecordFields
    <3>2. \A y \in Members(s) \ {s[k]} :
            /\ new[y].sequence = data[y].sequence
            /\ new[y].next = IF y = data[s[k]].prev THEN data[s[k]].next ELSE data[y].next
            /\ new[y].prev = IF y = data[s[k]].next THEN data[s[k]].prev ELSE data[y].prev
      BY <1>1, <1>4
    <3>3. k \in 1..Len(s) /\ Len(s) # 1
      BY <1>2, <2>1
    <3> QED BY <1>1, <2>2, <3>1, <3>2, <3>3, QueueWithout
  <2>4. Members(u) = M \ {x} /\ Len(u) = n - 1
    <3>1. s \in Seq(Slot) /\ Distinct(s) /\ k \in 1..Len(s)
      BY <1>1, <1>2 DEF Queued
    <3> QED BY <1>1, <1>2, <1>4, <2>2, <3>1, WithoutShape
  <2>5. u[1] = h /\ u[n - 1] = t
    <3>1. u = [j \in 1..(n - 1) |-> IF j < k THEN s[j] ELSE s[j + 1]]
      BY <1>2, <2>2 DEF Without
    <3>2. 1 \in 1..(n - 1) /\ n - 1 \in 1..(n - 1) /\ (n - 1) + 1 = n /\ 1 + 1 = 2
          /\ (1 < k <=> k # 1) /\ (n - 1 < k <=> k = n)
      BY <1>3, <2>1
    <3>3. u[1] = IF 1 < k THEN s[1] ELSE s[2]
      BY <3>1, <3>2
    <3>4. u[n - 1] = IF n - 1 < k THEN s[n - 1] ELSE s[n]
      BY <3>1, <3>2
    <3> QED BY <1>13, <1>14, <2>1, <3>2, <3>3, <3>4
  <2>6. w \in Nat /\ (VolumesFit => w = Volume(new, M \ {x}))
    <3>1. \A y \in M : data[y].remaining \in Nat
      BY <1>3, RecordFields
    <3>10. Volume(data, M) = data[x].remaining + Volume(data, M \ {x})
      BY <1>3, <3>1, VolumeWithout
    <3>2. Volume(data, M) = r + Volume(data, M \ {x}) /\ r \in Nat
      BY <1>9, <3>1, <3>10
    <3>3. M \ {x} \in SUBSET Slot /\ \A y \in M \ {x} : new[y].remaining = data[y].remaining /\ data[y].remaining \in Nat
      BY <1>3, <3>1
    <3>4. Volume(new, M \ {x}) = Volume(data, M \ {x})
      BY <3>3, VolumeSame
    <3>5. Volume(data, M \ {x}) \in Nat
      BY <3>3, VolumeType
    <3>6. PICK a : a = Volume(data, M \ {x})
      OBVIOUS
    <3>7. a \in Nat /\ w = (IF v >= r THEN v - r ELSE 0) /\ (VolumesFit => v = r + a)
      BY <1>8, <1>9, <3>2, <3>5, <3>6 DEF SaturatingSub
    <3> QED BY <1>8, <3>2, <3>4, <3>6, <3>7
  <2>7. LevelOf(new, [head |-> h, tail |-> t, volume |-> w, orderCount |-> n - 1], u)
    BY <2>4, <2>5, <2>6 DEF LevelOf
  <2> QED BY <2>3, <2>4, <2>7 DEF LevelOK
<1> QED BY <1>11, <1>17, <1>18

-----------------------------------------------------------------------------
(***************************************************************************)
(* The levels of a book.                                                   *)
(***************************************************************************)
At(data, R, side, price) == {x \in R : data[x].side = side /\ data[x].price = price}

\* The levels of a book in which the orders of R rest.
LevelsOK(data, levels, R) ==
  /\ R \subseteq Slot /\ DOMAIN levels = Side
  /\ \A side \in Side : DOMAIN levels[side] = {price \in Nat : At(data, R, side, price) # {}}
  /\ \A side \in Side : \A price \in DOMAIN levels[side] :
       LevelOK(data, levels[side][price], At(data, R, side, price))

\* The level at which an order rests.
LEMMA LevelOfOrder ==
  ASSUME NEW data, NEW levels, NEW R, LevelsOK(data, levels, R), Records(data), NEW x \in R
  PROVE  /\ x \in Slot /\ data[x].side \in Side /\ data[x].price \in Nat
         /\ data[x].price \in DOMAIN levels[data[x].side]
         /\ x \in At(data, R, data[x].side, data[x].price)
         /\ LevelOK(data, levels[data[x].side][data[x].price], At(data, R, data[x].side, data[x].price))
<1>1. x \in Slot
  BY DEF LevelsOK
<1>2. data[x].side \in Side /\ data[x].price \in Nat
  BY <1>1, RecordFields
<1>3. x \in At(data, R, data[x].side, data[x].price)
  BY DEF At
<1>4. data[x].price \in DOMAIN levels[data[x].side]
  BY <1>2, <1>3 DEF LevelsOK
<1> QED BY <1>1, <1>2, <1>3, <1>4 DEF LevelsOK

\* What an operation leaves of an order that it does not touch.
Untouched(o, p) ==
  /\ o.side = p.side /\ o.price = p.price /\ o.remaining = p.remaining /\ SameLinks(o, p)

\* One level changes, the others stay.
LEMMA OneLevelChanges ==
  ASSUME NEW data, NEW new, NEW levels, NEW changed, NEW R, NEW T \in SUBSET Slot,
         Records(data), Records(new), LevelsOK(data, levels, R), DOMAIN changed = Side,
         NEW side \in Side, NEW price \in Nat,
         NEW M, NEW N, M = At(data, R, side, price), N = At(new, T, side, price),
         R \ M = T \ N, \A x \in R \ M : Untouched(new[x], data[x]),
         \A sd \in Side \ {side} : changed[sd] = levels[sd],
         \A p \in Nat \ {price} : p \in DOMAIN changed[side] <=> p \in DOMAIN levels[side],
         \A p \in DOMAIN levels[side] \ {price} : changed[side][p] = levels[side][p],
         DOMAIN changed[side] \subseteq Nat,
         price \in DOMAIN changed[side] <=> N # {},
         N # {} => LevelOK(new, changed[side][price], N)
  PROVE  LevelsOK(new, changed, T)
<1>1. ASSUME NEW sd \in Side, NEW p \in Nat, sd # side \/ p # price
      PROVE  At(new, T, sd, p) = At(data, R, sd, p) /\ \A x \in At(data, R, sd, p) : Untouched(new[x], data[x])
  <2>1. ASSUME NEW x \in At(data, R, sd, p) PROVE Untouched(new[x], data[x]) /\ x \in At(new, T, sd, p)
    <3>1. x \in R /\ data[x].side = sd /\ data[x].price = p
      BY DEF At
    <3>2. x \notin M
      BY <1>1, <3>1 DEF At
    <3>3. x \in T /\ Untouched(new[x], data[x])
      BY <3>1, <3>2
    <3> QED BY <3>1, <3>3 DEF At, Untouched
  <2>2. ASSUME NEW x \in At(new, T, sd, p) PROVE x \in At(data, R, sd, p)
    <3>1. x \in T /\ new[x].side = sd /\ new[x].price = p
      BY DEF At
    <3>2. x \notin N
      BY <1>1, <3>1 DEF At
    <3>3. x \in R /\ Untouched(new[x], data[x])
      BY <3>1, <3>2
    <3> QED BY <3>1, <3>3 DEF At, Untouched
  <2> QED BY <2>1, <2>2
<1>2. ASSUME NEW sd \in Side, NEW p \in Nat, sd # side \/ p # price
      PROVE  /\ p \in DOMAIN changed[sd] <=> p \in DOMAIN levels[sd]
             /\ p \in DOMAIN levels[sd] => changed[sd][p] = levels[sd][p]
  BY <1>2
<1>3. \A sd \in Side : DOMAIN levels[sd] = {p \in Nat : At(data, R, sd, p) # {}}
  BY DEF LevelsOK
<1>4. ASSUME NEW sd \in Side PROVE DOMAIN changed[sd] = {p \in Nat : At(new, T, sd, p) # {}}
  <2>1. DOMAIN changed[sd] \subseteq Nat
    BY <1>3
  <2>2. ASSUME NEW p \in Nat PROVE p \in DOMAIN changed[sd] <=> At(new, T, sd, p) # {}
    <3>1. CASE sd # side \/ p # price
      BY <1>1, <1>2, <1>3, <3>1
    <3>2. CASE sd = side /\ p = price
      BY <3>2
    <3> QED BY <3>1, <3>2
  <2> QED BY <2>1, <2>2
<1>5. ASSUME NEW sd \in Side, NEW p \in DOMAIN changed[sd]
      PROVE  LevelOK(new, changed[sd][p], At(new, T, sd, p))
  <2>1. p \in Nat /\ At(new, T, sd, p) # {}
    BY <1>4
  <2>2. CASE sd = side /\ p = price
    BY <2>1, <2>2
  <2>3. CASE sd # side \/ p # price
    <3>1. p \in DOMAIN levels[sd] /\ changed[sd][p] = levels[sd][p]
      BY <1>2, <2>1, <2>3
    <3>2. LevelOK(data, levels[sd][p], At(data, R, sd, p))
      BY <3>1 DEF LevelsOK
    <3>3. \A x \in At(data, R, sd, p) : SameLinks(new[x], data[x]) /\ new[x].remaining = data[x].remaining
      BY <1>1, <2>1, <2>3 DEF Untouched
    <3>4. LevelOK(new, levels[sd][p], At(data, R, sd, p))
      BY <3>2, <3>3, LevelFrame
    <3> QED BY <1>1, <2>1, <2>3, <3>1, <3>4
  <2> QED BY <2>2, <2>3
<1> QED BY <1>4, <1>5 DEF LevelsOK

\* No level changes when no resting order does.
LEMMA LevelsFrame ==
  ASSUME NEW data, NEW new, NEW levels, NEW R, LevelsOK(data, levels, R),
         \A x \in R : Untouched(new[x], data[x])
  PROVE  LevelsOK(new, levels, R)
<1>1. ASSUME NEW sd, NEW p
      PROVE  At(new, R, sd, p) = At(data, R, sd, p) /\ \A x \in At(data, R, sd, p) : Untouched(new[x], data[x])
  BY DEF At, Untouched
<1>2. ASSUME NEW sd \in Side, NEW p \in DOMAIN levels[sd]
      PROVE  LevelOK(new, levels[sd][p], At(new, R, sd, p))
  <2>1. LevelOK(data, levels[sd][p], At(data, R, sd, p))
    BY DEF LevelsOK
  <2>2. \A x \in At(data, R, sd, p) : SameLinks(new[x], data[x]) /\ new[x].remaining = data[x].remaining
    BY <1>1 DEF Untouched
  <2>3. LevelOK(new, levels[sd][p], At(data, R, sd, p))
    BY <2>1, <2>2, LevelFrame
  <2> QED BY <1>1, <2>3
<1>3. \A sd \in Side : DOMAIN levels[sd] = {p \in Nat : At(new, R, sd, p) # {}}
  BY <1>1 DEF LevelsOK
<1> QED BY <1>2, <1>3 DEF LevelsOK

\* Unlink sets two links, both within the level.
LEMMA UnlinkSets ==
  ASSUME NEW data, Records(data), NEW level, NEW M, LevelOK(data, level, M), NEW x \in M
  PROVE  /\ Records(Unlink(data, x))
         /\ \A y \in Slot :
              /\ SameOrder(Unlink(data, x)[y], data[y])
              /\ Unlink(data, x)[y].remaining = data[y].remaining
              /\ Unlink(data, x)[y].next = IF y = data[x].prev THEN data[x].next ELSE data[y].next
              /\ Unlink(data, x)[y].prev = IF y = data[x].next THEN data[x].prev ELSE data[y].prev
              /\ y \notin M => Unlink(data, x)[y] = data[y]
<1>1. PICK p, n : p = data[x].prev /\ n = data[x].next
  OBVIOUS
<1>2. PICK forward : forward = IF p = NullOrder THEN data ELSE [data EXCEPT ![p] = [data[p] EXCEPT !.next = n]]
  OBVIOUS
<1>3. PICK new : new = IF n = NullOrder THEN forward ELSE [forward EXCEPT ![n] = [forward[n] EXCEPT !.prev = p]]
  OBVIOUS
<1>4. Unlink(data, x) = new
  BY <1>1, <1>2, <1>3 DEF Unlink
<1>5. NullOrder \notin Slot
  BY PoolAssumption DEF NullOrder, Slot
<1>6. M \subseteq Slot
  BY LevelEnds
<1>7. (p = NullOrder \/ p \in Slot \cap M) /\ (n = NullOrder \/ n \in Slot \cap M)
  <2>1. LevelOK(data, level, M) /\ x \in M
    OBVIOUS
  <2>2. data[x].next = NullOrder \/ data[x].next \in M \ {x}
    BY ONLY <2>1, LevelNeighbours
  <2>3. data[x].prev = NullOrder \/ data[x].prev \in M \ {x}
    BY ONLY <2>1, LevelNeighbours
  <2> QED BY <1>1, <1>6, <2>2, <2>3
<1>8. p \in 0..MaxOrders /\ n \in 0..MaxOrders
  BY <1>1, <1>6, RecordFields
<1>9. data \in [Slot -> OrderRecord]
  BY DEF Records
<1>10. /\ forward \in [Slot -> OrderRecord]
       /\ \A y \in Slot :
            /\ SameOrder(forward[y], data[y]) /\ forward[y].remaining = data[y].remaining
            /\ forward[y].next = IF y = p THEN n ELSE data[y].next
            /\ forward[y].prev = data[y].prev
            /\ y \notin M => forward[y] = data[y]
  <2>1. CASE p = NullOrder
    BY <1>2, <1>5, <1>9, <2>1 DEF SameOrder
  <2>2. CASE p # NullOrder
    <3>1. p \in Slot /\ p \in M
      BY <1>7, <2>2
    <3>2. PICK o : o = [data[p] EXCEPT !.next = n]
      OBVIOUS
    <3>3. o \in OrderRecord /\ SameOrder(o, data[p]) /\ o.next = n /\ o.prev = data[p].prev /\ o.remaining = data[p].remaining
      BY <1>8, <1>9, <3>1, <3>2, SetNext
    <3>4. forward = [data EXCEPT ![p] = o]
      BY <1>2, <2>2, <3>2
    <3>5. \A y \in Slot : y # p => forward[y] = data[y] /\ SameOrder(data[y], data[y])
      BY <1>9, <3>4 DEF SameOrder
    <3>6. forward[p] = o /\ forward \in [Slot -> OrderRecord]
      BY <1>9, <3>1, <3>3, <3>4
    <3> QED BY <3>1, <3>3, <3>5, <3>6
  <2> QED BY <2>1, <2>2
<1>11. /\ new \in [Slot -> OrderRecord]
       /\ \A y \in Slot :
            /\ SameOrder(new[y], forward[y]) /\ new[y].remaining = forward[y].remaining
            /\ new[y].next = forward[y].next
            /\ new[y].prev = IF y = n THEN p ELSE forward[y].prev
            /\ y \notin M => new[y] = forward[y]
  <2>1. CASE n = NullOrder
    BY <1>3, <1>5, <1>10, <2>1 DEF SameOrder
  <2>2. CASE n # NullOrder
    <3>1. n \in Slot /\ n \in M
      BY <1>7, <2>2
    <3>2. PICK o : o = [forward[n] EXCEPT !.prev = p]
      OBVIOUS
    <3>3. o \in OrderRecord /\ SameOrder(o, forward[n]) /\ o.prev = p /\ o.next = forward[n].next /\ o.remaining = forward[n].remaining
      BY <1>8, <1>10, <3>1, <3>2, SetPrev
    <3>4. new = [forward EXCEPT ![n] = o]
      BY <1>3, <2>2, <3>2
    <3>5. \A y \in Slot : y # n => new[y] = forward[y] /\ SameOrder(forward[y], forward[y])
      BY <1>10, <3>4 DEF SameOrder
    <3>6. new[n] = o /\ new \in [Slot -> OrderRecord]
      BY <1>10, <3>1, <3>3, <3>4
    <3> QED BY <3>1, <3>3, <3>5, <3>6
  <2> QED BY <2>1, <2>2
<1>12. ASSUME NEW y \in Slot
       PROVE  /\ SameOrder(new[y], data[y])
              /\ new[y].remaining = data[y].remaining
              /\ new[y].next = IF y = data[x].prev THEN data[x].next ELSE data[y].next
              /\ new[y].prev = IF y = data[x].next THEN data[x].prev ELSE data[y].prev
              /\ y \notin M => new[y] = data[y]
  <2>1. SameOrder(forward[y], data[y]) /\ SameOrder(new[y], forward[y])
    BY <1>10, <1>11
  <2>2. SameOrder(new[y], data[y])
    BY <2>1 DEF SameOrder
  <2> QED BY <1>1, <1>10, <1>11, <2>2
<1> QED BY <1>4, <1>11, <1>12 DEF Records

\* A function of the prices with one more, or one fewer.
LEMMA PutGives ==
  ASSUME NEW f, NEW x, NEW v
  PROVE  /\ DOMAIN Put(f, x, v) = DOMAIN f \cup {x} /\ Put(f, x, v)[x] = v
         /\ \A y \in DOMAIN f \ {x} : Put(f, x, v)[y] = f[y]
BY DEF Put

\* What Drop leaves of a function.
LEMMA DropGives ==
  ASSUME NEW f, NEW x
  PROVE  /\ DOMAIN Drop(f, x) = DOMAIN f \ {x}
         /\ \A y \in DOMAIN f \ {x} : Drop(f, x)[y] = f[y]
BY DEF Drop, Restrict

\* What remove_order leaves of a pool and a book, without the order x of R.
Removed(p, book, F, R, x, after) ==
  /\ after = [pool |-> after.pool, book |-> after.book]
  /\ after.book = [levels |-> after.book.levels, orderMap |-> after.book.orderMap]
  /\ PoolOK(after.pool, F \cup {x})
  /\ LevelsOK(after.pool.data, after.book.levels, R \ {x})
  /\ after.book.orderMap = Drop(book.orderMap, KeyOf(p.data[x]))
  /\ \A y \in Slot \ R : after.pool.data[y] = p.data[y]
  /\ \A y \in R \ {x} : /\ SameOrder(after.pool.data[y], p.data[y])
                        /\ after.pool.data[y].remaining = p.data[y].remaining

\* remove_order takes one order out of the levels and gives its slot back.
LEMMA RemoveWorks ==
  ASSUME NEW p, NEW F, PoolOK(p, F), NEW book, NEW R, LevelsOK(p.data, book.levels, R),
         R \cap F = {}, NEW x \in R, NEW st, st = [pool |-> p, book |-> book],
         NEW after, after = RemoveOrder(st, x)
  PROVE  Removed(p, book, F, R, x, after)
<1>1. PICK o, data : data = p.data /\ o = data[x]
  OBVIOUS
<1>2. PICK side, price : side = o.side /\ price = o.price
  OBVIOUS
<1>3. PICK level, M : level = book.levels[side][price] /\ M = At(data, R, side, price)
  OBVIOUS
<1>4. Records(data) /\ R \subseteq Slot /\ DOMAIN book.levels = Side
  BY <1>1 DEF PoolOK, Records, LevelsOK
<1>5. x \in Slot /\ side \in Side /\ price \in Nat /\ price \in DOMAIN book.levels[side] /\ x \in M
      /\ LevelOK(data, level, M)
  BY <1>1, <1>2, <1>3, <1>4, LevelOfOrder
<1>6. M \subseteq R /\ \A y \in M : data[y].side = side /\ data[y].price = price
  BY <1>3 DEF At
<1>7. PICK u : u = Unlink(data, x)
  OBVIOUS
<1>8. Records(u)
      /\ \A y \in Slot :
           /\ SameOrder(u[y], data[y])
           /\ u[y].remaining = data[y].remaining
           /\ u[y].next = IF y = data[x].prev THEN data[x].next ELSE data[y].next
           /\ u[y].prev = IF y = data[x].next THEN data[x].prev ELSE data[y].prev
           /\ y \notin M => u[y] = data[y]
  BY <1>4, <1>5, <1>7, UnlinkSets
<1>9. PICK q : q = [data |-> u, freeHead |-> p.freeHead, allocatedCount |-> p.allocatedCount]
  OBVIOUS
<1>10. PoolOK(q, F) /\ q.data = u
  <2>1. F \subseteq Slot
    BY FreeSlotsAre
  <2>2. \A y \in F : u[y].next = p.data[y].next
    BY <1>1, <1>6, <1>8, <2>1
  <2>3. u \in [Slot -> OrderRecord]
    BY <1>8 DEF Records
  <2>4. PoolOK([data |-> u, freeHead |-> p.freeHead, allocatedCount |-> p.allocatedCount], F)
    BY <2>2, <2>3, PoolFrame
  <2> QED BY <1>9, <2>4
<1>11. PICK d, new : d = Deallocate(q, x) /\ new = d.data
  OBVIOUS
<1>12. PoolOK(d, F \cup {x}) /\ (\A y \in Slot \ {x} : new[y] = u[y]) /\ Records(new)
  <2>1. x \notin F
    OBVIOUS
  <2>2. PoolOK(Deallocate(q, x), F \cup {x})
    BY <1>5, <1>10, <2>1, DeallocateGives
  <2>3. \A y \in Slot \ {x} : Deallocate(q, x).data[y] = q.data[y]
    BY <1>5, <1>10, <2>1, DeallocateGives
  <2> QED BY <1>10, <1>11, <2>2, <2>3 DEF PoolOK, Records
<1>13. PICK left, changed, map :
         /\ left = LevelWithout(level, o)
         /\ changed = [book.levels EXCEPT ![side] = IF LevelGone(left) THEN Drop(book.levels[side], price)
                                                    ELSE Put(book.levels[side], price, left)]
         /\ map = Drop(book.orderMap, KeyOf(o))
  OBVIOUS
<1>14. after = [pool |-> d, book |-> [levels |-> changed, orderMap |-> map]]
  <2>1. st.pool = p /\ st.book = book
    OBVIOUS
  <2>2. [p EXCEPT !.data = Unlink(@, x)] = q
    BY <1>1, <1>7, <1>9 DEF PoolOK
  <2> QED BY <1>1, <1>2, <1>3, <1>5, <1>11, <1>13, <2>1, <2>2 DEF RemoveOrder, Forget
<1>15. \A y \in M \ {x} :
         /\ new[y].sequence = data[y].sequence /\ new[y].remaining = data[y].remaining
         /\ new[y].next = IF y = data[x].prev THEN data[x].next ELSE data[y].next
         /\ new[y].prev = IF y = data[x].next THEN data[x].prev ELSE data[y].prev
  BY <1>4, <1>6, <1>8, <1>12 DEF SameOrder
<1>16. (LevelGone(left) <=> M = {x}) /\ (M # {x} => LevelOK(new, left, M \ {x}))
  <2>3. Records(data) /\ LevelOK(data, level, M) /\ x \in M
    BY <1>4, <1>5
  <2>1. /\ LevelGone(LevelWithout(level, data[x])) <=> M = {x}
        /\ M # {x} => LevelOK(new, LevelWithout(level, data[x]), M \ {x})
    BY ONLY <1>15, <2>3, LevelRemove
  <2> QED BY <1>1, <1>13, <2>1
<1>17. \A y \in R \ {x} : /\ SameOrder(new[y], data[y]) /\ new[y].remaining = data[y].remaining
                          /\ new[y].side = data[y].side /\ new[y].price = data[y].price
  BY <1>4, <1>8, <1>12 DEF SameOrder
<1>18. PICK T, N : T = R \ {x} /\ N = M \ {x}
  OBVIOUS
<1>19. N = At(new, T, side, price)
  BY <1>3, <1>17, <1>18 DEF At
<1>20. LevelsOK(new, changed, T)
  <2>1. DOMAIN changed = Side
    BY <1>4, <1>13
  <2>2. \A sd \in Side \ {side} : changed[sd] = book.levels[sd]
    BY <1>4, <1>13
  <2>3. changed[side] = IF M = {x} THEN Drop(book.levels[side], price) ELSE Put(book.levels[side], price, left)
    BY <1>4, <1>5, <1>13, <1>16
  <2>4. N # {} <=> M # {x}
    BY <1>5, <1>18
  <2>5. /\ \A r \in Nat \ {price} : r \in DOMAIN changed[side] <=> r \in DOMAIN book.levels[side]
        /\ \A r \in DOMAIN book.levels[side] \ {price} : changed[side][r] = book.levels[side][r]
        /\ price \in DOMAIN changed[side] <=> N # {}
        /\ N # {} => changed[side][price] = left
        /\ DOMAIN changed[side] \subseteq DOMAIN book.levels[side] \cup {price}
    <3>1. PICK f, g : f = book.levels[side] /\ g = changed[side]
      OBVIOUS
    <3>2. CASE M = {x}
      <4>1. g = Drop(f, price)
        BY <2>3, <3>1, <3>2
      <4>2. DOMAIN g = DOMAIN f \ {price} /\ \A r \in DOMAIN f \ {price} : g[r] = f[r]
        BY ONLY <4>1, DropGives
      <4> QED BY <2>4, <3>1, <3>2, <4>2
    <3>3. CASE M # {x}
      <4>1. g = Put(f, price, left)
        BY <2>3, <3>1, <3>3
      <4>2. DOMAIN g = DOMAIN f \cup {price}
        BY ONLY <4>1, PutGives
      <4>3. g[price] = left
        BY <4>1 DEF Put
      <4>4. \A r \in DOMAIN f \ {price} : g[r] = f[r]
        BY <4>1 DEF Put
      <4> QED BY <2>4, <3>1, <3>3, <4>2, <4>3, <4>4
    <3> QED BY <3>2, <3>3
  <2>6. DOMAIN changed[side] \subseteq Nat
    <3>1. DOMAIN book.levels[side] \subseteq Nat
      BY <1>5 DEF LevelsOK
    <3> QED BY <1>5, <2>5, <3>1
  <2>7. N # {} => LevelOK(new, changed[side][price], N)
    BY <1>16, <1>18, <2>4, <2>5
  <2>8. T \in SUBSET Slot /\ R \ M = T \ N
    BY <1>4, <1>5, <1>18
  <2>9. \A y \in R \ M : Untouched(new[y], data[y])
    <3>1. \A y \in R \ M : y \in Slot \ {x} /\ y \notin M
      BY <1>4, <1>5
    <3>2. \A y \in R \ M : new[y] = data[y]
      BY <1>8, <1>12, <3>1
    <3> QED BY <3>2 DEF Untouched, SameLinks
  <2>10. LevelsOK(data, book.levels, R)
    BY <1>1
  <2>11. \A r \in Nat \ {price} : r \in DOMAIN changed[side] <=> r \in DOMAIN book.levels[side]
    BY <2>5
  <2>12. \A r \in DOMAIN book.levels[side] \ {price} : changed[side][r] = book.levels[side][r]
    BY <2>5
  <2>13. price \in DOMAIN changed[side] <=> N # {}
    BY <2>5
  <2> QED BY ONLY <1>3, <1>4, <1>5, <1>12, <1>19, <2>1, <2>2, <2>6, <2>7, <2>8, <2>9, <2>10, <2>11, <2>12, <2>13, OneLevelChanges
<1>21. \A y \in Slot \ R : new[y] = p.data[y]
  BY <1>1, <1>6, <1>8, <1>12
<1>22. /\ after.pool = d /\ after.pool.data = new /\ after.book = [levels |-> changed, orderMap |-> map]
       /\ after = [pool |-> after.pool, book |-> after.book]
  BY <1>11, <1>14
<1>23. \A y \in R \ {x} : SameOrder(new[y], p.data[y]) /\ new[y].remaining = p.data[y].remaining
  BY <1>1, <1>17
<1> QED BY <1>1, <1>12, <1>13, <1>18, <1>20, <1>21, <1>22, <1>23 DEF Removed

\* What insert_limit leaves of a pool and a book, with the order x besides R.
Inserted(p, book, F, R, x, after) ==
  /\ after = [pool |-> after.pool, book |-> after.book]
  /\ after.book = [levels |-> after.book.levels, orderMap |-> after.book.orderMap]
  /\ PoolOK(after.pool, F)
  /\ LevelsOK(after.pool.data, after.book.levels, R \cup {x})
  /\ after.book.orderMap = Put(book.orderMap, KeyOf(p.data[x]), x)
  /\ \A y \in Slot \ (R \cup {x}) : after.pool.data[y] = p.data[y]
  /\ \A y \in R \cup {x} : /\ SameOrder(after.pool.data[y], p.data[y])
                           /\ after.pool.data[y].remaining = p.data[y].remaining

\* insert_limit puts an order that is younger than all others behind its level.
LEMMA InsertWorks ==
  ASSUME NEW p, NEW F, PoolOK(p, F), NEW book, NEW R, LevelsOK(p.data, book.levels, R),
         NEW x \in Slot, x \notin R, x \notin F, R \cap F = {},
         p.data[x].next = NullOrder, p.data[x].prev = NullOrder,
         \A y \in R : p.data[y].sequence < p.data[x].sequence,
         NEW st, st = [pool |-> p, book |-> book],
         NEW after, after = InsertLimit(st, x)
  PROVE  Inserted(p, book, F, R, x, after)
<1>1. PICK o, data : data = p.data /\ o = data[x]
  OBVIOUS
<1>2. PICK side, price, f : side = o.side /\ price = o.price /\ f = book.levels[side]
  OBVIOUS
<1>3. PICK level, M : level = (IF price \in DOMAIN f THEN f[price] ELSE NewLevel) /\ M = At(data, R, side, price)
  OBVIOUS
<1>4. Records(data) /\ R \subseteq Slot /\ DOMAIN book.levels = Side
  BY <1>1 DEF PoolOK, Records, LevelsOK
<1>5. side \in Side /\ price \in Nat /\ x \notin M /\ M \subseteq R
  BY <1>1, <1>2, <1>3, <1>4, RecordFields DEF At
<1>6. /\ DOMAIN f \subseteq Nat /\ (price \in DOMAIN f <=> M # {})
      /\ M # {} => LevelOK(data, level, M)
  <2>1. DOMAIN f = {r \in Nat : At(data, R, side, r) # {}}
    BY <1>1, <1>2, <1>5 DEF LevelsOK
  <2>2. price \in DOMAIN f <=> M # {}
    BY <1>3, <1>5, <2>1
  <2>3. price \in DOMAIN f => LevelOK(data, f[price], At(data, R, side, price))
    BY <1>1, <1>2, <1>5 DEF LevelsOK
  <2> QED BY <1>3, <2>1, <2>2, <2>3
<1>7. PICK t : t = level.tail
  OBVIOUS
<1>8. t = NullOrder <=> M = {}
  <2>1. CASE M = {}
    BY <1>3, <1>6, <1>7, <2>1 DEF NewLevel
  <2>2. CASE M # {}
    BY <1>6, <1>7, <2>2, LevelEnds
  <2> QED BY <2>1, <2>2
<1>9. M # {} => t \in M /\ t \in Slot /\ t # x /\ t \in R
  <2>1. ASSUME M # {} PROVE t \in M
    <3>1. LevelOK(data, level, M)
      BY <1>6, <2>1
    <3> QED BY <1>7, <3>1, LevelEnds
  <2> QED BY <1>4, <1>5, <2>1
<1>10. PICK new : new = IF t = NullOrder THEN data
                        ELSE [data EXCEPT ![t].next = x, ![x].prev = t]
  OBVIOUS
<1>11. /\ Records(new)
       /\ \A y \in Slot : /\ SameOrder(new[y], data[y]) /\ new[y].remaining = data[y].remaining
                          /\ new[y].next = IF y = t THEN x ELSE data[y].next
                          /\ new[y].prev = IF y = x THEN t ELSE data[y].prev
                          /\ y # x /\ y # t => new[y] = data[y]
  <2>0. data \in [Slot -> OrderRecord] /\ NullOrder \notin Slot /\ x \in 0..MaxOrders
    BY <1>4, PoolAssumption DEF Records, Slot, NullOrder
  <2>1. CASE t = NullOrder
    <3>1. new = data
      BY <1>10, <2>1
    <3>2. \A y \in Slot : y # t /\ SameOrder(data[y], data[y])
      BY <2>0, <2>1 DEF SameOrder
    <3>3. data[x].prev = t
      BY <1>1, <2>1
    <3> QED BY <1>4, <3>1, <3>2, <3>3
  <2>2. CASE t # NullOrder
    <3>1. t \in Slot /\ t # x /\ t \in 0..MaxOrders
      BY <1>8, <1>9, <2>2, PoolAssumption DEF Slot
    <3>2. PICK a, b : a = [data[t] EXCEPT !.next = x] /\ b = [data[x] EXCEPT !.prev = t]
      OBVIOUS
    <3>3. a \in OrderRecord /\ SameOrder(a, data[t]) /\ a.next = x /\ a.prev = data[t].prev /\ a.remaining = data[t].remaining
      BY <2>0, <3>1, <3>2, SetNext
    <3>4. b \in OrderRecord /\ SameOrder(b, data[x]) /\ b.prev = t /\ b.next = data[x].next /\ b.remaining = data[x].remaining
      BY <2>0, <3>1, <3>2, SetPrev
    <3>5. new = [[data EXCEPT ![t] = a] EXCEPT ![x] = b]
      BY <1>10, <2>0, <2>2, <3>1, <3>2
    <3>6. new \in [Slot -> OrderRecord] /\ new[t] = a /\ new[x] = b
      BY <2>0, <3>1, <3>3, <3>4, <3>5
    <3>7. \A y \in Slot : y # x /\ y # t => new[y] = data[y] /\ SameOrder(data[y], data[y])
      BY <2>0, <3>5 DEF SameOrder
    <3> QED BY <3>1, <3>3, <3>4, <3>6, <3>7 DEF Records
  <2> QED BY <2>1, <2>2
<1>12. PICK grown, changed, map :
         /\ grown = [head |-> IF t = NullOrder THEN x ELSE level.head, tail |-> x,
                     volume |-> Grown(level.volume, o.remaining),
                     orderCount |-> level.orderCount + 1]
         /\ changed = [book.levels EXCEPT ![side] = Put(f, price, grown)]
         /\ map = Put(book.orderMap, KeyOf(o), x)
  OBVIOUS
<1>13. PICK q : q = [data |-> new, freeHead |-> p.freeHead, allocatedCount |-> p.allocatedCount]
  OBVIOUS
<1>14. after = [pool |-> q, book |-> [levels |-> changed, orderMap |-> map]]
  <2>1. st.pool = p /\ st.book = book
    OBVIOUS
  <2>2. [p EXCEPT !.data = new] = q
    BY <1>13 DEF PoolOK
  <2>3. [book.levels EXCEPT ![side] = Put(@, price, grown)] = changed
    BY <1>2, <1>12
  <2>4. level = (IF o.price \in DOMAIN st.book.levels[o.side] THEN st.book.levels[o.side][o.price] ELSE NewLevel)
    BY <1>2, <1>3, <2>1
  <2>5. o = st.pool.data[x] /\ data = st.pool.data
    BY <1>1, <2>1
  <2>6. grown = [head |-> IF level.tail = NullOrder THEN x ELSE level.head, tail |-> x,
                 volume |-> (level.volume + o.remaining) % U32Size,
                 orderCount |-> level.orderCount + 1]
    BY <1>7, <1>12 DEF Grown
  <2>7. new = IF level.tail = NullOrder THEN st.pool.data
              ELSE [st.pool.data EXCEPT ![level.tail].next = x, ![x].prev = level.tail]
    BY <1>7, <1>10, <2>5
  <2>8. after = [pool |-> [st.pool EXCEPT !.data = new],
                 book |-> [levels |-> [st.book.levels EXCEPT ![o.side] = Put(@, o.price, grown)],
                           orderMap |-> Put(st.book.orderMap, KeyOf(o), x)]]
    <3>1. after = InsertLimit(st, x)
      OBVIOUS
    <3> QED BY ONLY <2>4, <2>5, <2>6, <2>7, <3>1, ZenonT(40) DEF InsertLimit
  <2> QED BY <1>2, <1>12, <2>1, <2>2, <2>3, <2>8
<1>15. PoolOK(q, F)
  <2>1. F \subseteq Slot
    BY FreeSlotsAre
  <2>2. \A y \in F : new[y].next = p.data[y].next
    <3>1. \A y \in F : y \in Slot /\ y # x /\ y # t
      BY <1>4, <1>8, <1>9, <2>1, PoolAssumption DEF Slot, NullOrder
    <3> QED BY <1>1, <1>11, <3>1
  <2>3. new \in [Slot -> OrderRecord]
    BY <1>11 DEF Records
  <2>4. PoolOK([data |-> new, freeHead |-> p.freeHead, allocatedCount |-> p.allocatedCount], F)
    BY <2>2, <2>3, PoolFrame
  <2> QED BY <1>13, <2>4
<1>16. PICK T, N : T = R \cup {x} /\ N = M \cup {x}
  OBVIOUS
<1>17. \A y \in T : /\ SameOrder(new[y], data[y]) /\ new[y].remaining = data[y].remaining
                    /\ new[y].side = data[y].side /\ new[y].price = data[y].price
  BY <1>4, <1>11, <1>16 DEF SameOrder
<1>18. N = At(new, T, side, price)
  BY <1>1, <1>2, <1>3, <1>16, <1>17 DEF At
<1>19. new[x].sequence = data[x].sequence /\ new[x].remaining = o.remaining /\ new[x].next = NullOrder /\ new[x].prev = t
  <2>1. x # t
    BY <1>8, <1>9, PoolAssumption DEF Slot, NullOrder
  <2> QED BY <1>1, <1>11, <2>1 DEF SameOrder
<1>20. LevelOK(new, grown, N)
  <2>1. CASE M = {}
    <3>1. level = NewLevel /\ t = NullOrder
      BY <1>3, <1>6, <1>8, <2>1
    <3>2. grown = [head |-> x, tail |-> x, volume |-> Grown(NewLevel.volume, new[x].remaining),
                   orderCount |-> NewLevel.orderCount + 1]
      BY <1>12, <1>19, <3>1
    <3>3. Records(new) /\ x \in Slot /\ new[x].next = NullOrder /\ new[x].prev = NullOrder
      BY <1>11, <1>19, <3>1
    <3>4. LevelOK(new, [head |-> x, tail |-> x, volume |-> Grown(NewLevel.volume, new[x].remaining),
                        orderCount |-> NewLevel.orderCount + 1], {x})
      BY ONLY <3>3, LevelFirst
    <3> QED BY <1>16, <2>1, <3>2, <3>4
  <2>2. CASE M # {}
    <3>1. LevelOK(data, level, M) /\ Records(data) /\ Records(new) /\ x \in Slot /\ x \notin M
      BY <1>4, <1>5, <1>6, <1>11, <2>2
    <3>2. t # NullOrder /\ t = level.tail /\ t \in Slot
      BY <1>7, <1>8, <1>9, <2>2
    <3>3. \A y \in M : /\ new[y].prev = data[y].prev /\ new[y].sequence = data[y].sequence
                       /\ new[y].remaining = data[y].remaining /\ data[y].sequence < new[x].sequence
      <4>1. \A y \in M : y \in Slot /\ y \in R /\ y # x
        BY <1>4, <1>5
      <4> QED BY <1>1, <1>11, <1>19, <4>1 DEF SameOrder
    <3>4. \A y \in M : y # level.tail => new[y].next = data[y].next
      BY <1>4, <1>5, <1>11, <3>2
    <3>5. new[level.tail].next = x /\ new[x].prev = level.tail /\ new[x].next = NullOrder
      BY <1>11, <1>19, <3>2
    <3>6. LevelOK(new, [head |-> level.head, tail |-> x,
                        volume |-> Grown(level.volume, new[x].remaining),
                        orderCount |-> level.orderCount + 1], M \cup {x})
      BY ONLY <3>1, <3>3, <3>4, <3>5, LevelAppend
    <3> QED BY <1>12, <1>16, <1>19, <3>2, <3>6
  <2> QED BY <2>1, <2>2
<1>21. LevelsOK(new, changed, T)
  <2>1. DOMAIN changed = Side /\ changed[side] = Put(f, price, grown)
    BY <1>4, <1>5, <1>12
  <2>2. \A sd \in Side \ {side} : changed[sd] = book.levels[sd]
    BY <1>4, <1>12
  <2>3. PICK g : g = changed[side]
    OBVIOUS
  <2>4. DOMAIN g = DOMAIN f \cup {price} /\ g[price] = grown /\ \A r \in DOMAIN f \ {price} : g[r] = f[r]
    BY <2>1, <2>3 DEF Put
  <2>5. \A r \in Nat \ {price} : r \in DOMAIN changed[side] <=> r \in DOMAIN book.levels[side]
    BY <1>2, <2>3, <2>4
  <2>6. \A r \in DOMAIN book.levels[side] \ {price} : changed[side][r] = book.levels[side][r]
    BY <1>2, <2>3, <2>4
  <2>7. DOMAIN changed[side] \subseteq Nat /\ (price \in DOMAIN changed[side] <=> N # {})
    BY <1>5, <1>6, <1>16, <2>3, <2>4
  <2>8. N # {} => LevelOK(new, changed[side][price], N)
    BY <1>20, <2>3, <2>4
  <2>9. T \in SUBSET Slot /\ R \ M = T \ N
    BY <1>4, <1>5, <1>16
  <2>10. \A y \in R \ M : Untouched(new[y], data[y])
    <3>1. \A y \in R \ M : y \in Slot /\ y # x /\ y # t
      BY <1>4, <1>8, <1>9, PoolAssumption DEF Slot, NullOrder
    <3>2. \A y \in R \ M : new[y] = data[y]
      BY <1>11, <3>1
    <3> QED BY <3>2 DEF Untouched, SameLinks
  <2>11. LevelsOK(data, book.levels, R)
    BY <1>1
  <2>12. DOMAIN changed = Side /\ Records(new)
    BY <1>11, <2>1
  <2> QED BY ONLY <1>3, <1>4, <1>5, <1>18, <2>2, <2>5, <2>6, <2>7, <2>8, <2>9, <2>10, <2>11, <2>12, OneLevelChanges
<1>22. \A y \in Slot \ (R \cup {x}) : new[y] = data[y]
  <2>1. t \in Slot => t \in R
    BY <1>8, <1>9, PoolAssumption DEF Slot, NullOrder
  <2> QED BY <1>11, <2>1
<1>23. /\ after.pool = q /\ after.pool.data = new /\ after.book = [levels |-> changed, orderMap |-> map]
       /\ after = [pool |-> after.pool, book |-> after.book]
  BY <1>13, <1>14
<1>24. \A y \in R \cup {x} : SameOrder(new[y], p.data[y]) /\ new[y].remaining = p.data[y].remaining
  BY <1>1, <1>16, <1>17
<1>25. \A y \in Slot \ (R \cup {x}) : new[y] = p.data[y]
  BY <1>1, <1>22
<1> QED BY <1>1, <1>12, <1>15, <1>16, <1>21, <1>23, <1>24, <1>25 DEF Inserted

\* What a fill makes of the pool and of the book.
Filled(p, x, y, q) == [p EXCEPT !.data[x].remaining = @ - q, !.data[y].remaining = @ - q]
\* A book one of whose levels has less volume by q.
LessVolume(book, side, price, q) == [book EXCEPT !.levels[side][price].volume = SaturatingSub(@, q)]

\* What a fill of q in place, of x and of y of R, leaves.
FilledInPlace(p, book, F, R, x, y, q, pool2, book2) ==
  /\ book2 = [levels |-> book2.levels, orderMap |-> book2.orderMap]
  /\ book2.orderMap = book.orderMap
  /\ PoolOK(pool2, F)
  /\ LevelsOK(pool2.data, book2.levels, R)
  /\ \A z \in Slot : /\ SameOrder(pool2.data[z], p.data[z])
                     /\ pool2.data[z].next = p.data[z].next /\ pool2.data[z].prev = p.data[z].prev
                     /\ z # x /\ z # y => pool2.data[z] = p.data[z]
  /\ pool2.data[x].remaining = p.data[x].remaining - q
  /\ pool2.data[y].remaining = p.data[y].remaining - q

\* A fill in place takes as much from both orders and from the level's volume.
LEMMA FillWorks ==
  ASSUME NEW p, NEW F, PoolOK(p, F), NEW book, NEW R, LevelsOK(p.data, book.levels, R),
         book = [levels |-> book.levels, orderMap |-> book.orderMap],
         R \cap F = {}, NEW x \in Slot, x \notin R, x \notin F, NEW y \in R,
         NEW q \in Nat, q <= p.data[x].remaining, q <= p.data[y].remaining,
         NEW side, NEW price, side = p.data[y].side, price = p.data[y].price,
         NEW pool2, pool2 = Filled(p, x, y, q),
         NEW book2, book2 = LessVolume(book, side, price, q)
  PROVE  FilledInPlace(p, book, F, R, x, y, q, pool2, book2)
<1>1. PICK data : data = p.data
  OBVIOUS
<1>2. PICK level, M, f : level = book.levels[side][price] /\ M = At(data, R, side, price) /\ f = book.levels[side]
  OBVIOUS
<1>3. Records(data) /\ data \in [Slot -> OrderRecord] /\ R \subseteq Slot /\ DOMAIN book.levels = Side
  BY <1>1 DEF PoolOK, Records, LevelsOK
<1>4. y \in Slot /\ side \in Side /\ price \in Nat /\ price \in DOMAIN f /\ y \in M
      /\ LevelOK(data, level, M)
  BY <1>1, <1>2, <1>3, LevelOfOrder
<1>5. x # y /\ M \subseteq R
  BY <1>2 DEF At
<1>6. PICK a, b : a = data[x].remaining - q /\ b = data[y].remaining - q
  OBVIOUS
<1>7. a \in Amounts /\ b \in Amounts
  <2>1. data[x].remaining \in Amounts /\ data[x].remaining \in Nat /\ data[y].remaining \in Amounts /\ data[y].remaining \in Nat
    BY <1>3, <1>4, RecordFields
  <2>2. a \in Nat /\ a <= data[x].remaining /\ b \in Nat /\ b <= data[y].remaining
    BY <1>1, <1>6, <2>1
  <2> QED BY <2>1, <2>2, LessRemains
<1>8. PICK u, v : u = [data[x] EXCEPT !.remaining = a] /\ v = [data[y] EXCEPT !.remaining = b]
  OBVIOUS
<1>9. u \in OrderRecord /\ SameOrder(u, data[x]) /\ u.remaining = a /\ u.next = data[x].next /\ u.prev = data[x].prev
  BY <1>3, <1>7, <1>8, SetRemaining
<1>10. v \in OrderRecord /\ SameOrder(v, data[y]) /\ v.remaining = b /\ v.next = data[y].next /\ v.prev = data[y].prev
  BY <1>3, <1>4, <1>7, <1>8, SetRemaining
<1>11. PICK new : new = [[data EXCEPT ![x] = u] EXCEPT ![y] = v]
  OBVIOUS
<1>12. new \in [Slot -> OrderRecord] /\ new[x] = u /\ new[y] = v /\ \A z \in Slot : z # x /\ z # y => new[z] = data[z]
  BY <1>3, <1>4, <1>5, <1>9, <1>10, <1>11
<1>13. pool2 = [data |-> new, freeHead |-> p.freeHead, allocatedCount |-> p.allocatedCount]
  <2>1. p = [data |-> data, freeHead |-> p.freeHead, allocatedCount |-> p.allocatedCount]
    BY <1>1 DEF PoolOK
  <2>2. new = [data EXCEPT ![x].remaining = @ - q, ![y].remaining = @ - q]
    BY <1>3, <1>4, <1>5, <1>6, <1>8, <1>11
  <2>3. pool2 = [p EXCEPT !.data = [data EXCEPT ![x].remaining = @ - q, ![y].remaining = @ - q]]
    BY <1>1, <2>1 DEF Filled
  <2> QED BY <2>1, <2>2, <2>3
<1>14. \A z \in Slot : /\ SameOrder(new[z], data[z])
                       /\ new[z].next = data[z].next /\ new[z].prev = data[z].prev
                       /\ z # x /\ z # y => new[z] = data[z]
  <2>1. \A z \in Slot : SameOrder(data[z], data[z])
    BY DEF SameOrder
  <2> QED BY <1>9, <1>10, <1>12, <2>1
<1>15. PoolOK(pool2, F)
  <2>1. F \subseteq Slot
    BY FreeSlotsAre
  <2>2. \A z \in F : new[z].next = p.data[z].next
    BY <1>1, <1>14, <2>1
  <2>3. PoolOK([data |-> new, freeHead |-> p.freeHead, allocatedCount |-> p.allocatedCount], F)
    BY <1>12, <2>2, PoolFrame
  <2> QED BY <1>13, <2>3
<1>16. PICK lower : lower = [level EXCEPT !.volume = SaturatingSub(@, q)]
  OBVIOUS
<1>17. Records(new)
  BY <1>12 DEF Records
<1>18. LevelOK(new, lower, M)
  <2>1. \A z \in M : SameLinks(new[z], data[z])
    BY <1>3, <1>5, <1>14 DEF SameLinks, SameOrder
  <2>2. \A z \in M \ {y} : new[z].remaining = data[z].remaining
    <3>1. \A z \in M \ {y} : z \in Slot /\ z # x /\ z # y
      BY <1>3, <1>5
    <3> QED BY <1>12, <3>1
  <2>3. q <= data[y].remaining /\ new[y].remaining = data[y].remaining - q
    BY <1>1, <1>6, <1>10, <1>12
  <2>4. LevelOK(new, [level EXCEPT !.volume = SaturatingSub(@, q)], M)
    BY <1>3, <1>4, <1>17, <2>1, <2>2, <2>3, LevelFill
  <2> QED BY <1>16, <2>4
<1>19. PICK changed : changed = [book.levels EXCEPT ![side] = [f EXCEPT ![price] = lower]]
  OBVIOUS
<1>20. book2 = [levels |-> changed, orderMap |-> book.orderMap]
  <2>1. changed = [book.levels EXCEPT ![side][price].volume = SaturatingSub(@, q)]
    BY <1>2, <1>16, <1>19
  <2>2. book2 = [book EXCEPT !.levels = [book.levels EXCEPT ![side][price].volume = SaturatingSub(@, q)]]
    BY DEF LessVolume
  <2> QED BY <2>1, <2>2
<1>21. LevelsOK(new, changed, R)
  <2>1. PICK g : g = changed[side]
    OBVIOUS
  <2>2. DOMAIN changed = Side /\ g = [f EXCEPT ![price] = lower] /\ \A sd \in Side \ {side} : changed[sd] = book.levels[sd]
    BY <1>3, <1>4, <1>19, <2>1
  <2>3. DOMAIN g = DOMAIN f /\ g[price] = lower /\ \A r \in DOMAIN f \ {price} : g[r] = f[r]
    BY <1>4, <2>2
  <2>0. PICK T, N : T = R /\ N = M
    OBVIOUS
  <2>4. N = At(new, T, side, price)
    <3>1. \A z \in R : new[z].side = data[z].side /\ new[z].price = data[z].price
      BY <1>3, <1>14 DEF SameOrder
    <3> QED BY <1>2, <2>0, <3>1 DEF At
  <2>5. \A z \in R \ M : Untouched(new[z], data[z])
    <3>1. \A z \in R \ M : z \in Slot /\ z # x /\ z # y
      BY <1>3, <1>4
    <3>2. \A z \in R \ M : new[z] = data[z]
      BY <1>12, <3>1
    <3> QED BY <3>2 DEF Untouched, SameLinks
  <2>6. \A r \in Nat \ {price} : r \in DOMAIN changed[side] <=> r \in DOMAIN book.levels[side]
    BY <1>2, <2>1, <2>3
  <2>7. \A r \in DOMAIN book.levels[side] \ {price} : changed[side][r] = book.levels[side][r]
    BY <1>2, <2>1, <2>3
  <2>8. DOMAIN f \subseteq Nat
    BY <1>1, <1>2, <1>4 DEF LevelsOK
  <2>9. DOMAIN changed[side] \subseteq Nat /\ (price \in DOMAIN changed[side] <=> N # {})
    BY <1>4, <2>0, <2>1, <2>3, <2>8
  <2>10. N # {} => LevelOK(new, changed[side][price], N)
    BY <1>18, <2>0, <2>1, <2>3
  <2>11. T \in SUBSET Slot /\ R \ M = T \ N /\ DOMAIN changed = Side /\ LevelsOK(data, book.levels, R)
    BY <1>1, <1>3, <2>0, <2>2
  <2>12. \A sd \in Side \ {side} : changed[sd] = book.levels[sd]
    BY <2>2
  <2>13. LevelsOK(new, changed, T)
    BY ONLY <1>2, <1>3, <1>4, <1>17, <2>4, <2>5, <2>6, <2>7, <2>9, <2>10, <2>11, <2>12, OneLevelChanges
  <2> QED BY <2>0, <2>13
<1>22. new[x].remaining = p.data[x].remaining - q /\ new[y].remaining = p.data[y].remaining - q
  BY <1>1, <1>6, <1>9, <1>10, <1>12
<1>23. pool2.data = new /\ book2.levels = changed /\ book2.orderMap = book.orderMap
  BY ONLY <1>13, <1>20
<1>24. LevelsOK(pool2.data, book2.levels, R)
  BY <1>21, <1>23
<1>25. book2 = [levels |-> book2.levels, orderMap |-> book2.orderMap]
  BY <1>20, <1>23
<1>26. \A z \in Slot : /\ SameOrder(pool2.data[z], p.data[z])
                       /\ pool2.data[z].next = p.data[z].next /\ pool2.data[z].prev = p.data[z].prev
                       /\ z # x /\ z # y => pool2.data[z] = p.data[z]
  BY <1>1, <1>14, <1>23
<1>27. pool2.data[x].remaining = p.data[x].remaining - q /\ pool2.data[y].remaining = p.data[y].remaining - q
  BY <1>22, <1>23
<1> QED BY <1>15, <1>23, <1>24, <1>25, <1>26, <1>27 DEF FilledInPlace

-----------------------------------------------------------------------------
(***************************************************************************)
(* Matching.                                                               *)
(***************************************************************************)
\* A finite set of orders has one at the highest price.
LEMMA HighestOrder ==
  ASSUME NEW data, NEW S \in SUBSET Slot, S # {}, \A x \in S : data[x].price \in Nat
  PROVE  \E x \in S : \A y \in S : data[y].price <= data[x].price
<1> DEFINE Topped == {T \in SUBSET S : T = {} \/ \E x \in T : \A y \in T : data[y].price <= data[x].price}
<1>1. {} \in Topped
  OBVIOUS
<1>2. ASSUME NEW T \in SUBSET S, NEW z \in S \ T, T \in Topped PROVE T \cup {z} \in Topped
  <2>1. CASE T = {}
    <3>1. \A y \in T \cup {z} : y = z /\ data[y].price <= data[z].price
      BY <2>1
    <3> QED BY <1>2, <3>1
  <2>2. CASE T # {}
    <3>1. PICK x \in T : \A y \in T : data[y].price <= data[x].price
      BY <1>2, <2>2
    <3>2. CASE data[x].price <= data[z].price
      <4>1. \A y \in T \cup {z} : data[y].price <= data[z].price
        BY <1>2, <3>1, <3>2
      <4> QED BY <1>2, <4>1
    <3>3. CASE ~(data[x].price <= data[z].price)
      <4>1. \A y \in T \cup {z} : data[y].price <= data[x].price
        BY <1>2, <3>1, <3>3
      <4> QED BY <1>2, <3>1, <4>1
    <3> QED BY <3>2, <3>3
  <2> QED BY <2>1, <2>2
<1>3. IsFiniteSet(S)
  BY SlotsFinite, FS_Subset
<1>4. S \in Topped
  <2> HIDE DEF Topped
  <2> QED BY <1>1, <1>2, <1>3, SetInduction
<1> QED BY <1>4

\* The best price of a side is one of its prices, and none is better.
LEMMA BestIsBest ==
  ASSUME NEW data, Records(data), NEW book, NEW R, LevelsOK(data, book.levels, R),
         NEW side \in Side, DOMAIN book.levels[side] # {}
  PROVE  /\ BestPrice(book, side) \in DOMAIN book.levels[side]
         /\ BestPrice(book, side) \in Nat
         /\ \A q \in DOMAIN book.levels[side] :
              IF side = "Buy" THEN BestPrice(book, side) >= q ELSE BestPrice(book, side) <= q
<1>1. PICK prices, S : prices = DOMAIN book.levels[side] /\ S = {x \in R : data[x].side = side}
  OBVIOUS
<1>2. R \subseteq Slot /\ prices = {price \in Nat : At(data, R, side, price) # {}}
  BY <1>1 DEF LevelsOK
<1>3. S \in SUBSET Slot /\ \A x \in S : data[x].price \in Nat
  BY <1>1, <1>2, RecordFields
<1>4. \A q \in prices : q \in Nat /\ \E x \in S : data[x].price = q
  BY <1>1, <1>2 DEF At
<1>5. \A x \in S : data[x].price \in prices
  <2> SUFFICES ASSUME NEW x \in S PROVE data[x].price \in prices
    OBVIOUS
  <2>1. x \in At(data, R, side, data[x].price)
    BY <1>1 DEF At
  <2> QED BY <1>2, <1>3, <2>1
<1>6. S # {}
  BY <1>1, <1>4
<1>7. \E p \in prices : \A q \in prices : IF side = "Buy" THEN p >= q ELSE p <= q
  <2>1. CASE side = "Buy"
    <3>1. PICK x \in S : \A y \in S : data[y].price <= data[x].price
      BY <1>3, <1>6, HighestOrder
    <3>2. \A q \in prices : data[x].price >= q
      BY <1>3, <1>4, <3>1
    <3> QED BY <1>5, <2>1, <3>2
  <2>2. CASE side # "Buy"
    <3>1. prices \subseteq Nat /\ prices # {}
      BY <1>1, <1>4
    <3>2. \E p \in prices : \A q \in prices : p <= q
      BY <3>1, LeastNumber
    <3> QED BY <2>2, <3>2
  <2> QED BY <2>1, <2>2
<1>8. BestPrice(book, side) = CHOOSE p \in prices : \A q \in prices : IF side = "Buy" THEN p >= q ELSE p <= q
  BY <1>1 DEF BestPrice
<1>9. /\ BestPrice(book, side) \in prices
      /\ \A q \in prices : IF side = "Buy" THEN BestPrice(book, side) >= q ELSE BestPrice(book, side) <= q
  BY <1>7, <1>8
<1> QED BY <1>1, <1>4, <1>9

\* The smaller of two amounts.
LEMMA SmallerOfTwo ==
  ASSUME NEW a \in Nat, NEW b \in Nat
  PROVE  Min({a, b}) \in Nat /\ Min({a, b}) <= a /\ Min({a, b}) <= b /\ (Min({a, b}) = a \/ Min({a, b}) = b)
<1>1. Min({a, b}) = CHOOSE x \in {a, b} : \A y \in {a, b} : x =< y
  BY DEF Min
<1>2. \E x \in {a, b} : \A y \in {a, b} : x =< y
  <2>1. a <= b \/ b <= a
    OBVIOUS
  <2> QED BY <2>1
<1>3. PICK m : m = CHOOSE x \in {a, b} : \A y \in {a, b} : x =< y
  OBVIOUS
<1>4. m \in {a, b} /\ \A y \in {a, b} : m =< y
  BY <1>2, <1>3
<1> QED BY <1>1, <1>3, <1>4

-----------------------------------------------------------------------------
\* The orders of R rest in the book of instrument i.
BookOK(data, book, i, R) ==
  /\ LevelsOK(data, book.levels, R)
  /\ book = [levels |-> book.levels, orderMap |-> book.orderMap]
  /\ \A x \in R : data[x].instrument = i
  /\ \A key \in DOMAIN book.orderMap : book.orderMap[key] \in R /\ KeyOf(data[book.orderMap[key]]) = key

\* Something remains of every resting order.
Live(data, R) == \A x \in R : data[x].remaining > 0

\* No resting order could trade with another.
Uncrossed(data, R) ==
  \A x, y \in R : data[x].side = "Buy" /\ data[y].side = "Sell" => data[x].price < data[y].price

\* The order map knows every resting order.
AllKnown(data, book, R) ==
  \A x \in R : KeyOf(data[x]) \in DOMAIN book.orderMap /\ book.orderMap[KeyOf(data[x])] = x

\* A pool and one of its books, of which F are the free slots and R the orders.
Whole(p, book, i, F, R) ==
  /\ PoolOK(p, F) /\ BookOK(p.data, book, i, R) /\ Live(p.data, R) /\ Uncrossed(p.data, R)
  /\ ~KeyReuse => AllKnown(p.data, book, R)
  /\ F \cap R = {}

\* Orders keep who they are, and only those of R and idx are touched.
Kept(data, new, idx, R, T) ==
  /\ T \subseteq R
  /\ \A z \in Slot \ (R \cup {idx}) : new[z] = data[z]
  /\ \A z \in T \cup {idx} : SameOrder(new[z], data[z])
  /\ new[idx].next = data[idx].next /\ new[idx].prev = data[idx].prev

\* An order that stays who it is keeps its name.
LEMMA SameName ==
  ASSUME NEW o, NEW p, SameOrder(o, p)
  PROVE  KeyOf(o) = KeyOf(p)
BY DEF SameOrder, KeyOf

\* What two steps keep is kept.
LEMMA KeptTwice ==
  ASSUME NEW data, NEW new, NEW newer, NEW idx \in Slot, NEW R, NEW T, NEW U, R \subseteq Slot,
         Kept(data, new, idx, R, T), Kept(new, newer, idx, T, U)
  PROVE  Kept(data, newer, idx, R, U)
<1>1. U \subseteq R
  BY DEF Kept
<1>2. \A z \in Slot \ (R \cup {idx}) : newer[z] = data[z]
  BY DEF Kept
<1>3. \A z \in U \cup {idx} : SameOrder(newer[z], data[z])
  <2>1. \A z \in U \cup {idx} : SameOrder(newer[z], new[z]) /\ SameOrder(new[z], data[z])
    BY DEF Kept
  <2> QED BY <2>1 DEF SameOrder
<1> QED BY <1>1, <1>2, <1>3 DEF Kept

\* What is left of a whole book without its order x.
RemovedWhole(p, i, F, R, x, idx, after) ==
  /\ after = [pool |-> after.pool, book |-> after.book]
  /\ Whole(after.pool, after.book, i, F \cup {x}, R \ {x})
  /\ Kept(p.data, after.pool.data, idx, R, R \ {x})
  /\ after.pool.data[idx] = p.data[idx]
  /\ \A y \in R \ {x} : after.pool.data[y].remaining = p.data[y].remaining

\* remove_order keeps a whole book whole.
LEMMA RemoveKeepsWhole ==
  ASSUME NEW p, NEW book, NEW i, NEW F, NEW R, PoolOK(p, F), BookOK(p.data, book, i, R),
         NEW x \in R, Live(p.data, R \ {x}),
         Uncrossed(p.data, R), ~KeyReuse => AllKnown(p.data, book, R), F \cap R = {},
         NEW idx \in Slot, idx \notin R,
         NEW st, st = [pool |-> p, book |-> book], NEW after, after = RemoveOrder(st, x)
  PROVE  RemovedWhole(p, i, F, R, x, idx, after)
<1>1. PICK new, T : new = after.pool.data /\ T = R \ {x}
  OBVIOUS
<1>2. /\ LevelsOK(p.data, book.levels, R) /\ (\A y \in R : p.data[y].instrument = i)
      /\ \A key \in DOMAIN book.orderMap : book.orderMap[key] \in R /\ KeyOf(p.data[book.orderMap[key]]) = key
  BY DEF BookOK
<1>3. R \subseteq Slot /\ R \cap F = {}
  BY <1>2 DEF LevelsOK
<1>4. /\ after = [pool |-> after.pool, book |-> after.book]
      /\ after.book = [levels |-> after.book.levels, orderMap |-> after.book.orderMap]
      /\ PoolOK(after.pool, F \cup {x})
      /\ LevelsOK(after.pool.data, after.book.levels, R \ {x})
      /\ after.book.orderMap = Drop(book.orderMap, KeyOf(p.data[x]))
      /\ \A y \in Slot \ R : after.pool.data[y] = p.data[y]
      /\ \A y \in R \ {x} : /\ SameOrder(after.pool.data[y], p.data[y])
                            /\ after.pool.data[y].remaining = p.data[y].remaining
  <2>1. PoolOK(p, F) /\ LevelsOK(p.data, book.levels, R) /\ R \cap F = {} /\ x \in R
        /\ st = [pool |-> p, book |-> book] /\ after = RemoveOrder(st, x)
    BY <1>2, <1>3
  <2>2. Removed(p, book, F, R, x, after)
    BY ONLY <2>1, RemoveWorks
  <2> QED BY <2>2 DEF Removed
<1>5. \A y \in T : /\ SameOrder(new[y], p.data[y]) /\ KeyOf(new[y]) = KeyOf(p.data[y])
                   /\ new[y].remaining = p.data[y].remaining
                   /\ new[y].instrument = p.data[y].instrument /\ new[y].side = p.data[y].side
                   /\ new[y].price = p.data[y].price
  <2>1. \A y \in T : SameOrder(new[y], p.data[y]) /\ new[y].remaining = p.data[y].remaining
    BY <1>1, <1>4
  <2> QED BY <2>1, SameName DEF SameOrder
<1>6. PICK map, key0 : map = after.book.orderMap /\ key0 = KeyOf(p.data[x])
  OBVIOUS
<1>7. DOMAIN map = DOMAIN book.orderMap \ {key0} /\ \A key \in DOMAIN map : map[key] = book.orderMap[key]
  <2>1. map = Drop(book.orderMap, key0)
    BY <1>4, <1>6
  <2> QED BY <2>1 DEF Drop, Restrict
<1>8. \A key \in DOMAIN map : map[key] \in T /\ KeyOf(new[map[key]]) = key
  <2> SUFFICES ASSUME NEW key \in DOMAIN map PROVE map[key] \in T /\ KeyOf(new[map[key]]) = key
    OBVIOUS
  <2>1. key \in DOMAIN book.orderMap /\ key # key0 /\ map[key] = book.orderMap[key]
    BY <1>7
  <2>2. map[key] \in R /\ KeyOf(p.data[map[key]]) = key
    BY <1>2, <2>1
  <2>3. map[key] # x
    BY <1>6, <2>1, <2>2
  <2> QED BY <1>1, <1>5, <2>2, <2>3
<1>9. BookOK(new, after.book, i, T)
  <2>1. \A y \in T : new[y].instrument = i
    BY <1>1, <1>2, <1>5
  <2> QED BY <1>1, <1>4, <1>6, <1>8, <2>1 DEF BookOK
<1>10. Uncrossed(new, T) /\ Live(new, T)
  BY <1>1, <1>5 DEF Uncrossed, Live
<1>11. ~KeyReuse => AllKnown(new, after.book, T)
  <2> SUFFICES ASSUME ~KeyReuse, NEW y \in T PROVE KeyOf(new[y]) \in DOMAIN map /\ map[KeyOf(new[y])] = y
    BY <1>6 DEF AllKnown
  <2>1. y \in R /\ y # x
    BY <1>1
  <2>2. KeyOf(p.data[y]) \in DOMAIN book.orderMap /\ book.orderMap[KeyOf(p.data[y])] = y
        /\ book.orderMap[KeyOf(p.data[x])] = x
    BY <2>1 DEF AllKnown
  <2>3. KeyOf(p.data[y]) # key0
    BY <1>6, <2>1, <2>2
  <2> QED BY <1>5, <1>7, <2>2, <2>3
<1>12. (F \cup {x}) \cap T = {}
  BY <1>1
<1>13. Whole(after.pool, after.book, i, F \cup {x}, T)
  BY <1>1, <1>4, <1>9, <1>10, <1>11, <1>12 DEF Whole
<1>14. new[idx] = p.data[idx]
  BY <1>1, <1>4
<1>15. Kept(p.data, new, idx, R, T)
  <2>1. SameOrder(new[idx], p.data[idx])
    BY <1>14 DEF SameOrder
  <2>2. \A z \in Slot \ (R \cup {idx}) : new[z] = p.data[z]
    BY <1>1, <1>4
  <2> QED BY <1>1, <1>5, <1>14, <2>1, <2>2 DEF Kept
<1> QED BY <1>1, <1>4, <1>5, <1>13, <1>14, <1>15 DEF RemovedWhole

\* What the opposite orders leave to an order of that side and price.
Clear(data, R, side, price) ==
  \A y \in R : data[y].side # side => IF side = "Buy" THEN price < data[y].price ELSE data[y].price < price

\* A whole book with one order more.
InsertedWhole(p, i, F, R, x, after) ==
  /\ Whole(after.pool, after.book, i, F, R \cup {x})
  /\ \A y \in Slot \ (R \cup {x}) : after.pool.data[y] = p.data[y]
  /\ \A y \in R \cup {x} : /\ SameOrder(after.pool.data[y], p.data[y])
                           /\ after.pool.data[y].remaining = p.data[y].remaining

\* insert_limit keeps a whole book whole.
LEMMA InsertKeepsWhole ==
  ASSUME NEW p, NEW book, NEW i, NEW F, NEW R, Whole(p, book, i, F, R),
         NEW x \in Slot, x \notin R, x \notin F,
         p.data[x].next = NullOrder, p.data[x].prev = NullOrder,
         p.data[x].instrument = i, p.data[x].remaining > 0,
         \A y \in R : p.data[y].sequence < p.data[x].sequence,
         Clear(p.data, R, p.data[x].side, p.data[x].price),
         ~KeyReuse => \A y \in R : KeyOf(p.data[y]) # KeyOf(p.data[x]),
         NEW st, st = [pool |-> p, book |-> book],
         NEW after, after = InsertLimit(st, x)
  PROVE  InsertedWhole(p, i, F, R, x, after)
<1>1. PICK data, new, T : data = p.data /\ new = after.pool.data /\ T = R \cup {x}
  OBVIOUS
<1>2. /\ PoolOK(p, F) /\ LevelsOK(data, book.levels, R) /\ (\A y \in R : data[y].instrument = i)
      /\ Live(data, R) /\ Uncrossed(data, R) /\ (~KeyReuse => AllKnown(data, book, R)) /\ F \cap R = {}
      /\ \A key \in DOMAIN book.orderMap : book.orderMap[key] \in R /\ KeyOf(data[book.orderMap[key]]) = key
  BY <1>1 DEF Whole, BookOK
<1>3. Inserted(p, book, F, R, x, after)
  <2>1. /\ PoolOK(p, F) /\ LevelsOK(p.data, book.levels, R) /\ x \in Slot /\ x \notin R /\ x \notin F /\ R \cap F = {}
        /\ p.data[x].next = NullOrder /\ p.data[x].prev = NullOrder
        /\ st = [pool |-> p, book |-> book] /\ after = InsertLimit(st, x)
    BY <1>1, <1>2
  <2>2. \A y \in R : p.data[y].sequence < p.data[x].sequence
    OBVIOUS
  <2> QED BY ONLY <2>1, <2>2, InsertWorks
<1>4. \A y \in T : /\ SameOrder(new[y], data[y]) /\ KeyOf(new[y]) = KeyOf(data[y])
                   /\ new[y].remaining = data[y].remaining
                   /\ new[y].instrument = data[y].instrument /\ new[y].side = data[y].side
                   /\ new[y].price = data[y].price
  <2>1. \A y \in T : SameOrder(new[y], data[y]) /\ new[y].remaining = data[y].remaining
    BY <1>1, <1>3 DEF Inserted
  <2> QED BY <2>1, SameName DEF SameOrder
<1>5. PICK map, key0 : map = after.book.orderMap /\ key0 = KeyOf(data[x])
  OBVIOUS
<1>6. /\ DOMAIN map = DOMAIN book.orderMap \cup {key0} /\ map[key0] = x
      /\ \A key \in DOMAIN book.orderMap \ {key0} : map[key] = book.orderMap[key]
  <2>1. map = Put(book.orderMap, key0, x)
    BY <1>1, <1>3, <1>5 DEF Inserted
  <2> QED BY <2>1 DEF Put
<1>7. \A key \in DOMAIN map : map[key] \in T /\ KeyOf(new[map[key]]) = key
  <2> SUFFICES ASSUME NEW key \in DOMAIN map PROVE map[key] \in T /\ KeyOf(new[map[key]]) = key
    OBVIOUS
  <2>1. CASE key = key0
    <3>1. x \in T
      BY <1>1
    <3> QED BY <1>4, <1>5, <1>6, <2>1, <3>1
  <2>2. CASE key # key0
    <3>1. map[key] = book.orderMap[key] /\ map[key] \in R /\ KeyOf(data[map[key]]) = key
      BY <1>2, <1>6, <2>2
    <3>2. map[key] \in T
      BY <1>1, <3>1
    <3> QED BY <1>4, <3>1, <3>2
  <2> QED BY <2>1, <2>2
<1>8. BookOK(new, after.book, i, T)
  <2>1. \A y \in T : new[y].instrument = i
    BY <1>1, <1>2, <1>4
  <2>2. LevelsOK(new, after.book.levels, T) /\ after.book = [levels |-> after.book.levels, orderMap |-> after.book.orderMap]
    BY <1>1, <1>3 DEF Inserted
  <2> QED BY <1>5, <1>7, <2>1, <2>2 DEF BookOK
<1>9. Live(new, T)
  BY <1>1, <1>2, <1>4 DEF Live
<1>10. Uncrossed(new, T)
  <2> SUFFICES ASSUME NEW y \in T, NEW z \in T, new[y].side = "Buy", new[z].side = "Sell" PROVE new[y].price < new[z].price
    BY DEF Uncrossed
  <2>1. data[y].side = "Buy" /\ data[z].side = "Sell" /\ new[y].price = data[y].price /\ new[z].price = data[z].price
    BY <1>4
  <2>2. CASE y \in R /\ z \in R
    BY <1>2, <2>1, <2>2 DEF Uncrossed
  <2>3. CASE y = x
    <3>1. z \in R
      BY <1>1, <2>1, <2>3
    <3> QED BY <1>1, <2>1, <2>3, <3>1 DEF Clear
  <2>4. CASE z = x
    <3>1. y \in R
      BY <1>1, <2>1, <2>4
    <3> QED BY <1>1, <2>1, <2>4, <3>1 DEF Clear
  <2> QED BY <1>1, <2>2, <2>3, <2>4
<1>11. ~KeyReuse => AllKnown(new, after.book, T)
  <2> SUFFICES ASSUME ~KeyReuse, NEW y \in T PROVE KeyOf(new[y]) \in DOMAIN map /\ map[KeyOf(new[y])] = y
    BY <1>5 DEF AllKnown
  <2>1. CASE y = x
    BY <1>4, <1>5, <1>6, <2>1
  <2>2. CASE y # x
    <3>1. y \in R
      BY <1>1, <2>2
    <3>2. KeyOf(data[y]) # key0
      BY <1>1, <1>5, <3>1
    <3>3. KeyOf(data[y]) \in DOMAIN book.orderMap /\ book.orderMap[KeyOf(data[y])] = y
      BY <1>2, <3>1 DEF AllKnown
    <3> QED BY <1>4, <1>6, <3>2, <3>3
  <2> QED BY <2>1, <2>2
<1>12. F \cap T = {}
  BY <1>1, <1>2
<1>13. Whole(after.pool, after.book, i, F, T)
  <2>1. PoolOK(after.pool, F)
    BY <1>3 DEF Inserted
  <2> QED BY <1>1, <1>8, <1>9, <1>10, <1>11, <1>12, <2>1 DEF Whole
<1>14. \A y \in Slot \ (R \cup {x}) : new[y] = data[y]
  BY <1>1, <1>3 DEF Inserted
<1> QED BY <1>1, <1>4, <1>13, <1>14 DEF InsertedWhole

\* Matching keeps a whole book whole, whatever it takes out of it.
MatchedWhole(p, i, F, R, idx, after, T) ==
  /\ Kept(p.data, after.pool.data, idx, R, T)
  /\ Whole(after.pool, after.book, i, F \cup (R \ T), T)

\* After a round nothing remains of the incoming order, or a resting one has gone.
Progress(R, idx, after, T) == after.pool.data[idx].remaining = 0 \/ \E y \in R : T = R \ {y}

\* What a round trades: all that the incoming order and the head of the best level have in common.
Trading(run, R, idx, after, T) ==
  LET data == run.pool.data
      new  == after.pool.data
      y    == BestHead(run.book, Opposite(data[idx].side))
      q    == Min({data[idx].remaining, data[y].remaining})
  IN  /\ y \in R /\ T = (IF data[y].remaining = q THEN R \ {y} ELSE R)
      /\ new[idx].remaining = data[idx].remaining - q
      /\ \A z \in T : new[z].remaining = IF z = y THEN data[z].remaining - q ELSE data[z].remaining

\* One round of the matching loop uses up the incoming order or takes away a resting one.
LEMMA FillKeeps ==
  ASSUME NEW run, NEW i, NEW F, NEW R, Whole(run.pool, run.book, i, F, R),
         NEW idx \in Slot, idx \notin R, idx \notin F, CanFill(run, idx),
         NEW after, after = Fill(run, idx)
  PROVE  \E T : /\ MatchedWhole(run.pool, i, F, R, idx, after, T) /\ Progress(R, idx, after, T)
               /\ Trading(run, R, idx, after, T)
<1>1. PICK p, book, data, o, side : p = run.pool /\ book = run.book /\ data = p.data /\ o = data[idx] /\ side = Opposite(o.side)
  OBVIOUS
<1>2. /\ PoolOK(p, F) /\ BookOK(data, book, i, R) /\ LevelsOK(data, book.levels, R) /\ (\A y \in R : data[y].instrument = i)
      /\ Live(data, R) /\ Uncrossed(data, R) /\ (~KeyReuse => AllKnown(data, book, R)) /\ F \cap R = {}
      /\ book = [levels |-> book.levels, orderMap |-> book.orderMap]
      /\ \A key \in DOMAIN book.orderMap : book.orderMap[key] \in R /\ KeyOf(data[book.orderMap[key]]) = key
  BY <1>1 DEF Whole, BookOK
<1>3. Records(data) /\ R \subseteq Slot
  BY <1>1, <1>2 DEF PoolOK, Records, LevelsOK
<1>4. side \in Side /\ DOMAIN book.levels[side] # {} /\ o.remaining > 0
  <2>1. side \in Side
    BY <1>1 DEF Opposite, Side
  <2> QED BY <1>1, <2>1 DEF CanFill
<1>5. PICK best, y : best = BestPrice(book, side) /\ y = BestHead(book, side)
  OBVIOUS
<1>6. best \in DOMAIN book.levels[side]
  BY <1>2, <1>3, <1>4, <1>5, BestIsBest
<1>7. y = book.levels[side][best].head
  BY <1>5 DEF BestHead
<1>8. LevelOK(data, book.levels[side][best], At(data, R, side, best))
  BY <1>2, <1>4, <1>6 DEF LevelsOK
<1>9. y \in At(data, R, side, best)
  BY <1>7, <1>8, LevelEnds
<1>10. y \in R /\ y \in Slot
  BY <1>3, <1>9 DEF At
<1>11. PICK rest, q : rest = data[y] /\ q = Min({o.remaining, rest.remaining})
  OBVIOUS
<1>12. /\ o.remaining \in Nat /\ rest.remaining \in Nat
       /\ q \in Nat /\ q <= o.remaining /\ q <= rest.remaining /\ (q = o.remaining \/ q = rest.remaining)
  <2>1. o.remaining \in Nat /\ rest.remaining \in Nat
    BY <1>1, <1>3, <1>10, <1>11, RecordFields
  <2> QED BY <1>11, <2>1, SmallerOfTwo
<1>13. PICK pool2, book2 : pool2 = Filled(p, idx, y, q) /\ book2 = LessVolume(book, rest.side, rest.price, q)
  OBVIOUS
<1>14. FilledInPlace(p, book, F, R, idx, y, q, pool2, book2)
  <2>1. /\ PoolOK(p, F) /\ LevelsOK(p.data, book.levels, R) /\ book = [levels |-> book.levels, orderMap |-> book.orderMap]
        /\ R \cap F = {} /\ idx \in Slot /\ idx \notin R /\ idx \notin F /\ y \in R
    BY <1>1, <1>2, <1>10
  <2>2. q \in Nat /\ q <= p.data[idx].remaining /\ q <= p.data[y].remaining
    BY <1>1, <1>11, <1>12
  <2>3. rest.side = p.data[y].side /\ rest.price = p.data[y].price
    BY <1>1, <1>11
  <2> QED BY ONLY <1>13, <2>1, <2>2, <2>3, FillWorks
<1>15. PICK mid, st, left :
         /\ mid = pool2.data /\ st = [pool |-> pool2, book |-> book2]
         /\ left = IF rest.remaining = q THEN RemoveOrder(st, y) ELSE st
  OBVIOUS
<1>16. after.pool = left.pool /\ after.book = left.book
  <2> DEFINE O == run.pool.data[idx]
             Y == BestHead(run.book, Opposite(O.side))
             Rest == run.pool.data[Y]
             Q == Min({O.remaining, Rest.remaining})
             St == [pool |-> [run.pool EXCEPT !.data[idx].remaining = @ - Q, !.data[Y].remaining = @ - Q],
                    book |-> [run.book EXCEPT !.levels[Rest.side][Rest.price].volume = SaturatingSub(@, Q)]]
             Left == IF Rest.remaining = Q THEN RemoveOrder(St, Y) ELSE St
  <2>1. \E trades : Fill(run, idx) = [pool |-> Left.pool, book |-> Left.book, trades |-> trades]
    BY DEF Fill
  <2>2. O = o /\ Y = y
    BY <1>1, <1>5
  <2>3. Rest = rest /\ Q = q
    BY <1>1, <1>11, <2>2
  <2>4. St = [pool |-> Filled(p, idx, Y, Q), book |-> LessVolume(book, Rest.side, Rest.price, Q)]
    BY <1>1 DEF Filled, LessVolume
  <2>5. St = st
    <3> HIDE DEF Q, Rest, Y
    <3> QED BY <1>13, <1>15, <2>2, <2>3, <2>4
  <2>6. Left = left
    <3> HIDE DEF St, Q, Rest, Y
    <3> QED BY <1>15, <2>2, <2>3, <2>5
  <2> HIDE DEF Left
  <2> QED BY <2>1, <2>6
<1>17. /\ \A z \in Slot : /\ SameOrder(mid[z], data[z]) /\ KeyOf(mid[z]) = KeyOf(data[z])
                          /\ mid[z].next = data[z].next /\ mid[z].prev = data[z].prev
                          /\ mid[z].instrument = data[z].instrument /\ mid[z].side = data[z].side
                          /\ mid[z].price = data[z].price
                          /\ z # idx /\ z # y => mid[z] = data[z]
       /\ mid[idx].remaining = o.remaining - q /\ mid[y].remaining = rest.remaining - q
  <2>1. \A z \in Slot : /\ SameOrder(mid[z], data[z])
                        /\ mid[z].next = data[z].next /\ mid[z].prev = data[z].prev
                        /\ z # idx /\ z # y => mid[z] = data[z]
    BY <1>1, <1>14, <1>15 DEF FilledInPlace
  <2>2. mid[idx].remaining = o.remaining - q /\ mid[y].remaining = rest.remaining - q
    BY <1>1, <1>11, <1>14, <1>15 DEF FilledInPlace
  <2>3. \A z \in Slot : KeyOf(mid[z]) = KeyOf(data[z])
    BY <2>1, SameName
  <2> QED BY <2>1, <2>2, <2>3 DEF SameOrder
<1>18. /\ PoolOK(pool2, F) /\ LevelsOK(mid, book2.levels, R) /\ book2.orderMap = book.orderMap
       /\ book2 = [levels |-> book2.levels, orderMap |-> book2.orderMap]
  BY <1>14, <1>15 DEF FilledInPlace
<1>19. BookOK(mid, book2, i, R)
  <2>1. \A z \in R : mid[z].instrument = i
    BY <1>2, <1>3, <1>17
  <2>2. \A key \in DOMAIN book2.orderMap : book2.orderMap[key] \in R /\ KeyOf(mid[book2.orderMap[key]]) = key
    BY <1>2, <1>3, <1>17, <1>18
  <2> QED BY <1>18, <2>1, <2>2 DEF BookOK
<1>20. Uncrossed(mid, R)
  <2>1. \A z \in R : mid[z].side = data[z].side /\ mid[z].price = data[z].price
    BY <1>3, <1>17
  <2> QED BY <1>2, <2>1 DEF Uncrossed
<1>21. ~KeyReuse => AllKnown(mid, book2, R)
  <2>1. \A z \in R : KeyOf(mid[z]) = KeyOf(data[z])
    BY <1>3, <1>17
  <2> QED BY <1>2, <1>18, <2>1 DEF AllKnown
<1>22. Live(mid, R \ {y})
  <2>1. \A z \in R \ {y} : mid[z] = data[z]
    BY <1>3, <1>17
  <2> QED BY <1>2, <2>1 DEF Live
<1>23. Kept(data, mid, idx, R, R)
  <2>1. \A z \in Slot \ (R \cup {idx}) : mid[z] = data[z]
    BY <1>10, <1>17
  <2>2. \A z \in R \cup {idx} : SameOrder(mid[z], data[z])
    BY <1>3, <1>17
  <2> QED BY <1>17, <2>1, <2>2 DEF Kept
<1>24. CASE rest.remaining = q
  <2>1. left = RemoveOrder(st, y)
    BY <1>15, <1>24
  <2>2. /\ Whole(left.pool, left.book, i, F \cup {y}, R \ {y})
        /\ Kept(pool2.data, left.pool.data, idx, R, R \ {y})
        /\ left.pool.data[idx] = mid[idx]
        /\ \A z \in R \ {y} : left.pool.data[z].remaining = mid[z].remaining
    <3>1. /\ PoolOK(pool2, F) /\ BookOK(pool2.data, book2, i, R) /\ y \in R /\ Live(pool2.data, R \ {y})
          /\ Uncrossed(pool2.data, R) /\ (~KeyReuse => AllKnown(pool2.data, book2, R)) /\ F \cap R = {}
          /\ idx \in Slot /\ idx \notin R /\ st = [pool |-> pool2, book |-> book2]
      BY <1>2, <1>10, <1>15, <1>18, <1>19, <1>20, <1>21, <1>22
    <3>2. RemovedWhole(pool2, i, F, R, y, idx, left)
      BY ONLY <2>1, <3>1, RemoveKeepsWhole
    <3> QED BY <1>15, <3>2 DEF RemovedWhole
  <2>3. Kept(data, left.pool.data, idx, R, R \ {y})
    <3>1. Kept(mid, left.pool.data, idx, R, R \ {y})
      BY <1>15, <2>2
    <3> QED BY <1>3, <1>23, <3>1, KeptTwice
  <2>4. R \ (R \ {y}) = {y}
    BY <1>10
  <2>5. Whole(left.pool, left.book, i, F \cup (R \ (R \ {y})), R \ {y})
    BY <2>2, <2>4
  <2>6. \E z \in R : R \ {y} = R \ {z}
    BY <1>10
  <2>7. /\ left.pool.data[idx].remaining = o.remaining - q
        /\ \A z \in R \ {y} : z # y /\ left.pool.data[z].remaining = data[z].remaining
    <3>1. \A z \in R \ {y} : z # y /\ mid[z] = data[z]
      BY <1>3, <1>17
    <3> QED BY <1>17, <2>2, <3>1
  <2>8. Trading(run, R, idx, after, R \ {y})
    BY <1>1, <1>5, <1>10, <1>11, <1>16, <1>24, <2>7, ZenonT(40) DEF Trading
  <2> QED BY <1>1, <1>16, <2>3, <2>5, <2>6, <2>8 DEF MatchedWhole, Progress
<1>25. CASE rest.remaining # q
  <2>1. left.pool = pool2 /\ left.book = book2
    BY <1>15, <1>25
  <2>2. mid[idx].remaining = 0 /\ mid[y].remaining > 0
    BY <1>12, <1>17, <1>25
  <2>3. Live(mid, R)
    BY <1>22, <2>2 DEF Live
  <2>4. Whole(pool2, book2, i, F, R)
    BY <1>2, <1>15, <1>18, <1>19, <1>20, <1>21, <2>3 DEF Whole
  <2>5. F \cup (R \ R) = F
    OBVIOUS
  <2>6. Whole(left.pool, left.book, i, F \cup (R \ R), R)
    BY <2>1, <2>4, <2>5
  <2>7. left.pool.data = mid
    BY <1>15, <2>1
  <2>8. \A z \in R : mid[z].remaining = IF z = y THEN data[z].remaining - q ELSE data[z].remaining
    <3>1. \A z \in R : z # y => mid[z] = data[z]
      BY <1>3, <1>17
    <3> QED BY <1>11, <1>17, <3>1
  <2>9. Trading(run, R, idx, after, R)
    <3>1. /\ left.pool.data[idx].remaining = o.remaining - q
          /\ \A z \in R : left.pool.data[z].remaining = IF z = y THEN data[z].remaining - q ELSE data[z].remaining
      BY <1>17, <2>7, <2>8
    <3>2. R = IF data[y].remaining = q THEN R \ {y} ELSE R
      BY <1>11, <1>25
    <3> QED BY <1>1, <1>5, <1>10, <1>11, <1>16, <3>1, <3>2, ZenonT(40) DEF Trading
  <2> QED BY <1>1, <1>16, <1>23, <2>2, <2>6, <2>7, <2>9 DEF MatchedWhole, Progress
<1> QED BY <1>24, <1>25

\* The rounds of the matching loop, one after the other.
Rounds(g, st, idx, n) ==
  g = [k \in 0..n |-> IF k = 0 THEN [pool |-> st.pool, book |-> st.book, trades |-> <<>>]
                      ELSE Round(g[k - 1], idx)]

\* There are such rounds, by induction on their number.
LEMMA RoundsExist ==
  ASSUME NEW st, NEW idx, NEW n \in Nat
  PROVE  \E g : Rounds(g, st, idx, n)
<1> DEFINE Some == {m \in Nat : \E g : Rounds(g, st, idx, m)}
<1>1. PICK first : first = [pool |-> st.pool, book |-> st.book, trades |-> <<>>]
  OBVIOUS
<1>2. 0 \in Some
  <2>1. PICK g : g = [k \in 0..0 |-> first]
    OBVIOUS
  <2>2. \A k \in 0..0 : k = 0
    OBVIOUS
  <2>3. Rounds(g, st, idx, 0)
    BY <1>1, <2>1, <2>2 DEF Rounds
  <2> QED BY <2>3
<1>3. ASSUME NEW m \in Nat, m \in Some PROVE m + 1 \in Some
  <2>1. PICK g : Rounds(g, st, idx, m)
    BY <1>3
  <2>2. PICK h : h = [k \in 0..(m + 1) |-> IF k = m + 1 THEN Round(g[m], idx) ELSE g[k]]
    OBVIOUS
  <2>3. ASSUME NEW k \in 0..(m + 1) PROVE h[k] = IF k = 0 THEN first ELSE Round(h[k - 1], idx)
    <3>1. CASE k = m + 1
      <4>1. k # 0 /\ k - 1 = m /\ m \in 0..(m + 1) /\ m # m + 1
        BY <3>1
      <4>2. h[k] = Round(g[m], idx) /\ h[m] = g[m]
        BY <2>2, <3>1, <4>1
      <4> QED BY <4>1, <4>2
    <3>2. CASE k # m + 1
      <4>1. k \in 0..m /\ h[k] = g[k]
        BY <2>2, <3>2
      <4>2. g[k] = IF k = 0 THEN first ELSE Round(g[k - 1], idx)
        BY <1>1, <2>1, <4>1 DEF Rounds
      <4>3. k # 0 => k - 1 \in 0..(m + 1) /\ k - 1 # m + 1
        BY <4>1
      <4>4. k # 0 => h[k - 1] = g[k - 1]
        BY <2>2, <4>3
      <4> QED BY <4>1, <4>2, <4>4
    <3> QED BY <3>1, <3>2
  <2>4. h = [k \in 0..(m + 1) |-> h[k]]
    BY <2>2
  <2>5. Rounds(h, st, idx, m + 1)
    BY <1>1, <2>3, <2>4 DEF Rounds
  <2> QED BY <2>5
<1>4. Nat \subseteq Some
  <2> HIDE DEF Some
  <2> QED BY <1>2, <1>3, Induction
<1> QED BY <1>4

\* Match returns what the last round leaves.
LEMMA MatchIsRounds ==
  ASSUME NEW st, NEW idx
  PROVE  \E g : Rounds(g, st, idx, MaxOrders) /\ Match(st, idx) = g[MaxOrders]
<1>1. PICK g : g = CHOOSE h : Rounds(h, st, idx, MaxOrders)
  OBVIOUS
<1>2. Rounds(g, st, idx, MaxOrders)
  <2>1. \E h : Rounds(h, st, idx, MaxOrders)
    BY RoundsExist, PoolAssumption
  <2> QED BY <1>1, <2>1
<1>3. Match(st, idx) = g[MaxOrders]
  BY <1>1 DEF Match, Rounds
<1> QED BY <1>2, <1>3

\* The loop ends when nothing is left to fill.
LEMMA MatchKeeps ==
  ASSUME NEW st, NEW i, NEW F, NEW R, Whole(st.pool, st.book, i, F, R),
         NEW idx \in Slot, idx \notin R, idx \notin F
  PROVE  \E T : MatchedWhole(st.pool, i, F, R, idx, Match(st, idx), T) /\ ~CanFill(Match(st, idx), idx)
<1>1. PICK g : Rounds(g, st, idx, MaxOrders) /\ Match(st, idx) = g[MaxOrders]
  BY MatchIsRounds
<1>2. MaxOrders \in Nat
  BY PoolAssumption
<1>3. R \subseteq Slot /\ IsFiniteSet(R) /\ Cardinality(R) \in Nat /\ Cardinality(R) <= MaxOrders - 1
  <2>1. R \subseteq Slot
    BY DEF Whole, BookOK, LevelsOK
  <2>2. IsFiniteSet(R) /\ Cardinality(R) <= Cardinality(Slot)
    BY <2>1, SlotsFinite, FS_Subset
  <2> QED BY <2>1, <2>2, SlotsFinite, FS_CardinalityType
<1> DEFINE Good(k, T) ==
             /\ MatchedWhole(st.pool, i, F, R, idx, g[k], T)
             /\ CanFill(g[k], idx) => Cardinality(T) + k <= Cardinality(R)
           Fine == {k \in Nat : k <= MaxOrders => \E T : Good(k, T)}
<1>4. 0 \in Fine
  <2>1. g[0].pool = st.pool /\ g[0].book = st.book
    <3>1. 0 \in 0..MaxOrders
      BY <1>2
    <3>2. g[0] = [pool |-> st.pool, book |-> st.book, trades |-> <<>>]
      BY <1>1, <3>1 DEF Rounds
    <3> QED BY <3>2
  <2>2. Kept(st.pool.data, st.pool.data, idx, R, R)
    <3>1. \A z : SameOrder(st.pool.data[z], st.pool.data[z])
      BY DEF SameOrder
    <3> QED BY <3>1 DEF Kept
  <2>3. F \cup (R \ R) = F
    OBVIOUS
  <2>4. MatchedWhole(st.pool, i, F, R, idx, g[0], R)
    BY <2>1, <2>2, <2>3 DEF MatchedWhole
  <2>5. Cardinality(R) + 0 <= Cardinality(R)
    BY <1>3
  <2>6. Good(0, R)
    BY <2>4, <2>5
  <2> QED BY <2>6
<1>5. ASSUME NEW k \in Nat, k \in Fine PROVE k + 1 \in Fine
  <2> SUFFICES ASSUME k + 1 <= MaxOrders PROVE \E T : Good(k + 1, T)
    OBVIOUS
  <2>1. PICK T : Good(k, T)
    BY <1>2, <1>5
  <2>2. g[k + 1] = Round(g[k], idx)
    <3>1. k + 1 \in 0..MaxOrders /\ k + 1 # 0 /\ (k + 1) - 1 = k
      BY <1>2
    <3> QED BY <1>1, <3>1 DEF Rounds
  <2>3. T \subseteq R /\ Kept(st.pool.data, g[k].pool.data, idx, R, T) /\ Whole(g[k].pool, g[k].book, i, F \cup (R \ T), T)
    BY <2>1 DEF MatchedWhole, Kept
  <2>4. CASE ~CanFill(g[k], idx)
    <3>1. g[k + 1] = g[k]
      BY <2>2, <2>4 DEF Round
    <3>2. MatchedWhole(st.pool, i, F, R, idx, g[k + 1], T) /\ ~CanFill(g[k + 1], idx)
      BY <2>1, <2>4, <3>1
    <3>3. Good(k + 1, T)
      BY <3>2
    <3> QED BY <3>3
  <2>5. CASE CanFill(g[k], idx)
    <3>1. PICK after : after = Fill(g[k], idx)
      OBVIOUS
    <3>2. g[k + 1] = after
      BY <2>2, <2>5, <3>1 DEF Round
    <3>3. idx \notin T /\ idx \notin F \cup (R \ T)
      BY <2>3
    <3>0. PICK U : MatchedWhole(g[k].pool, i, F \cup (R \ T), T, idx, after, U) /\ Progress(T, idx, after, U)
      <4>1. Whole(g[k].pool, g[k].book, i, F \cup (R \ T), T) /\ idx \in Slot
        BY <2>3
      <4>2. PICK run, G : run = g[k] /\ G = F \cup (R \ T)
        OBVIOUS
      <4>3. Whole(run.pool, run.book, i, G, T) /\ idx \in Slot /\ idx \notin T /\ idx \notin G
            /\ CanFill(run, idx) /\ after = Fill(run, idx)
        BY <2>5, <3>1, <3>3, <4>1, <4>2
      <4>4. \E U : MatchedWhole(run.pool, i, G, T, idx, after, U) /\ Progress(T, idx, after, U)
        BY ONLY <4>3, FillKeeps
      <4> QED BY <4>2, <4>4
    <3>4. /\ Kept(g[k].pool.data, after.pool.data, idx, T, U)
          /\ Whole(after.pool, after.book, i, (F \cup (R \ T)) \cup (T \ U), U)
      BY <3>0 DEF MatchedWhole
    <3>5. U \subseteq T
      BY <3>4 DEF Kept
    <3>6. Kept(st.pool.data, after.pool.data, idx, R, U)
      BY <1>3, <2>3, <3>4, KeptTwice
    <3>7. (F \cup (R \ T)) \cup (T \ U) = F \cup (R \ U)
      BY <2>3, <3>5
    <3>8. MatchedWhole(st.pool, i, F, R, idx, g[k + 1], U)
      BY <3>2, <3>4, <3>6, <3>7 DEF MatchedWhole
    <3>9. CanFill(g[k + 1], idx) => Cardinality(U) + (k + 1) <= Cardinality(R)
      <4>1. CASE after.pool.data[idx].remaining = 0
        <5>1. ~CanFill(g[k + 1], idx)
          BY <3>2, <4>1 DEF CanFill
        <5> QED BY <5>1
      <4>2. CASE after.pool.data[idx].remaining # 0
        <5>1. PICK y \in T : U = T \ {y}
          BY <3>0, <4>2 DEF Progress
        <5>2. IsFiniteSet(T) /\ Cardinality(T) \in Nat
          BY <1>3, <2>3, FS_Subset, FS_CardinalityType
        <5>3. Cardinality(U) = Cardinality(T) - 1
          BY <5>1, <5>2, FS_RemoveElement
        <5>4. Cardinality(T) + k <= Cardinality(R)
          BY <2>1, <2>5
        <5> QED BY <1>3, <5>2, <5>3, <5>4
      <4> QED BY <4>1, <4>2
    <3>10. Good(k + 1, U)
      BY <3>8, <3>9
    <3> QED BY <3>10
  <2> QED BY <2>4, <2>5
<1>6. Nat \subseteq Fine
  <2> HIDE DEF Fine
  <2> QED BY <1>4, <1>5, Induction
<1>7. PICK T : Good(MaxOrders, T)
  BY <1>2, <1>6
<1>8. ~CanFill(g[MaxOrders], idx)
  <2> SUFFICES ASSUME CanFill(g[MaxOrders], idx) PROVE FALSE
    OBVIOUS
  <2>1. Cardinality(T) + MaxOrders <= Cardinality(R)
    BY <1>7
  <2>2. T \subseteq R
    BY <1>7 DEF MatchedWhole, Kept
  <2>3. Cardinality(T) \in Nat
    BY <1>3, <2>2, FS_Subset, FS_CardinalityType
  <2> QED BY <1>2, <1>3, <2>1, <2>3
<1>9. MatchedWhole(st.pool, i, F, R, idx, g[MaxOrders], T)
  BY <1>7
<1> QED BY <1>1, <1>8, <1>9

-----------------------------------------------------------------------------
(***************************************************************************)
(* Processing a command, as one book sees it.                              *)
(***************************************************************************)
\* A book is whole as long as its own orders are what they were.
LEMMA WholeFrame ==
  ASSUME NEW p, NEW q, NEW book, NEW i, NEW F, NEW G, NEW R, Whole(p, book, i, F, R),
         PoolOK(q, G), \A z \in R : q.data[z] = p.data[z], G \cap R = {}
  PROVE  Whole(q, book, i, G, R)
<1>1. PICK data, new : data = p.data /\ new = q.data
  OBVIOUS
<1>2. /\ LevelsOK(data, book.levels, R) /\ (\A y \in R : data[y].instrument = i)
      /\ book = [levels |-> book.levels, orderMap |-> book.orderMap]
      /\ Live(data, R) /\ Uncrossed(data, R) /\ (~KeyReuse => AllKnown(data, book, R))
      /\ \A key \in DOMAIN book.orderMap : book.orderMap[key] \in R /\ KeyOf(data[book.orderMap[key]]) = key
  BY <1>1 DEF Whole, BookOK
<1>3. \A z \in R : new[z] = data[z]
  BY <1>1
<1>4. LevelsOK(new, book.levels, R)
  <2>1. \A z \in R : Untouched(new[z], data[z])
    BY <1>3 DEF Untouched, SameLinks
  <2> QED BY <1>2, <2>1, LevelsFrame
<1>5. BookOK(new, book, i, R)
  BY <1>2, <1>3, <1>4 DEF BookOK
<1>6. Live(new, R) /\ Uncrossed(new, R)
  BY <1>2, <1>3 DEF Live, Uncrossed
<1>7. ~KeyReuse => AllKnown(new, book, R)
  BY <1>2, <1>3 DEF AllKnown
<1> QED BY <1>1, <1>5, <1>6, <1>7 DEF Whole

\* Of a command in slot idx, F and R have become G and T.
Absorbed(p, i, F, R, idx, after, G, T) ==
  /\ Whole(after.pool, after.book, i, G, T)
  /\ T \subseteq R \cup {idx} /\ G \cup T = F \cup R \cup {idx}
  /\ \A z \in Slot \ (R \cup {idx}) : after.pool.data[z] = p.data[z]
  /\ \A z \in T : SameOrder(after.pool.data[z], p.data[z])

\* The slot of a command that leaves no order goes back to the pool.
LEMMA DeallocateAbsorbs ==
  ASSUME NEW p, NEW book, NEW i, NEW F, NEW R, Whole(p, book, i, F, R),
         NEW idx \in Slot, idx \notin R, idx \notin F
  PROVE  Absorbed(p, i, F, R, idx, [pool |-> Deallocate(p, idx), book |-> book], F \cup {idx}, R)
<1>1. PICK q : q = Deallocate(p, idx)
  OBVIOUS
<1>2. PoolOK(p, F) /\ R \subseteq Slot /\ F \cap R = {}
  BY DEF Whole, BookOK, LevelsOK
<1>3. PoolOK(q, F \cup {idx}) /\ \A z \in Slot \ {idx} : q.data[z] = p.data[z]
  BY <1>1, <1>2, DeallocateGives
<1>4. Whole(q, book, i, F \cup {idx}, R)
  <2>1. \A z \in R : q.data[z] = p.data[z]
    BY <1>2, <1>3
  <2>2. (F \cup {idx}) \cap R = {}
    BY <1>2
  <2> QED BY <1>3, <2>1, <2>2, WholeFrame
<1>5. \A z \in R : SameOrder(q.data[z], p.data[z])
  BY <1>2, <1>3 DEF SameOrder
<1>6. (F \cup {idx}) \cup R = F \cup R \cup {idx}
  OBVIOUS
<1> QED BY <1>1, <1>3, <1>4, <1>5, <1>6 DEF Absorbed

\* Two steps in a row.
LEMMA AbsorbedAfter ==
  ASSUME NEW p, NEW q, NEW i, NEW F, NEW R, NEW idx \in Slot, NEW after, NEW G, NEW T, NEW H, NEW U,
         R \subseteq Slot, T \subseteq R, G \cup T = F \cup R,
         \A z \in Slot \ (R \cup {idx}) : q.data[z] = p.data[z],
         \A z \in T \cup {idx} : SameOrder(q.data[z], p.data[z]),
         Absorbed(q, i, G, T, idx, after, H, U)
  PROVE  Absorbed(p, i, F, R, idx, after, H, U)
<1>1. U \subseteq T \cup {idx} /\ H \cup U = G \cup T \cup {idx}
  BY DEF Absorbed
<1>2. U \subseteq R \cup {idx} /\ H \cup U = F \cup R \cup {idx}
  BY <1>1
<1>3. \A z \in Slot \ (R \cup {idx}) : after.pool.data[z] = p.data[z]
  BY DEF Absorbed
<1>4. \A z \in U : SameOrder(after.pool.data[z], q.data[z]) /\ SameOrder(q.data[z], p.data[z])
  BY <1>1 DEF Absorbed
<1>5. \A z \in U : SameOrder(after.pool.data[z], p.data[z])
  BY <1>4 DEF SameOrder
<1> QED BY <1>2, <1>3, <1>5 DEF Absorbed

\* A cancel takes its order out, and its own slot goes back.
LEMMA CancelAbsorbs ==
  ASSUME NEW p, NEW book, NEW i, NEW F, NEW R, Whole(p, book, i, F, R),
         NEW idx \in Slot, idx \notin R, idx \notin F, NEW key, ContainsOrder(book, key),
         NEW st, st = CancelOrder([pool |-> p, book |-> book], key)
  PROVE  \E G, T : /\ Absorbed(p, i, F, R, idx, [pool |-> Deallocate(st.pool, idx), book |-> st.book], G, T)
                   /\ idx \notin T
<1>1. PICK y : y = book.orderMap[key]
  OBVIOUS
<1>2. /\ PoolOK(p, F) /\ BookOK(p.data, book, i, R) /\ Live(p.data, R) /\ Uncrossed(p.data, R)
      /\ (~KeyReuse => AllKnown(p.data, book, R)) /\ F \cap R = {} /\ R \subseteq Slot
  BY DEF Whole, BookOK, LevelsOK
<1>3. y \in R
  BY <1>1, <1>2 DEF BookOK, ContainsOrder
<1>4. RemovedWhole(p, i, F, R, y, idx, st)
  <2>1. Live(p.data, R \ {y})
    BY <1>2 DEF Live
  <2>2. PICK st0 : st0 = [pool |-> p, book |-> book]
    OBVIOUS
  <2>3. st = RemoveOrder(st0, y)
    BY <1>1, <2>2 DEF CancelOrder
  <2> QED BY ONLY <1>2, <1>3, <2>1, <2>2, <2>3, idx \in Slot, idx \notin R, RemoveKeepsWhole
<1>5. PICK q, b, G, T : q = st.pool /\ b = st.book /\ G = F \cup {y} /\ T = R \ {y}
  OBVIOUS
<1>6. Whole(q, b, i, G, T) /\ Kept(p.data, q.data, idx, R, T)
  BY <1>4, <1>5 DEF RemovedWhole
<1>7. idx \notin T /\ idx \notin G /\ T \subseteq R /\ G \cup T = F \cup R
  BY <1>3, <1>5
<1>8. Absorbed(q, i, G, T, idx, [pool |-> Deallocate(q, idx), book |-> b], G \cup {idx}, T)
  BY <1>6, <1>7, DeallocateAbsorbs
<1>9. Absorbed(p, i, F, R, idx, [pool |-> Deallocate(q, idx), book |-> b], G \cup {idx}, T)
  <2>1. \A z \in Slot \ (R \cup {idx}) : q.data[z] = p.data[z]
    BY <1>6 DEF Kept
  <2>2. \A z \in T \cup {idx} : SameOrder(q.data[z], p.data[z])
    BY <1>6 DEF Kept
  <2> QED BY <1>2, <1>7, <1>8, <2>1, <2>2, AbsorbedAfter
<1> QED BY <1>5, <1>7, <1>9

\* When the loop has ended, what remains of the order can rest at its price.
LEMMA ClearAfterMatch ==
  ASSUME NEW run, NEW i, NEW F, NEW R, Whole(run.pool, run.book, i, F, R), NEW idx \in Slot,
         ~CanFill(run, idx), run.pool.data[idx].remaining > 0
  PROVE  Clear(run.pool.data, R, run.pool.data[idx].side, run.pool.data[idx].price)
<1>1. PICK data, book, o, other : data = run.pool.data /\ book = run.book /\ o = data[idx] /\ other = Opposite(o.side)
  OBVIOUS
<1>2. Records(data) /\ LevelsOK(data, book.levels, R)
  BY <1>1 DEF Whole, BookOK, PoolOK, Records
<1>3. o.side \in Side /\ o.price \in Nat
  BY <1>1, <1>2, RecordFields
<1>4. other \in Side
  BY <1>1 DEF Opposite, Side
<1> SUFFICES ASSUME NEW y \in R, data[y].side # o.side
             PROVE  IF o.side = "Buy" THEN o.price < data[y].price ELSE data[y].price < o.price
  BY <1>1 DEF Clear
<1>5. data[y].side \in Side /\ data[y].price \in Nat /\ data[y].price \in DOMAIN book.levels[data[y].side]
  BY <1>2, LevelOfOrder
<1>6. data[y].side = other
  BY <1>1, <1>3, <1>5 DEF Opposite, Side
<1>7. DOMAIN book.levels[other] # {}
  BY <1>5, <1>6
<1>8. PICK best : best = BestPrice(book, other)
  OBVIOUS
<1>9. best \in Nat /\ IF other = "Buy" THEN best >= data[y].price ELSE best <= data[y].price
  BY <1>2, <1>4, <1>5, <1>6, <1>7, <1>8, BestIsBest
<1>10. ~Crosses(o.side, o.price, best)
  BY <1>1, <1>7, <1>8 DEF CanFill
<1>11. CASE o.side = "Buy"
  <2>1. other # "Buy"
    BY <1>1, <1>11 DEF Opposite
  <2> QED BY <1>3, <1>5, <1>9, <1>10, <1>11, <2>1 DEF Crosses
<1>12. CASE o.side # "Buy"
  <2>1. other = "Buy"
    BY <1>1, <1>3, <1>12 DEF Opposite, Side
  <2> QED BY <1>3, <1>5, <1>9, <1>10, <1>12, <2>1 DEF Crosses
<1> QED BY <1>11, <1>12

\* An order that comes in: whose it is, and that it is the last and the only one of its name.
Incoming(p, i, R, idx) ==
  /\ p.data[idx].next = NullOrder /\ p.data[idx].prev = NullOrder /\ p.data[idx].instrument = i
  /\ \A y \in R : p.data[y].sequence < p.data[idx].sequence
  /\ ~KeyReuse => \A y \in R : KeyOf(p.data[y]) # KeyOf(p.data[idx])

\* What is left of an incoming order rests in the book, or its slot goes back.
RestOrGone(st, idx) ==
  IF st.pool.data[idx].remaining > 0 THEN InsertLimit(st, idx)
  ELSE [st EXCEPT !.pool = Deallocate(st.pool, idx)]

\* That settles an order that nothing crosses any more.
LEMMA RestAbsorbs ==
  ASSUME NEW p, NEW book, NEW i, NEW F, NEW R, Whole(p, book, i, F, R),
         NEW idx \in Slot, idx \notin R, idx \notin F, Incoming(p, i, R, idx),
         p.data[idx].remaining > 0 => Clear(p.data, R, p.data[idx].side, p.data[idx].price),
         NEW st, st = [pool |-> p, book |-> book], NEW after, after = RestOrGone(st, idx)
  PROVE  \E G, T : Absorbed(p, i, F, R, idx, after, G, T)
<1>1. CASE p.data[idx].remaining > 0
  <2>1. after = InsertLimit(st, idx)
    BY <1>1 DEF RestOrGone
  <2>2. /\ p.data[idx].next = NullOrder /\ p.data[idx].prev = NullOrder
        /\ p.data[idx].instrument = i /\ p.data[idx].remaining > 0
        /\ Clear(p.data, R, p.data[idx].side, p.data[idx].price)
    BY <1>1 DEF Incoming
  <2>3. /\ \A y \in R : p.data[y].sequence < p.data[idx].sequence
        /\ ~KeyReuse => \A y \in R : KeyOf(p.data[y]) # KeyOf(p.data[idx])
    BY DEF Incoming
  <2>4. Whole(p, book, i, F, R) /\ idx \in Slot /\ idx \notin R /\ idx \notin F /\ st = [pool |-> p, book |-> book]
    OBVIOUS
  <2>5. InsertedWhole(p, i, F, R, idx, after)
    BY ONLY <2>1, <2>2, <2>3, <2>4, InsertKeepsWhole
  <2>6. Absorbed(p, i, F, R, idx, after, F, R \cup {idx})
    BY <2>5 DEF InsertedWhole, Absorbed
  <2> QED BY <2>6
<1>2. CASE ~(p.data[idx].remaining > 0)
  <2>1. after = [pool |-> Deallocate(p, idx), book |-> book]
    BY <1>2 DEF RestOrGone
  <2>2. Absorbed(p, i, F, R, idx, after, F \cup {idx}, R)
    BY <2>1, DeallocateAbsorbs
  <2> QED BY <2>2
<1> QED BY <1>1, <1>2

\* An incoming order is matched, and what remains of it rests.
LEMMA MatchAbsorbs ==
  ASSUME NEW st, NEW i, NEW F, NEW R, Whole(st.pool, st.book, i, F, R),
         NEW idx \in Slot, idx \notin R, idx \notin F, Incoming(st.pool, i, R, idx),
         NEW run, run = Match(st, idx),
         NEW after, after = RestOrGone([pool |-> run.pool, book |-> run.book], idx)
  PROVE  \E G, T : Absorbed(st.pool, i, F, R, idx, after, G, T)
<1>1. PICK U : MatchedWhole(st.pool, i, F, R, idx, run, U) /\ ~CanFill(run, idx)
  BY MatchKeeps
<1>2. PICK p, q, E : p = st.pool /\ q = run.pool /\ E = F \cup (R \ U)
  OBVIOUS
<1>3. Kept(p.data, q.data, idx, R, U) /\ Whole(q, run.book, i, E, U)
  BY <1>1, <1>2 DEF MatchedWhole
<1>4. U \subseteq R /\ idx \notin U /\ idx \notin E /\ E \cup U = F \cup R /\ R \subseteq Slot
  <2>1. R \subseteq Slot
    BY DEF Whole, BookOK, LevelsOK
  <2> QED BY <1>2, <1>3, <2>1 DEF Kept
<1>5. \A z \in U \cup {idx} : SameOrder(q.data[z], p.data[z]) /\ KeyOf(q.data[z]) = KeyOf(p.data[z])
  BY <1>3, SameName DEF Kept
<1>6. Incoming(q, i, U, idx)
  <2>1. q.data[idx].next = NullOrder /\ q.data[idx].prev = NullOrder
    BY <1>2, <1>3 DEF Kept, Incoming
  <2>2. q.data[idx].instrument = i
    BY <1>2, <1>5 DEF SameOrder, Incoming
  <2>3. \A y \in U : q.data[y].sequence < q.data[idx].sequence
    BY <1>2, <1>4, <1>5 DEF SameOrder, Incoming
  <2>4. ~KeyReuse => \A y \in U : KeyOf(q.data[y]) # KeyOf(q.data[idx])
    BY <1>2, <1>4, <1>5 DEF Incoming
  <2> QED BY <2>1, <2>2, <2>3, <2>4 DEF Incoming
<1>7. q.data[idx].remaining > 0 => Clear(q.data, U, q.data[idx].side, q.data[idx].price)
  BY <1>1, <1>2, <1>3, ClearAfterMatch
<1>8. PICK G, T : Absorbed(q, i, E, U, idx, after, G, T)
  <2>1. PICK mid : mid = [pool |-> q, book |-> run.book]
    OBVIOUS
  <2>2. after = RestOrGone(mid, idx)
    BY <1>2, <2>1
  <2>3. Whole(q, run.book, i, E, U) /\ idx \in Slot /\ idx \notin U /\ idx \notin E
    BY <1>3, <1>4
  <2> QED BY ONLY <1>6, <1>7, <2>1, <2>2, <2>3, RestAbsorbs
<1>9. Absorbed(p, i, F, R, idx, after, G, T)
  <2>1. \A z \in Slot \ (R \cup {idx}) : q.data[z] = p.data[z]
    BY <1>3 DEF Kept
  <2> QED BY <1>4, <1>5, <1>8, <2>1, AbsorbedAfter
<1> QED BY <1>2, <1>9

\* Only the kind of the order in idx has changed.
KindSet(p, book, i, F, R, idx, q) ==
  /\ Whole(q, book, i, F, R)
  /\ \A z \in Slot \ {idx} : q.data[z] = p.data[z]
  /\ SameOrder(q.data[idx], p.data[idx])
  /\ q.data[idx].next = p.data[idx].next /\ q.data[idx].prev = p.data[idx].prev

\* A replacement that becomes a new order leaves a whole book whole.
LEMMA KindKeepsWhole ==
  ASSUME NEW p, NEW book, NEW i, NEW F, NEW R, Whole(p, book, i, F, R),
         NEW idx \in Slot, idx \notin R, NEW q, q = [p EXCEPT !.data[idx].kind = "New"]
  PROVE  KindSet(p, book, i, F, R, idx, q)
<1>1. PICK data, o : data = p.data /\ o = [data[idx] EXCEPT !.kind = "New"]
  OBVIOUS
<1>2. PoolOK(p, F) /\ data \in [Slot -> OrderRecord] /\ F \cap R = {} /\ R \subseteq Slot
      /\ p = [data |-> data, freeHead |-> p.freeHead, allocatedCount |-> p.allocatedCount]
  BY <1>1 DEF Whole, PoolOK, BookOK, LevelsOK
<1>3. data[idx] \in OrderRecord
  BY <1>2
<1>4. o \in OrderRecord /\ SameOrder(o, data[idx]) /\ o.next = data[idx].next /\ o.prev = data[idx].prev
  BY <1>1, <1>3, SetKind
<1>5. PICK new : new = [data EXCEPT ![idx] = o]
  OBVIOUS
<1>6. q = [data |-> new, freeHead |-> p.freeHead, allocatedCount |-> p.allocatedCount]
  BY <1>1, <1>2, <1>5
<1>7. new \in [Slot -> OrderRecord] /\ new[idx] = o /\ \A z \in Slot \ {idx} : new[z] = data[z]
  BY <1>2, <1>4, <1>5
<1>8. \A z \in Slot : new[z].next = data[z].next
  BY <1>4, <1>7
<1>9. PoolOK(q, F)
  <2>1. F \subseteq Slot
    BY <1>2, FreeSlotsAre
  <2> QED BY <1>1, <1>2, <1>6, <1>7, <1>8, <2>1, PoolFrame
<1>10. q.data = new
  BY <1>6
<1>11. Whole(q, book, i, F, R)
  <2>1. \A z \in R : q.data[z] = p.data[z]
    BY <1>1, <1>2, <1>7, <1>10
  <2> QED BY <1>2, <1>9, <2>1, WholeFrame
<1> QED BY <1>1, <1>4, <1>7, <1>10, <1>11 DEF KindSet

\* A book without the order that an incoming one replaces.
Cleared(p, i, F, R, idx, before, G, T) ==
  /\ before = [pool |-> before.pool, book |-> before.book]
  /\ Whole(before.pool, before.book, i, G, T)
  /\ T \subseteq R /\ G \cup T = F \cup R /\ idx \notin G
  /\ \A z \in Slot \ R : before.pool.data[z] = p.data[z]
  /\ \A z \in T : SameOrder(before.pool.data[z], p.data[z])
  /\ ~KeyReuse => \A z \in T : KeyOf(p.data[z]) # KeyOf(p.data[idx])

\* An incoming order of its own, or one that replaces the only order of its name.
Arriving(p, book, i, R, idx) ==
  LET o == p.data[idx]
  IN  /\ o.next = NullOrder /\ o.prev = NullOrder /\ o.instrument = i
      /\ \A y \in R : p.data[y].sequence < o.sequence
      /\ o.kind = "Replace" => ContainsOrder(book, <<o.account, o.target>>)
      /\ ~KeyReuse => \A y \in R : KeyOf(p.data[y]) = KeyOf(o) => o.kind = "Replace" /\ o.target = o.clientOrderId

\* What a replacement does first takes its target out; a new order has none.
LEMMA CancelFirstClears ==
  ASSUME NEW p, NEW book, NEW i, NEW F, NEW R, Whole(p, book, i, F, R),
         NEW idx \in Slot, idx \notin R, idx \notin F, Arriving(p, book, i, R, idx),
         NEW before, before = CancelFirst([pool |-> p, book |-> book], idx)
  PROVE  \E G, T : Cleared(p, i, F, R, idx, before, G, T)
<1>1. PICK data, o : data = p.data /\ o = data[idx]
  OBVIOUS
<1>2. /\ PoolOK(p, F) /\ BookOK(p.data, book, i, R) /\ Live(p.data, R) /\ Uncrossed(p.data, R)
      /\ (~KeyReuse => AllKnown(p.data, book, R)) /\ F \cap R = {} /\ R \subseteq Slot
  BY DEF Whole, BookOK, LevelsOK
<1>3. CASE o.kind = "Replace"
  <2>1. PICK key, y : key = <<o.account, o.target>> /\ y = book.orderMap[key]
    OBVIOUS
  <2>2. y \in R
    BY <1>1, <1>2, <1>3, <2>1 DEF BookOK, ContainsOrder, Arriving
  <2>3. RemovedWhole(p, i, F, R, y, idx, before)
    <3>1. Live(p.data, R \ {y})
      BY <1>2 DEF Live
    <3>2. PICK st0 : st0 = [pool |-> p, book |-> book]
      OBVIOUS
    <3>3. before = RemoveOrder(st0, y)
      BY <1>1, <1>3, <2>1, <3>2 DEF CancelOrder, CancelFirst
    <3> QED BY ONLY <1>2, <2>2, <3>1, <3>2, <3>3, idx \in Slot, idx \notin R, RemoveKeepsWhole
  <2>4. PICK G, T : G = F \cup {y} /\ T = R \ {y}
    OBVIOUS
  <2>5. /\ before = [pool |-> before.pool, book |-> before.book]
        /\ Whole(before.pool, before.book, i, G, T)
        /\ Kept(p.data, before.pool.data, idx, R, T) /\ before.pool.data[idx] = p.data[idx]
    BY <2>3, <2>4 DEF RemovedWhole
  <2>6. T \subseteq R /\ G \cup T = F \cup R /\ idx \notin G
    BY <2>2, <2>4
  <2>7. \A z \in Slot \ R : before.pool.data[z] = p.data[z]
    BY <2>5 DEF Kept
  <2>8. \A z \in T : SameOrder(before.pool.data[z], p.data[z])
    BY <2>5 DEF Kept
  <2>9. ASSUME ~KeyReuse, NEW z \in T, KeyOf(p.data[z]) = KeyOf(p.data[idx]) PROVE FALSE
    <3>1. z \in R /\ z # y
      BY <2>4
    <3>2. o.target = o.clientOrderId
      BY <1>1, <2>9, <3>1 DEF Arriving
    <3>3. key = KeyOf(p.data[z])
      BY <1>1, <2>1, <2>9, <3>2 DEF KeyOf
    <3>4. book.orderMap[KeyOf(p.data[z])] = z
      BY <1>2, <2>9, <3>1 DEF AllKnown
    <3> QED BY <2>1, <3>1, <3>3, <3>4
  <2>10. Cleared(p, i, F, R, idx, before, G, T)
    BY <2>5, <2>6, <2>7, <2>8, <2>9 DEF Cleared
  <2> QED BY <2>10
<1>4. CASE o.kind # "Replace"
  <2>1. before = [pool |-> p, book |-> book]
    BY <1>1, <1>4 DEF CancelFirst
  <2>2. before = [pool |-> before.pool, book |-> before.book] /\ before.pool = p /\ before.book = book
    BY <2>1
  <2>3. \A z \in R : SameOrder(p.data[z], p.data[z])
    BY DEF SameOrder
  <2>4. ~KeyReuse => \A z \in R : KeyOf(p.data[z]) # KeyOf(p.data[idx])
    BY <1>1, <1>4 DEF Arriving
  <2>5. Cleared(p, i, F, R, idx, before, F, R)
    BY <2>2, <2>3, <2>4 DEF Cleared
  <2> QED BY <2>5
<1> QED BY <1>3, <1>4

\* An incoming order replaces, matches and rests, or its slot goes back.
LEMMA IncomingAbsorbs ==
  ASSUME NEW p, NEW book, NEW i, NEW F, NEW R, Whole(p, book, i, F, R),
         NEW idx \in Slot, idx \notin R, idx \notin F, Arriving(p, book, i, R, idx),
         NEW before, before = CancelFirst([pool |-> p, book |-> book], idx),
         NEW run, run = Match([before EXCEPT !.pool.data[idx].kind = "New"], idx),
         NEW after, after = RestOrGone([pool |-> run.pool, book |-> run.book], idx)
  PROVE  \E G, T : Absorbed(p, i, F, R, idx, after, G, T)
<1>1. PICK E, U : Cleared(p, i, F, R, idx, before, E, U)
  BY CancelFirstClears
<1>2. PICK mid, b : mid = before.pool /\ b = before.book
  OBVIOUS
<1>3. before = [pool |-> mid, book |-> b] /\ Whole(mid, b, i, E, U)
      /\ U \subseteq R /\ E \cup U = F \cup R /\ idx \notin E /\ idx \notin U
      /\ mid.data[idx] = p.data[idx]
  BY <1>1, <1>2 DEF Cleared
<1>4. PICK q : q = [mid EXCEPT !.data[idx].kind = "New"]
  OBVIOUS
<1>5. /\ Whole(q, b, i, E, U)
      /\ \A z \in Slot \ {idx} : q.data[z] = mid.data[z]
      /\ SameOrder(q.data[idx], mid.data[idx])
      /\ q.data[idx].next = mid.data[idx].next /\ q.data[idx].prev = mid.data[idx].prev
  <2>1. Whole(mid, b, i, E, U) /\ idx \in Slot /\ idx \notin U
    BY <1>3
  <2>2. KindSet(mid, b, i, E, U, idx, q)
    BY ONLY <1>4, <2>1, KindKeepsWhole
  <2> QED BY <2>2 DEF KindSet
<1>6. R \subseteq Slot
  BY DEF Whole, BookOK, LevelsOK
<1>7. \A z \in U \cup {idx} : SameOrder(q.data[z], p.data[z]) /\ KeyOf(q.data[z]) = KeyOf(p.data[z])
  <2>1. \A z \in U : q.data[z] = mid.data[z]
    BY <1>3, <1>5, <1>6
  <2>2. \A z \in U : SameOrder(q.data[z], p.data[z])
    BY <1>1, <1>2, <2>1 DEF Cleared
  <2>3. SameOrder(q.data[idx], p.data[idx])
    BY <1>3, <1>5
  <2> QED BY <2>2, <2>3, SameName
<1>8. Incoming(q, i, U, idx)
  <2>1. q.data[idx].next = NullOrder /\ q.data[idx].prev = NullOrder
    BY <1>3, <1>5 DEF Arriving
  <2>2. q.data[idx].instrument = i
    BY <1>7 DEF SameOrder, Arriving
  <2>3. \A y \in U : q.data[y].sequence < q.data[idx].sequence
    <3>1. \A y \in U : p.data[y].sequence < p.data[idx].sequence
      BY <1>3 DEF Arriving
    <3> QED BY <1>7, <3>1 DEF SameOrder
  <2>4. ~KeyReuse => \A y \in U : KeyOf(q.data[y]) # KeyOf(q.data[idx])
    <3>1. ~KeyReuse => \A y \in U : KeyOf(p.data[y]) # KeyOf(p.data[idx])
      BY <1>1 DEF Cleared
    <3> QED BY <1>7, <3>1
  <2> QED BY <2>1, <2>2, <2>3, <2>4 DEF Incoming
<1>9. PICK G, T : Absorbed(q, i, E, U, idx, after, G, T)
  <2>1. PICK st : st = [pool |-> q, book |-> b]
    OBVIOUS
  <2>2. [before EXCEPT !.pool.data[idx].kind = "New"] = st
    BY <1>3, <1>4, <2>1
  <2>3. run = Match(st, idx)
    BY <2>2
  <2>4. Whole(st.pool, st.book, i, E, U) /\ Incoming(st.pool, i, U, idx) /\ st.pool = q
    BY <1>5, <1>8, <2>1
  <2>5. after = RestOrGone([pool |-> run.pool, book |-> run.book], idx)
    OBVIOUS
  <2>6. \E G, T : Absorbed(st.pool, i, E, U, idx, after, G, T)
    BY ONLY <1>3, <2>3, <2>4, <2>5, idx \in Slot, MatchAbsorbs
  <2> QED BY <2>4, <2>6
<1>10. \A z \in Slot \ (R \cup {idx}) : q.data[z] = p.data[z]
  BY <1>1, <1>2, <1>5 DEF Cleared
<1>11. Absorbed(p, i, F, R, idx, after, G, T)
  BY <1>3, <1>6, <1>7, <1>9, <1>10, AbsorbedAfter
<1> QED BY <1>11

-----------------------------------------------------------------------------
(***************************************************************************)
(* The whole engine.                                                       *)
(***************************************************************************)
\* The commands in flight, in the order of their sequence numbers.
LineOK(data, line, next) ==
  /\ line \in Seq(Slot) /\ Distinct(line)
  /\ \A x \in Members(line) : /\ data[x].next = NullOrder /\ data[x].prev = NullOrder
                              /\ data[x].instrument \in Instrument /\ data[x].sequence < next
  /\ \A j, k \in DOMAIN line : j < k => data[line[j]].sequence < data[line[k]].sequence

\* Every slot is free, in flight or in one book.
Parts(F, M, R) ==
  /\ M \cap F = {} /\ \A i \in Instrument : M \cap R[i] = {}
  /\ F \cup M \cup UNION {R[i] : i \in Instrument} = Slot

\* What rests was accepted before what is in flight.
Earlier(data, M, R, next) ==
  \A i \in Instrument : \A y \in R[i] :
    data[y].sequence < next /\ \A x \in M : data[y].sequence < data[x].sequence

\* Of the orders on their way only a replacement of itself has the name of a resting one.
NamesApart(data, M, R) ==
  \A x \in M : data[x].kind # "Cancel" =>
    /\ \A y \in M : /\ data[y].kind # "Cancel" /\ data[y].instrument = data[x].instrument
                    /\ KeyOf(data[y]) = KeyOf(data[x])
                    => y = x
    /\ \A y \in R[data[x].instrument] : KeyOf(data[y]) = KeyOf(data[x]) =>
         data[x].kind = "Replace" /\ data[x].target = data[x].clientOrderId

\* Pool, books and line of an engine with the free slots F and the resting orders R[i].
EngineOK(p, bs, next, line, F, R) ==
  /\ PoolOK(p, F) /\ next \in Nat
  /\ DOMAIN bs = Instrument /\ DOMAIN R = Instrument
  /\ bs = [i \in Instrument |-> bs[i]]
  /\ \A i \in Instrument : Whole(p, bs[i], i, F, R[i])
  /\ LineOK(p.data, line, next)
  /\ Parts(F, Members(line), R)
  /\ Earlier(p.data, Members(line), R, next)
  /\ ~KeyReuse => NamesApart(p.data, Members(line), R)

\* The line without one of its commands.
LEMMA LineWithout ==
  ASSUME NEW data, NEW new, NEW line, NEW next, LineOK(data, line, next), NEW n \in DOMAIN line,
         \A x \in Members(line) \ {line[n]} : new[x] = data[x]
  PROVE  LineOK(new, Without(line, n), next) /\ Members(Without(line, n)) = Members(line) \ {line[n]}
<1>1. line \in Seq(Slot) /\ Distinct(line) /\ n \in 1..Len(line) /\ Len(line) \in Nat /\ DOMAIN line = 1..Len(line)
  BY DEF LineOK
<1>2. PICK s : s = Without(line, n)
  OBVIOUS
<1>3. s \in Seq(Slot) /\ Distinct(s) /\ Len(s) = Len(line) - 1 /\ Members(s) = Members(line) \ {line[n]}
  BY <1>1, <1>2, WithoutShape
<1>4. \A x \in Members(s) : x \in Members(line) /\ new[x] = data[x]
  BY <1>3
<1>5. ASSUME NEW j \in DOMAIN s, NEW k \in DOMAIN s, j < k PROVE new[s[j]].sequence < new[s[k]].sequence
  <2>1. j \in 1..(Len(line) - 1) /\ k \in 1..(Len(line) - 1) /\ s[j] \in Members(s) /\ s[k] \in Members(s)
    BY <1>1, <1>3 DEF Members
  <2>2. PICK u, v : u = (IF j < n THEN j ELSE j + 1) /\ v = (IF k < n THEN k ELSE k + 1)
    OBVIOUS
  <2>3. s[j] = line[u] /\ s[k] = line[v]
    BY <1>1, <1>2, <2>1, <2>2 DEF Without
  <2>4. u \in DOMAIN line /\ v \in DOMAIN line /\ u < v
    BY <1>1, <1>5, <2>1, <2>2
  <2>5. data[line[u]].sequence < data[line[v]].sequence
    BY <2>4 DEF LineOK
  <2> QED BY <1>4, <2>1, <2>3, <2>5
<1> QED BY <1>2, <1>3, <1>4, <1>5 DEF LineOK

\* The line with one command more.
LEMMA LineAppend ==
  ASSUME NEW data, NEW new, NEW line, NEW next \in Nat, LineOK(data, line, next),
         NEW x \in Slot, x \notin Members(line), \A y \in Members(line) : new[y] = data[y],
         new[x].next = NullOrder, new[x].prev = NullOrder, new[x].instrument \in Instrument,
         new[x].sequence = next, \A y \in Members(line) : data[y].sequence \in Nat
  PROVE  LineOK(new, Append(line, x), next + 1) /\ Members(Append(line, x)) = Members(line) \cup {x}
<1>1. line \in Seq(Slot) /\ Distinct(line) /\ Len(line) \in Nat /\ DOMAIN line = 1..Len(line)
  BY DEF LineOK
<1>2. PICK s, n : s = Append(line, x) /\ n = Len(line)
  OBVIOUS
<1>3. /\ s \in Seq(Slot) /\ Len(s) = n + 1 /\ DOMAIN s = 1..(n + 1) /\ s[n + 1] = x
      /\ \A k \in 1..n : s[k] = line[k]
  BY <1>1, <1>2
<1>4. \A k \in 1..n : line[k] \in Members(line)
  BY <1>1, <1>2 DEF Members
<1>5. Members(s) = Members(line) \cup {x}
  <2>1. ASSUME NEW k \in DOMAIN s PROVE s[k] \in Members(line) \cup {x}
    <3>1. CASE k = n + 1
      BY <1>3, <3>1
    <3>2. CASE k # n + 1
      <4>1. k \in 1..n
        BY <1>1, <1>2, <1>3, <3>2
      <4> QED BY <1>3, <1>4, <4>1
    <3> QED BY <3>1, <3>2
  <2>2. ASSUME NEW k \in DOMAIN line PROVE line[k] \in Members(s)
    <3>1. k \in DOMAIN s /\ s[k] = line[k]
      BY <1>1, <1>2, <1>3
    <3> QED BY <3>1 DEF Members
  <2>3. x \in Members(s)
    <3>1. n + 1 \in DOMAIN s
      BY <1>1, <1>2, <1>3
    <3> QED BY <1>3, <3>1 DEF Members
  <2>4. \A y \in Members(s) : y \in Members(line) \cup {x}
    BY <2>1 DEF Members
  <2>5. \A y \in Members(line) : y \in Members(s)
    <3>1. \A y \in Members(line) : \E k \in DOMAIN line : y = line[k]
      BY DEF Members
    <3> QED BY <2>2, <3>1
  <2> QED BY <2>3, <2>4, <2>5
<1>6. Distinct(s)
  <2> SUFFICES ASSUME NEW j \in DOMAIN s, NEW k \in DOMAIN s, s[j] = s[k] PROVE j = k
    BY DEF Distinct
  <2>1. CASE j \in 1..n /\ k \in 1..n
    BY <1>1, <1>2, <1>3, <2>1 DEF Distinct
  <2>2. CASE j \notin 1..n \/ k \notin 1..n
    <3>1. \A m \in DOMAIN s : m \notin 1..n => m = n + 1
      BY <1>1, <1>2, <1>3
    <3>2. \A m \in 1..n : s[m] # x
      BY <1>3, <1>4
    <3> QED BY <1>3, <2>2, <3>1, <3>2
  <2> QED BY <2>1, <2>2
<1>7. ASSUME NEW y \in Members(s)
      PROVE  /\ new[y].next = NullOrder /\ new[y].prev = NullOrder
             /\ new[y].instrument \in Instrument /\ new[y].sequence < next + 1
  <2>1. CASE y = x
    BY <2>1
  <2>2. CASE y # x
    <3>1. y \in Members(line) /\ new[y] = data[y]
      BY <1>5, <2>2
    <3>2. data[y].sequence < next /\ data[y].sequence \in Nat
      BY <3>1 DEF LineOK
    <3>3. data[y].sequence < next + 1
      BY <3>2
    <3> QED BY <3>1, <3>3 DEF LineOK
  <2> QED BY <2>1, <2>2
<1>8. ASSUME NEW j \in DOMAIN s, NEW k \in DOMAIN s, j < k PROVE new[s[j]].sequence < new[s[k]].sequence
  <2>1. j \in 1..n /\ k \in 1..(n + 1)
    BY <1>1, <1>2, <1>3, <1>8
  <2>2. s[j] = line[j] /\ line[j] \in Members(line) /\ new[s[j]] = data[line[j]]
    BY <1>3, <1>4, <2>1
  <2>3. CASE k = n + 1
    <3>1. data[line[j]].sequence < next
      BY <2>2 DEF LineOK
    <3> QED BY <1>3, <2>2, <2>3, <3>1
  <2>4. CASE k # n + 1
    <3>1. k \in 1..n
      BY <1>1, <1>2, <2>1, <2>4
    <3>2. s[k] = line[k] /\ line[k] \in Members(line) /\ new[s[k]] = data[line[k]]
      BY <1>3, <1>4, <3>1
    <3>3. data[line[j]].sequence < data[line[k]].sequence
      BY <1>1, <1>2, <1>8, <2>1, <3>1 DEF LineOK
    <3> QED BY <2>2, <3>2, <3>3
  <2> QED BY <2>3, <2>4
<1> QED BY <1>2, <1>3, <1>5, <1>6, <1>7, <1>8 DEF LineOK

\* g is f with another value at x.
Updated(f, x, value, g) == g = [f EXCEPT ![x] = value]

\* A command leaves the line, and F and the orders of its book become G and T.
LEMMA AbsorbStep ==
  ASSUME NEW p, NEW bs, NEW next, NEW line, NEW F, NEW R, EngineOK(p, bs, next, line, F, R),
         NEW n \in DOMAIN line, NEW idx, idx = line[n], NEW i, i = p.data[idx].instrument,
         NEW after, NEW G, NEW T, Absorbed(p, i, F, R[i], idx, after, G, T),
         idx \in T => n = 1 /\ p.data[idx].kind # "Cancel",
         NEW new, Updated(bs, i, after.book, new), NEW S, Updated(R, i, T, S),
         NEW rest, rest = Without(line, n)
  PROVE  EngineOK(after.pool, new, next, rest, G, S)
<1>1. PICK data, q, M : data = p.data /\ q = after.pool.data /\ M = Members(line)
  OBVIOUS
<1>2. /\ PoolOK(p, F) /\ next \in Nat /\ DOMAIN bs = Instrument /\ DOMAIN R = Instrument
      /\ \A j \in Instrument : Whole(p, bs[j], j, F, R[j])
      /\ LineOK(data, line, next) /\ Parts(F, M, R) /\ Earlier(data, M, R, next)
      /\ ~KeyReuse => NamesApart(data, M, R)
  BY <1>1 DEF EngineOK
<1>3. idx \in M /\ idx \in Slot /\ i \in Instrument
  BY <1>1, <1>2 DEF LineOK, Members
<1>4. /\ Whole(after.pool, after.book, i, G, T) /\ T \subseteq R[i] \cup {idx} /\ G \cup T = F \cup R[i] \cup {idx}
      /\ \A z \in Slot \ (R[i] \cup {idx}) : q[z] = data[z]
      /\ \A z \in T : SameOrder(q[z], data[z]) /\ KeyOf(q[z]) = KeyOf(data[z])
  <2>1. \A z \in T : SameOrder(q[z], data[z])
    BY <1>1 DEF Absorbed
  <2> QED BY <1>1, <2>1, SameName DEF Absorbed
<1>5. PoolOK(after.pool, G) /\ G \cap T = {}
  BY <1>4 DEF Whole
<1>6. S[i] = T /\ new[i] = after.book /\ DOMAIN S = Instrument /\ DOMAIN new = Instrument
      /\ \A j \in Instrument \ {i} : S[j] = R[j] /\ new[j] = bs[j]
  BY <1>2, <1>3 DEF Updated
<1>7. \A j \in Instrument : R[j] \subseteq Slot /\ \A y \in R[j] : data[y].instrument = j
  BY <1>1, <1>2 DEF Whole, BookOK, LevelsOK
<1>8. M \subseteq Slot /\ M \cap R[i] = {} /\ M \cap F = {}
  <2>1. M \subseteq Slot
    BY <1>1, <1>2 DEF LineOK, Members
  <2> QED BY <1>2, <1>3, <2>1 DEF Parts
<1>9. \A z \in M \ {idx} : q[z] = data[z]
  BY <1>4, <1>8
<1>10. \A j \in Instrument \ {i} : \A z \in R[j] : z \notin R[i] /\ z # idx /\ z \in Slot /\ q[z] = data[z]
  <2> SUFFICES ASSUME NEW j \in Instrument \ {i}, NEW z \in R[j] PROVE z \notin R[i] /\ z # idx /\ z \in Slot /\ q[z] = data[z]
    OBVIOUS
  <2>1. z \in Slot /\ z \notin R[i]
    BY <1>3, <1>7
  <2>2. z # idx
    BY <1>2, <1>3 DEF Parts
  <2> QED BY <1>4, <2>1, <2>2
<1>11. \A j \in Instrument \ {i} : F \cap R[j] = {}
  BY <1>2 DEF Whole
<1>12. \A j \in Instrument \ {i} : G \cap R[j] = {}
  <2>1. G \subseteq F \cup R[i] \cup {idx}
    BY <1>4
  <2> QED BY <1>10, <1>11, <2>1
<1>13. \A j \in Instrument : Whole(after.pool, new[j], j, G, S[j])
  <2> SUFFICES ASSUME NEW j \in Instrument \ {i} PROVE Whole(after.pool, new[j], j, G, S[j])
    BY <1>4, <1>6
  <2>1. Whole(p, bs[j], j, F, R[j]) /\ G \cap R[j] = {} /\ \A z \in R[j] : after.pool.data[z] = p.data[z]
    BY <1>1, <1>2, <1>10, <1>12
  <2> QED BY <1>5, <1>6, <2>1, WholeFrame
<1>14. LineOK(q, rest, next) /\ Members(rest) = M \ {idx}
  <2>1. \A x \in Members(line) \ {line[n]} : q[x] = data[x]
    BY <1>1, <1>9
  <2> QED BY <1>1, <1>2, <2>1, LineWithout
<1>15. Parts(G, M \ {idx}, S)
  <2>1. (M \ {idx}) \cap G = {}
    BY <1>4, <1>8
  <2>2. \A j \in Instrument : (M \ {idx}) \cap S[j] = {}
    <3>1. (M \ {idx}) \cap T = {}
      BY <1>4, <1>8
    <3> QED BY <1>2, <1>6, <3>1 DEF Parts
  <2>3. G \cup (M \ {idx}) \cup UNION {S[j] : j \in Instrument} = Slot
    <3>1. F \cup M \cup UNION {R[j] : j \in Instrument} = Slot
      BY <1>2 DEF Parts
    <3>2. \A z \in Slot : z \in G \/ z \in M \ {idx} \/ \E j \in Instrument : z \in S[j]
      <4> SUFFICES ASSUME NEW z \in Slot, z \notin G, z \notin M \ {idx} PROVE \E j \in Instrument : z \in S[j]
        OBVIOUS
      <4>1. CASE z \in T
        BY <1>3, <1>6, <4>1
      <4>2. CASE z \notin T
        <5>1. z \notin F /\ z \notin R[i] /\ z # idx
          BY <1>4, <4>2
        <5>2. z \notin M
          BY <5>1
        <5>3. PICK j \in Instrument : z \in R[j]
          BY <3>1, <5>1, <5>2
        <5>4. j # i
          BY <5>1, <5>3
        <5> QED BY <1>6, <5>3, <5>4
      <4> QED BY <4>1, <4>2
    <3>3. G \subseteq Slot
      BY <1>5, FreeSlotsAre
    <3>4. \A j \in Instrument : S[j] \subseteq Slot
      <4>1. T \subseteq Slot
        BY <1>3, <1>4, <1>7
      <4> QED BY <1>6, <1>7, <4>1
    <3> QED BY <1>8, <3>2, <3>3, <3>4
  <2> QED BY <2>1, <2>2, <2>3 DEF Parts
<1>16. Earlier(q, M \ {idx}, S, next)
  <2> SUFFICES ASSUME NEW j \in Instrument, NEW y \in S[j]
               PROVE  q[y].sequence < next /\ \A x \in M \ {idx} : q[y].sequence < q[x].sequence
    BY DEF Earlier
  <2>1. CASE y \in R[j]
    <3>1. q[y].sequence = data[y].sequence
      BY <1>4, <1>6, <1>10, <2>1 DEF SameOrder
    <3> QED BY <1>2, <1>9, <2>1, <3>1 DEF Earlier
  <2>2. CASE y \notin R[j]
    <3>1. j = i /\ y \in T /\ y = idx
      BY <1>4, <1>6, <2>2
    <3>2. q[y].sequence = data[idx].sequence /\ n = 1
      BY <1>4, <3>1 DEF SameOrder
    <3>3. data[idx].sequence < next
      BY <1>1, <1>2, <1>3 DEF LineOK
    <3>4. ASSUME NEW x \in M \ {idx} PROVE q[y].sequence < q[x].sequence
      <4>1. PICK k \in DOMAIN line : x = line[k]
        BY <1>1 DEF Members
      <4>2. k # n
        BY <4>1
      <4>3. n < k
        <5>1. line \in Seq(Slot)
          BY <1>2 DEF LineOK
        <5>2. k \in 1..Len(line) /\ Len(line) \in Nat
          BY <5>1
        <5> QED BY <3>2, <4>2, <5>2
      <4>4. data[line[n]].sequence < data[line[k]].sequence
        BY <1>2, <4>3 DEF LineOK
      <4> QED BY <1>9, <3>2, <4>1, <4>4
    <3> QED BY <3>2, <3>3, <3>4
  <2> QED BY <2>1, <2>2
<1>17. ~KeyReuse => NamesApart(q, M \ {idx}, S)
  <2> SUFFICES ASSUME ~KeyReuse, NEW x \in M \ {idx}, q[x].kind # "Cancel"
               PROVE  /\ \A y \in M \ {idx} : /\ q[y].kind # "Cancel" /\ q[y].instrument = q[x].instrument
                                              /\ KeyOf(q[y]) = KeyOf(q[x])
                                              => y = x
                      /\ \A y \in S[q[x].instrument] : KeyOf(q[y]) = KeyOf(q[x]) =>
                           q[x].kind = "Replace" /\ q[x].target = q[x].clientOrderId
    BY DEF NamesApart
  <2>1. NamesApart(data, M, R) /\ q[x] = data[x] /\ data[x].kind # "Cancel" /\ data[x].instrument \in Instrument
    BY <1>1, <1>2, <1>9 DEF LineOK
  <2>2. \A y \in M \ {idx} : /\ q[y].kind # "Cancel" /\ q[y].instrument = q[x].instrument
                             /\ KeyOf(q[y]) = KeyOf(q[x])
                             => y = x
    BY <1>9, <2>1 DEF NamesApart
  <2>3. PICK j : j = data[x].instrument
    OBVIOUS
  <2>4. ASSUME NEW y \in S[j], KeyOf(q[y]) = KeyOf(q[x]) PROVE data[x].kind = "Replace" /\ data[x].target = data[x].clientOrderId
    <3>1. CASE y \in R[j]
      <4>1. KeyOf(q[y]) = KeyOf(data[y])
        BY <1>4, <1>6, <1>10, <2>1, <2>3, <3>1
      <4> QED BY <2>1, <2>3, <2>4, <3>1, <4>1 DEF NamesApart
    <3>2. CASE y \notin R[j]
      <4>1. j = i /\ y \in T /\ y = idx
        BY <1>4, <1>6, <2>1, <2>3, <3>2
      <4>2. KeyOf(data[idx]) = KeyOf(data[x]) /\ data[idx].kind # "Cancel" /\ data[idx].instrument = data[x].instrument
        BY <1>1, <1>4, <2>1, <2>3, <2>4, <4>1
      <4>3. x = idx
        BY <1>3, <2>1, <4>2 DEF NamesApart
      <4> QED BY <4>3
    <3> QED BY <3>1, <3>2
  <2> QED BY <2>1, <2>2, <2>3, <2>4
<1>18. new = [j \in Instrument |-> new[j]]
  BY <1>2 DEF EngineOK, Updated
<1> QED BY <1>1, <1>2, <1>5, <1>6, <1>13, <1>14, <1>15, <1>16, <1>17, <1>18 DEF EngineOK

\* The name of a new command is that of no other on its way, and of no order but its target.
NameFits(data, M, R, order) ==
  order.kind # "Cancel" =>
    /\ \A y \in M : ~ /\ data[y].kind # "Cancel" /\ data[y].instrument = order.instrument
                      /\ KeyOf(data[y]) = KeyOf(order)
    /\ \A y \in R[order.instrument] : KeyOf(data[y]) = KeyOf(order) =>
         order.kind = "Replace" /\ order.target = order.clientOrderId

\* A command takes a free slot and joins the line.
LEMMA AcceptStep ==
  ASSUME NEW p, NEW bs, NEW next, NEW line, NEW F, NEW R, EngineOK(p, bs, next, line, F, R),
         CanAllocate(p), NEW order \in OrderRecord, order.next = NullOrder, order.prev = NullOrder,
         order.instrument \in Instrument, order.sequence = next,
         ~KeyReuse => NameFits(p.data, Members(line), R, order),
         NEW after, after = Allocate(p, order), NEW longer, longer = Append(line, p.freeHead)
  PROVE  EngineOK(after, bs, next + 1, longer, F \ {p.freeHead}, R)
<1>1. PICK data, q, M, x, G : data = p.data /\ q = after.data /\ M = Members(line) /\ x = p.freeHead /\ G = F \ {x}
  OBVIOUS
<1>2. /\ PoolOK(p, F) /\ next \in Nat /\ DOMAIN bs = Instrument /\ DOMAIN R = Instrument
      /\ bs = [i \in Instrument |-> bs[i]]
      /\ \A j \in Instrument : Whole(p, bs[j], j, F, R[j])
      /\ LineOK(data, line, next) /\ Parts(F, M, R) /\ Earlier(data, M, R, next)
      /\ ~KeyReuse => NamesApart(data, M, R)
  BY <1>1 DEF EngineOK
<1>3. x \in F /\ x \in Slot /\ PoolOK(after, G) /\ q = [data EXCEPT ![x] = order]
  BY <1>1, <1>2, AllocateTakes
<1>4. data \in [Slot -> OrderRecord]
  BY <1>1, <1>2 DEF PoolOK
<1>5. q[x] = order /\ \A z \in Slot \ {x} : q[z] = data[z]
  BY <1>3, <1>4
<1>6. M \subseteq Slot /\ x \notin M
  <2>1. M \subseteq Slot
    BY <1>1, <1>2 DEF LineOK, Members
  <2> QED BY <1>2, <1>3, <2>1 DEF Parts
<1>7. \A j \in Instrument : R[j] \subseteq Slot /\ x \notin R[j] /\ F \cap R[j] = {}
  BY <1>2, <1>3 DEF Whole, BookOK, LevelsOK
<1>8. (\A z \in M : q[z] = data[z]) /\ \A j \in Instrument : \A z \in R[j] : q[z] = data[z]
  BY <1>5, <1>6, <1>7
<1>9. \A j \in Instrument : Whole(after, bs[j], j, G, R[j])
  <2> SUFFICES ASSUME NEW j \in Instrument PROVE Whole(after, bs[j], j, G, R[j])
    OBVIOUS
  <2>1. Whole(p, bs[j], j, F, R[j]) /\ G \cap R[j] = {} /\ \A z \in R[j] : after.data[z] = p.data[z]
    BY <1>1, <1>2, <1>7, <1>8
  <2> QED BY <1>3, <2>1, WholeFrame
<1>10. \A z \in Slot : data[z].sequence \in Nat
  BY <1>4, RecordFields DEF Records
<1>11. LineOK(q, longer, next + 1) /\ Members(longer) = M \cup {x}
  <2>1. \A y \in Members(line) : q[y] = data[y] /\ data[y].sequence \in Nat
    BY <1>1, <1>6, <1>8, <1>10
  <2>2. q[x].next = NullOrder /\ q[x].prev = NullOrder /\ q[x].instrument \in Instrument /\ q[x].sequence = next
    BY <1>5
  <2>3. x \in Slot /\ x \notin Members(line) /\ next \in Nat /\ LineOK(data, line, next)
    BY <1>1, <1>2, <1>3, <1>6
  <2> QED BY <1>1, <2>1, <2>2, <2>3, LineAppend
<1>12. Parts(G, M \cup {x}, R)
  BY <1>1, <1>2, <1>3, <1>7 DEF Parts
<1>13. Earlier(q, M \cup {x}, R, next + 1)
  <2> SUFFICES ASSUME NEW j \in Instrument, NEW y \in R[j]
               PROVE  q[y].sequence < next + 1 /\ \A z \in M \cup {x} : q[y].sequence < q[z].sequence
    BY DEF Earlier
  <2>1. q[y] = data[y] /\ data[y].sequence \in Nat /\ data[y].sequence < next
    BY <1>2, <1>7, <1>8, <1>10 DEF Earlier
  <2>2. \A z \in M : data[y].sequence < data[z].sequence
    BY <1>2 DEF Earlier
  <2>3. data[y].sequence < next + 1
    BY <1>2, <2>1
  <2> QED BY <1>5, <1>8, <2>1, <2>2, <2>3
<1>14. ~KeyReuse => NamesApart(q, M \cup {x}, R)
  <2> SUFFICES ASSUME ~KeyReuse, NEW z \in M \cup {x}, q[z].kind # "Cancel"
               PROVE  /\ \A y \in M \cup {x} : /\ q[y].kind # "Cancel" /\ q[y].instrument = q[z].instrument
                                               /\ KeyOf(q[y]) = KeyOf(q[z])
                                               => y = z
                      /\ \A y \in R[q[z].instrument] : KeyOf(q[y]) = KeyOf(q[z]) =>
                           q[z].kind = "Replace" /\ q[z].target = q[z].clientOrderId
    BY DEF NamesApart
  <2>1. NamesApart(data, M, R) /\ NameFits(data, M, R, order)
    BY <1>1, <1>2
  <2>2. CASE z = x
    <3>1. q[z] = order
      BY <1>5, <2>2
    <3>2. \A y \in M : ~ /\ q[y].kind # "Cancel" /\ q[y].instrument = order.instrument
                         /\ KeyOf(q[y]) = KeyOf(order)
      BY <1>8, <2>1, <3>1 DEF NameFits
    <3>3. \A y \in R[order.instrument] : KeyOf(q[y]) = KeyOf(order) =>
            order.kind = "Replace" /\ order.target = order.clientOrderId
      BY <1>8, <2>1, <3>1 DEF NameFits
    <3> QED BY <2>2, <3>1, <3>2, <3>3
  <2>3. CASE z # x
    <3>1. z \in M /\ q[z] = data[z] /\ data[z].instrument \in Instrument
      BY <1>1, <1>2, <1>8, <2>3 DEF LineOK
    <3>2. \A y \in M : /\ q[y].kind # "Cancel" /\ q[y].instrument = q[z].instrument
                       /\ KeyOf(q[y]) = KeyOf(q[z])
                       => y = z
      BY <1>8, <2>1, <3>1 DEF NamesApart
    <3>3. ~ /\ q[x].kind # "Cancel" /\ q[x].instrument = q[z].instrument
            /\ KeyOf(q[x]) = KeyOf(q[z])
      BY <1>5, <2>1, <3>1 DEF NameFits
    <3>4. \A y \in R[q[z].instrument] : KeyOf(q[y]) = KeyOf(q[z]) =>
            q[z].kind = "Replace" /\ q[z].target = q[z].clientOrderId
      BY <1>8, <2>1, <3>1 DEF NamesApart
    <3> QED BY <3>2, <3>3, <3>4
  <2> QED BY <2>2, <2>3
<1>15. next + 1 \in Nat
  BY <1>2
<1> QED BY <1>1, <1>2, <1>3, <1>9, <1>11, <1>12, <1>13, <1>14, <1>15 DEF EngineOK

\* The record of a numbered command, which is not linked.
Numbered(command, id, next, order) ==
  /\ order \in OrderRecord /\ order.next = NullOrder /\ order.prev = NullOrder
  /\ order.sequence = next /\ order.instrument \in Instrument
  /\ order.kind = command.kind /\ order.kind \in {"New", "Cancel", "Replace"}
  /\ order.instrument = command.instrument /\ order.target = command.target
  /\ order.account = command.account /\ order.clientOrderId = command.clientOrderId
  /\ order.side = command.side /\ order.price = command.price /\ order.quantity = command.quantity
  /\ order.exchangeOrderId = id /\ order.remaining = order.quantity

\* What accept_command writes into the slot is such a record.
LEMMA CommandIsOrder ==
  ASSUME NEW command \in Command, NEW id \in Nat, NEW next \in Nat,
         NEW order, order = [command EXCEPT !.exchangeOrderId = id, !.sequence = next, !.remaining = command.quantity]
  PROVE  Numbered(command, id, next, order)
<1>1. Kinds \subseteq {"New", "Cancel", "Replace"} /\ Price \subseteq Nat /\ Quantity \subseteq Nat
  BY EngineAssumption
<1>2. \A quantity \in Quantity : quantity \in Amounts
  BY <1>1 DEF VolumesFit, Amounts
<1>3. 0 \in Amounts /\ 0 \in 0..MaxOrders /\ NullOrder = 0
  BY NothingRemains, PoolAssumption DEF NullOrder
<1> DEFINE Raw == {c \in [kind : {"New", "Cancel", "Replace"}, instrument : Instrument, account : Account,
                          clientOrderId : ClientOrderId, target : ClientOrderId \cup {0}, side : Side,
                          price : Nat, quantity : Nat, remaining : Nat, exchangeOrderId : Nat, sequence : Nat,
                          next : {0}, prev : {0}] : c.quantity \in Amounts}
<1>4. ASSUME NEW kind \in {"New", "Cancel", "Replace"}, NEW i \in Instrument, NEW a \in Account, NEW c \in ClientOrderId
      PROVE  Named(kind, i, a, c) \in Raw
  BY <1>1, <1>3 DEF Named, BlankOrder, Side
<1>5. ASSUME NEW n \in Raw, NEW side \in Side, NEW price \in Price, NEW quantity \in Quantity
      PROVE  Limit(n, side, price, quantity) \in Raw
  BY <1>1, <1>2 DEF Limit
<1>6. ASSUME NEW n \in Raw, NEW target \in ClientOrderId
      PROVE  [n EXCEPT !.target = target] \in Raw
  OBVIOUS
<1>7. command \in Raw
  <2> HIDE DEF Raw
  <2>1. NewOrders \subseteq Raw
    BY <1>4, <1>5 DEF NewOrders
  <2>2. Cancels \subseteq Raw
    BY <1>4 DEF Cancels
  <2>3. Replacements \subseteq Raw
    <3>1. Aimed \subseteq Raw
      BY <1>4, <1>6 DEF Aimed
    <3> QED BY <1>5, <3>1 DEF Replacements
  <2> QED BY <2>1, <2>2, <2>3 DEF Command
<1>8. order \in OrderRecord
  BY <1>3, <1>7 DEF OrderRecord, Amounts
<1> QED BY <1>3, <1>7, <1>8 DEF Numbered

\* The inductive invariant of the engine: some division of the slots into free
\* ones and the orders of each book describes all its lists, counters and names.
EngineInv ==
  /\ queue \in Seq(Slot) /\ pending \in Seq(Slot) /\ nextExchangeOrderId \in Nat
  /\ \E F, R : EngineOK(pool, books, nextSequence, InFlight, F, R)

\* The elements of a concatenation, of a tail and of an extended sequence.
LEMMA ConcatShape ==
  ASSUME NEW S, NEW q \in Seq(S), NEW w \in Seq(S), NEW s, s = q \o w,
         NEW m, m = Len(q), NEW n, n = Len(w), NEW l, l = m + n
  PROVE  /\ m \in Nat /\ n \in Nat /\ s \in Seq(S) /\ Len(s) = l /\ DOMAIN s = 1..l
         /\ \A k \in 1..l : s[k] = IF k <= m THEN q[k] ELSE w[k - m]
OBVIOUS

\* The elements of a tail.
LEMMA TailShape ==
  ASSUME NEW S, NEW w \in Seq(S), w # <<>>, NEW t, t = Tail(w), NEW n, n = Len(w)
  PROVE  /\ n \in Nat /\ n >= 1 /\ Head(w) = w[1] /\ w[1] \in S
         /\ t \in Seq(S) /\ Len(t) = n - 1
         /\ \A k \in 1..(n - 1) : t[k] = w[k + 1]
<1>1. n \in Nat /\ n >= 1 /\ Head(w) = w[1] /\ w[1] \in S
  OBVIOUS
<1>2. t \in Seq(S) /\ Len(t) = n - 1
  BY <1>1
<1>3. \A k \in 1..(n - 1) : t[k] = w[k + 1]
  BY <1>1
<1> QED BY <1>1, <1>2, <1>3

\* The elements of a sequence with one more.
LEMMA AppendShape ==
  ASSUME NEW S, NEW w \in Seq(S), NEW x \in S, NEW a, a = Append(w, x), NEW n, n = Len(w)
  PROVE  /\ n \in Nat /\ a \in Seq(S) /\ Len(a) = n + 1
         /\ \A k \in 1..(n + 1) : a[k] = IF k = n + 1 THEN x ELSE w[k]
OBVIOUS

\* The line s of a queue and of what waits for it, and what becomes of it.
Halves(S, q, w, s) ==
  /\ \A x \in S : q \o Append(w, x) = Append(s, x)
  /\ w # <<>> => /\ Append(q, Head(w)) \o Tail(w) = s
                 /\ Len(q) + 1 \in DOMAIN s /\ s[Len(q) + 1] = Head(w)
                 /\ q \o Tail(w) = Without(s, Len(q) + 1)
                 /\ Head(w) \in S /\ Tail(w) \in Seq(S)
  /\ q # <<>> => /\ Tail(q) \o w = Without(s, 1)
                 /\ 1 \in DOMAIN s /\ s[1] = Head(q)
                 /\ Head(q) \in S /\ Tail(q) \in Seq(S)

\* How the two halves of the line change.
LEMMA LineHalves ==
  ASSUME NEW S, NEW q \in Seq(S), NEW w \in Seq(S)
  PROVE  Halves(S, q, w, q \o w)
<1>1. PICK m, n, s : m = Len(q) /\ n = Len(w) /\ s = q \o w
  OBVIOUS
<1>2. m \in Nat /\ n \in Nat /\ Len(s) = m + n /\ s \in Seq(S) /\ DOMAIN s = 1..(m + n)
  BY <1>1
<1>3. \A k \in 1..(m + n) : s[k] = IF k <= m THEN q[k] ELSE w[k - m]
  BY <1>1
<1>4. ASSUME NEW x \in S PROVE q \o Append(w, x) = Append(q \o w, x)
  <2>1. PICK a, b, c : a = Append(w, x) /\ b = q \o a /\ c = Append(s, x)
    OBVIOUS
  <2>2. a \in Seq(S) /\ Len(a) = n + 1 /\ \A k \in 1..(n + 1) : a[k] = IF k = n + 1 THEN x ELSE w[k]
    BY ONLY <1>1, <2>1, q \in Seq(S), w \in Seq(S), x \in S, AppendShape
  <2>3. b \in Seq(S) /\ Len(b) = m + n + 1 /\ \A k \in 1..(m + n + 1) : b[k] = IF k <= m THEN q[k] ELSE a[k - m]
    <3>1. PICK l : l = m + (n + 1)
      OBVIOUS
    <3>2. l = m + n + 1
      BY <1>2, <3>1
    <3>3. b \in Seq(S) /\ Len(b) = l /\ \A k \in 1..l : b[k] = IF k <= m THEN q[k] ELSE a[k - m]
      BY ONLY <1>1, <2>1, <2>2, <3>1, q \in Seq(S), ConcatShape
    <3> QED BY <3>2, <3>3
  <2>4. c \in Seq(S) /\ Len(c) = m + n + 1 /\ \A k \in 1..(m + n + 1) : c[k] = IF k = m + n + 1 THEN x ELSE s[k]
    BY <1>2, <2>1
  <2>5. ASSUME NEW k \in 1..(m + n + 1) PROVE b[k] = c[k]
    <3>1. CASE k = m + n + 1
      <4>1. ~(k <= m) /\ k - m = n + 1 /\ k - m \in 1..(n + 1)
        BY <1>2, <3>1
      <4> QED BY <2>2, <2>3, <2>4, <3>1, <4>1
    <3>2. CASE k # m + n + 1
      <4>1. k \in 1..(m + n) /\ (~(k <= m) => k - m \in 1..(n + 1) /\ k - m # n + 1)
        BY <1>2, <3>2
      <4> QED BY <1>3, <2>2, <2>3, <2>4, <3>2, <4>1
    <3> QED BY <3>1, <3>2
  <2>6. b = c
    BY <2>3, <2>4, <2>5
  <2> QED BY <1>1, <2>1, <2>6
<1>5. ASSUME w # <<>>
      PROVE  /\ Append(q, Head(w)) \o Tail(w) = s
             /\ m + 1 \in DOMAIN s /\ s[m + 1] = Head(w)
             /\ q \o Tail(w) = Without(s, m + 1)
             /\ Head(w) \in S /\ Tail(w) \in Seq(S)
  <2>1. n >= 1 /\ Head(w) = w[1] /\ w[1] \in S
    BY <1>1, <1>5, TailShape
  <2>2. PICK t, h : t = Tail(w) /\ h = Head(w)
    OBVIOUS
  <2>3. t \in Seq(S) /\ Len(t) = n - 1 /\ \A k \in 1..(n - 1) : t[k] = w[k + 1]
    BY ONLY <1>1, <1>5, <2>2, w \in Seq(S), TailShape
  <2>4. PICK a, b, c : a = Append(q, h) /\ b = a \o t /\ c = q \o t
    OBVIOUS
  <2>5. a \in Seq(S) /\ Len(a) = m + 1 /\ \A k \in 1..(m + 1) : a[k] = IF k = m + 1 THEN h ELSE q[k]
    <3>1. h \in S
      BY <2>1, <2>2
    <3> QED BY ONLY <1>1, <2>4, <3>1, q \in Seq(S), AppendShape
  <2>6. b \in Seq(S) /\ Len(b) = m + n /\ \A k \in 1..(m + n) : b[k] = IF k <= m + 1 THEN a[k] ELSE t[k - (m + 1)]
    <3>1. PICK l : l = (m + 1) + (n - 1)
      OBVIOUS
    <3>2. l = m + n
      BY <1>2, <3>1
    <3>3. b \in Seq(S) /\ Len(b) = l /\ \A k \in 1..l : b[k] = IF k <= m + 1 THEN a[k] ELSE t[k - (m + 1)]
      BY ONLY <2>3, <2>4, <2>5, <3>1, ConcatShape, SMTT(20)
    <3> QED BY <3>2, <3>3
  <2>7. c \in Seq(S) /\ Len(c) = m + n - 1 /\ \A k \in 1..(m + n - 1) : c[k] = IF k <= m THEN q[k] ELSE t[k - m]
    <3>1. PICK l : l = m + (n - 1)
      OBVIOUS
    <3>2. l = m + n - 1
      BY <1>2, <3>1
    <3>3. c \in Seq(S) /\ Len(c) = l /\ \A k \in 1..l : c[k] = IF k <= m THEN q[k] ELSE t[k - m]
      <4>1. PICK e : e = n - 1
        OBVIOUS
      <4>2. c = q \o t /\ m = Len(q) /\ t \in Seq(S) /\ e = Len(t) /\ l = m + e
        BY <1>1, <2>3, <2>4, <3>1, <4>1
      <4> QED BY ONLY <4>2, q \in Seq(S), ConcatShape
    <3> QED BY <3>2, <3>3
  <2>8. ASSUME NEW k \in 1..(m + n) PROVE b[k] = s[k]
    <3>1. CASE k <= m
      <4>1. k \in 1..(m + 1) /\ k <= m + 1 /\ k # m + 1
        BY <1>2, <3>1
      <4>2. b[k] = a[k] /\ a[k] = q[k] /\ s[k] = q[k]
        BY <1>3, <2>5, <2>6, <3>1, <4>1
      <4> QED BY <4>2
    <3>2. CASE k = m + 1
      <4>1. k \in 1..(m + 1) /\ k <= m + 1 /\ ~(k <= m) /\ k - m = 1
        BY <1>2, <3>2
      <4>2. b[k] = a[k] /\ a[k] = h /\ s[k] = w[1]
        BY <1>3, <2>5, <2>6, <3>2, <4>1
      <4> QED BY <2>1, <2>2, <4>2
    <3>3. CASE k > m + 1
      <4>1. k - (m + 1) \in 1..(n - 1) /\ k - (m + 1) + 1 = k - m
        BY <1>2, <3>3
      <4>2. ~(k <= m + 1) /\ ~(k <= m)
        BY <1>2, <3>3
      <4>3. b[k] = t[k - (m + 1)] /\ t[k - (m + 1)] = w[(k - (m + 1)) + 1] /\ s[k] = w[k - m]
        BY <1>3, <2>3, <2>6, <4>1, <4>2
      <4> QED BY <4>1, <4>3
    <3>4. k <= m \/ k = m + 1 \/ k > m + 1
      BY <1>2
    <3> QED BY <3>1, <3>2, <3>3, <3>4
  <2>9. b = s
    BY <1>2, <2>6, <2>8
  <2>10. PICK u : u = Without(s, m + 1)
    OBVIOUS
  <2>11. u = [k \in 1..(m + n - 1) |-> IF k < m + 1 THEN s[k] ELSE s[k + 1]]
    BY <1>2, <2>10 DEF Without
  <2>12. ASSUME NEW k \in 1..(m + n - 1) PROVE c[k] = u[k]
    <3>1. CASE k <= m
      <4>1. k < m + 1 /\ k \in 1..(m + n)
        BY <1>2, <3>1
      <4>2. c[k] = q[k] /\ u[k] = s[k] /\ s[k] = q[k]
        BY <1>3, <2>7, <2>11, <3>1, <4>1
      <4> QED BY <4>2
    <3>2. CASE k > m
      <4>1. k - m \in 1..(n - 1) /\ k + 1 \in 1..(m + n) /\ (k + 1) - m = (k - m) + 1 /\ ~(k + 1 <= m)
        BY <1>2, <3>2
      <4>2. s[k + 1] = w[(k - m) + 1]
        BY <1>3, <4>1
      <4>3. ~(k < m + 1) /\ ~(k <= m)
        BY <1>2, <3>2
      <4>4. c[k] = t[k - m] /\ t[k - m] = w[(k - m) + 1] /\ u[k] = s[k + 1]
        BY <2>3, <2>7, <2>11, <4>1, <4>3
      <4> QED BY <4>2, <4>4
    <3>3. k <= m \/ k > m
      BY <1>2
    <3> QED BY <3>1, <3>2, <3>3
  <2>13. c = u
    <3>1. c = [k \in 1..(m + n - 1) |-> c[k]]
      BY <1>2, <2>7
    <3>2. u = [k \in 1..(m + n - 1) |-> u[k]]
      BY <2>11
    <3> QED BY <2>12, <3>1, <3>2
  <2>14. m + 1 \in 1..(m + n) /\ s[m + 1] = w[1]
    BY <1>2, <1>3, <2>1
  <2> QED BY <1>1, <1>2, <2>1, <2>2, <2>3, <2>4, <2>9, <2>10, <2>13, <2>14
<1>6. ASSUME q # <<>>
      PROVE  /\ Tail(q) \o w = Without(s, 1)
             /\ 1 \in DOMAIN s /\ s[1] = Head(q)
             /\ Head(q) \in S /\ Tail(q) \in Seq(S)
  <2>1. m >= 1 /\ Head(q) = q[1] /\ q[1] \in S
    BY <1>1, <1>6, TailShape
  <2>2. PICK t : t = Tail(q)
    OBVIOUS
  <2>3. t \in Seq(S) /\ Len(t) = m - 1 /\ \A k \in 1..(m - 1) : t[k] = q[k + 1]
    BY ONLY <1>1, <1>6, <2>2, q \in Seq(S), TailShape
  <2>4. PICK c, u : c = t \o w /\ u = Without(s, 1)
    OBVIOUS
  <2>5. c \in Seq(S) /\ Len(c) = m + n - 1 /\ \A k \in 1..(m + n - 1) : c[k] = IF k <= m - 1 THEN t[k] ELSE w[k - (m - 1)]
    <3>1. PICK l : l = (m - 1) + n
      OBVIOUS
    <3>2. l = m + n - 1
      BY <1>2, <3>1
    <3>3. c \in Seq(S) /\ Len(c) = l /\ \A k \in 1..l : c[k] = IF k <= m - 1 THEN t[k] ELSE w[k - (m - 1)]
      BY ONLY <1>1, <2>3, <2>4, <3>1, w \in Seq(S), ConcatShape
    <3> QED BY <3>2, <3>3
  <2>6. u = [k \in 1..(m + n - 1) |-> IF k < 1 THEN s[k] ELSE s[k + 1]]
    BY <1>2, <2>4 DEF Without
  <2>7. ASSUME NEW k \in 1..(m + n - 1) PROVE c[k] = u[k]
    <3>1. u[k] = s[k + 1] /\ k + 1 \in 1..(m + n)
      BY <1>2, <2>6
    <3>2. CASE k <= m - 1
      <4>1. k \in 1..(m - 1) /\ k + 1 <= m
        BY <1>2, <3>2
      <4>2. c[k] = t[k] /\ t[k] = q[k + 1] /\ s[k + 1] = q[k + 1]
        BY <1>3, <2>3, <2>5, <3>1, <3>2, <4>1
      <4> QED BY <3>1, <4>2
    <3>3. CASE k > m - 1
      <4>1. (k + 1) - m = k - (m - 1) /\ ~(k + 1 <= m)
        BY <1>2, <3>3
      <4>2. s[k + 1] = w[k - (m - 1)]
        BY <1>3, <3>1, <4>1
      <4> QED BY <1>2, <2>5, <3>1, <3>3, <4>2
    <3> QED BY <1>2, <3>2, <3>3
  <2>8. c = u
    <3>1. c = [k \in 1..(m + n - 1) |-> c[k]]
      BY <1>2, <2>5
    <3>2. u = [k \in 1..(m + n - 1) |-> u[k]]
      BY <2>6
    <3> QED BY <2>7, <3>1, <3>2
  <2>9. 1 \in 1..(m + n) /\ s[1] = q[1]
    BY <1>2, <1>3, <2>1
  <2> QED BY <1>2, <2>1, <2>2, <2>3, <2>4, <2>8, <2>9
<1> QED BY <1>1, <1>4, <1>5, <1>6 DEF Halves

\* The empty engine.
LEMMA InitEngine == Init => EngineInv
<1> SUFFICES ASSUME Init PROVE EngineInv
  OBVIOUS
<1>1. PICK R : R = [i \in Instrument |-> {}]
  OBVIOUS
<1>2. PoolOK(pool, Slot)
  BY NewPoolFree DEF Init
<1>3. InFlight = <<>>
  BY DEF Init, InFlight
<1>4. ASSUME NEW i \in Instrument PROVE Whole(pool, books[i], i, Slot, R[i])
  <2>1. books[i] = EmptyBook /\ R[i] = {}
    BY <1>1 DEF Init
  <2>2. PICK book : book = EmptyBook
    OBVIOUS
  <2>3. DOMAIN book.levels = Side /\ DOMAIN book.orderMap = {} /\ book = [levels |-> book.levels, orderMap |-> book.orderMap]
        /\ \A side \in Side : DOMAIN book.levels[side] = {}
    BY <2>2 DEF EmptyBook, EmptyFunction
  <2>4. LevelsOK(pool.data, book.levels, {})
    BY <2>3 DEF LevelsOK, At
  <2>5. BookOK(pool.data, book, i, {})
    BY <2>3, <2>4 DEF BookOK
  <2> QED BY <1>2, <2>1, <2>2, <2>5 DEF Whole, Live, Uncrossed, AllKnown
<1>5. PICK line : line = <<>>
  OBVIOUS
<1>6. LineOK(pool.data, line, nextSequence) /\ Members(line) = {}
  BY <1>5 DEF LineOK, Distinct, Members
<1>7. Parts(Slot, {}, R) /\ Earlier(pool.data, {}, R, nextSequence) /\ NamesApart(pool.data, {}, R)
  BY <1>1 DEF Parts, Earlier, NamesApart
<1>8. nextSequence \in Nat /\ DOMAIN books = Instrument /\ DOMAIN R = Instrument /\ books = [i \in Instrument |-> books[i]]
  BY <1>1 DEF Init
<1>9. EngineOK(pool, books, nextSequence, InFlight, Slot, R)
  BY <1>2, <1>3, <1>4, <1>5, <1>6, <1>7, <1>8 DEF EngineOK
<1> QED BY <1>9 DEF EngineInv, Init

\* accept_command keeps the invariant.
LEMMA AcceptKeeps ==
  ASSUME EngineInv, NEW command \in Command, Acceptable(command), Admit(command)
  PROVE  EngineInv'
<1>1. PICK F, R : EngineOK(pool, books, nextSequence, InFlight, F, R)
  BY DEF EngineInv
<1>2. PICK id : id = IF command.kind = "Cancel" THEN 0 ELSE nextExchangeOrderId
  OBVIOUS
<1>3. PICK order : order = [command EXCEPT !.exchangeOrderId = id, !.sequence = nextSequence, !.remaining = command.quantity]
  OBVIOUS
<1>4. id \in Nat /\ nextSequence \in Nat
  BY <1>1, <1>2 DEF EngineInv, EngineOK
<1>5. /\ order \in OrderRecord /\ order.next = NullOrder /\ order.prev = NullOrder
      /\ order.sequence = nextSequence /\ order.instrument \in Instrument
      /\ order.kind = command.kind /\ order.kind \in {"New", "Cancel", "Replace"}
      /\ order.instrument = command.instrument /\ order.target = command.target
      /\ order.account = command.account /\ order.clientOrderId = command.clientOrderId
  <2>1. Numbered(command, id, nextSequence, order)
    BY ONLY <1>3, <1>4, command \in Command, CommandIsOrder
  <2> QED BY <2>1 DEF Numbered
<1>6. /\ CanAllocate(pool) /\ Acceptable(command)
      /\ pool' = Allocate(pool, order) /\ pending' = Append(pending, pool.freeHead)
      /\ nextSequence' = nextSequence + 1 /\ UNCHANGED <<books, queue>>
      /\ nextExchangeOrderId' \in {nextExchangeOrderId, nextExchangeOrderId + 1}
  BY <1>2, <1>3 DEF Admit, CanAdmit, PoolWith
<1>7. PICK line : line = InFlight
  OBVIOUS
<1>8. KeyOf(order) = KeyOf(command) /\ KeyOf(order) = <<command.account, command.clientOrderId>>
  BY <1>5 DEF KeyOf
<1>9. ~KeyReuse => NameFits(pool.data, Members(line), R, order)
  <2> SUFFICES ASSUME ~KeyReuse, order.kind # "Cancel" PROVE NameFits(pool.data, Members(line), R, order)
    BY DEF NameFits
  <2>1. order.kind \in {"New", "Replace"}
    BY <1>5
  <2>2. ~NameInFlight(command.instrument, KeyOf(command))
    BY <1>5, <1>6, <2>1 DEF Acceptable, Fresh
  <2>3. ASSUME NEW y \in Members(line)
        PROVE  ~ /\ pool.data[y].kind # "Cancel" /\ pool.data[y].instrument = order.instrument
                 /\ KeyOf(pool.data[y]) = KeyOf(order)
    <3>1. PICK k \in DOMAIN InFlight : y = InFlight[k]
      BY <1>7 DEF Members
    <3> QED BY <1>5, <1>8, <2>2, <3>1 DEF NameInFlight
  <2>4. ASSUME NEW y \in R[order.instrument], KeyOf(pool.data[y]) = KeyOf(order)
        PROVE  order.kind = "Replace" /\ order.target = order.clientOrderId
    <3>1. PICK i, book : i = order.instrument /\ book = books[i]
      OBVIOUS
    <3>2. AllKnown(pool.data, book, R[i])
      BY <1>1, <1>5, <3>1 DEF EngineOK, Whole
    <3>3. KeyOf(order) \in DOMAIN book.orderMap
      BY <2>4, <3>1, <3>2 DEF AllKnown
    <3>4. Known(command, command.clientOrderId)
      BY <1>5, <1>8, <3>1, <3>3 DEF Known, ContainsOrder
    <3> QED BY <1>5, <1>6, <2>1, <3>4 DEF Acceptable
  <2> QED BY <2>3, <2>4 DEF NameFits
<1>10. PICK x, longer : x = pool.freeHead /\ longer = Append(line, x)
  OBVIOUS
<1>11. x \in Slot
  <2>1. PoolOK(pool, F) /\ CanAllocate(pool) /\ order \in OrderRecord
    BY <1>1, <1>5, <1>6 DEF EngineOK
  <2> QED BY <1>10, <2>1, AllocateTakes
<1>12. EngineOK(pool', books, nextSequence + 1, longer, F \ {x}, R)
  <2>1. EngineOK(pool, books, nextSequence, line, F, R) /\ CanAllocate(pool)
        /\ pool' = Allocate(pool, order) /\ longer = Append(line, pool.freeHead)
    BY <1>1, <1>6, <1>7, <1>10
  <2>2. PICK q : q = pool'
    OBVIOUS
  <2>3. q = Allocate(pool, order)
    BY <2>1, <2>2
  <2>4. EngineOK(q, books, nextSequence + 1, longer, F \ {pool.freeHead}, R)
    BY ONLY <1>5, <1>9, <2>1, <2>3, AcceptStep
  <2> QED BY <1>10, <2>2, <2>4
<1>13. queue \in Seq(Slot) /\ pending \in Seq(Slot)
  BY DEF EngineInv
<1>14. InFlight' = longer /\ pending' \in Seq(Slot) /\ queue' \in Seq(Slot)
  <2>1. queue \o Append(pending, x) = Append(queue \o pending, x)
    <3>1. Halves(Slot, queue, pending, queue \o pending)
      BY <1>13, LineHalves
    <3> QED BY <1>11, <3>1 DEF Halves
  <2> QED BY <1>6, <1>7, <1>10, <1>11, <1>13, <2>1 DEF InFlight
<1>15. nextExchangeOrderId' \in Nat
  BY <1>6 DEF EngineInv
<1>16. EngineOK(pool', books', nextSequence', InFlight', F \ {x}, R)
  BY <1>6, <1>12, <1>14
<1> QED BY <1>14, <1>15, <1>16 DEF EngineInv

\* enqueue_order keeps the invariant, also when the queue is full.
LEMMA EnqueueKeeps ==
  ASSUME EngineInv, EnqueueOrder
  PROVE  EngineInv'
<1>1. PICK F, R : EngineOK(pool, books, nextSequence, InFlight, F, R)
  BY DEF EngineInv
<1>2. queue \in Seq(Slot) /\ pending \in Seq(Slot) /\ pending # <<>>
  BY DEF EngineInv, EnqueueOrder
<1>3. /\ pending' = Tail(pending) /\ UNCHANGED <<books, nextSequence, nextExchangeOrderId>>
      /\ \/ queue' = Append(queue, Head(pending)) /\ UNCHANGED pool
         \/ pool' = Deallocate(pool, Head(pending)) /\ UNCHANGED queue
  BY DEF EnqueueOrder
<1>4. PICK line, n, idx : line = InFlight /\ n = Len(queue) + 1 /\ idx = Head(pending)
  OBVIOUS
<1>5. /\ Append(queue, idx) \o Tail(pending) = line
      /\ n \in DOMAIN line /\ line[n] = idx
      /\ queue \o Tail(pending) = Without(line, n)
      /\ idx \in Slot /\ Tail(pending) \in Seq(Slot)
  <2>1. Halves(Slot, queue, pending, line)
    BY <1>2, <1>4, LineHalves DEF InFlight
  <2> QED BY <1>2, <1>4, <2>1 DEF Halves
<1>6. CASE queue' = Append(queue, idx) /\ UNCHANGED pool
  <2>1. InFlight' = line /\ queue' \in Seq(Slot)
    BY <1>2, <1>3, <1>4, <1>5, <1>6 DEF InFlight
  <2>2. EngineOK(pool', books', nextSequence', InFlight', F, R)
    BY <1>1, <1>3, <1>4, <1>6, <2>1
  <2> QED BY <1>3, <1>5, <2>1, <2>2 DEF EngineInv
<1>7. CASE pool' = Deallocate(pool, idx) /\ UNCHANGED queue
  <2>1. PICK i, rest : i = pool.data[idx].instrument /\ rest = Without(line, n)
    OBVIOUS
  <2>2. InFlight' = rest
    BY <1>3, <1>5, <1>7, <2>1 DEF InFlight
  <2>3. i \in Instrument /\ idx \in Members(line)
    BY <1>1, <1>4, <1>5, <2>1 DEF EngineOK, LineOK, Members
  <2>4. Whole(pool, books[i], i, F, R[i]) /\ idx \notin R[i] /\ idx \notin F
    BY <1>1, <1>4, <2>3 DEF EngineOK, Parts
  <2>5. PICK after, G, T : after = [pool |-> Deallocate(pool, idx), book |-> books[i]] /\ G = F \cup {idx} /\ T = R[i]
    OBVIOUS
  <2>6. Absorbed(pool, i, F, R[i], idx, after, G, T)
    BY <1>5, <2>4, <2>5, DeallocateAbsorbs
  <2>7. PICK new, S : Updated(books, i, after.book, new) /\ Updated(R, i, T, S)
    BY DEF Updated
  <2>8. EngineOK(after.pool, new, nextSequence, rest, G, S)
    <3>1. EngineOK(pool, books, nextSequence, line, F, R) /\ n \in DOMAIN line /\ idx = line[n] /\ idx \notin T
      BY <1>1, <1>4, <1>5, <2>4, <2>5
    <3> QED BY ONLY <2>1, <2>6, <2>7, <3>1, AbsorbStep
  <2>9. new = books /\ after.pool = pool'
    <3>1. books = [j \in Instrument |-> books[j]]
      BY <1>1 DEF EngineOK
    <3> QED BY <1>7, <2>5, <2>7, <3>1 DEF Updated
  <2>10. EngineOK(pool', books', nextSequence', InFlight', G, S)
    BY <1>3, <2>2, <2>8, <2>9
  <2>11. queue' \in Seq(Slot) /\ pending' \in Seq(Slot) /\ nextExchangeOrderId' \in Nat
    BY <1>2, <1>3, <1>5, <1>7 DEF EngineInv
  <2> QED BY <2>10, <2>11 DEF EngineInv
<1> QED BY <1>3, <1>4, <1>6, <1>7

\* Some division absorbs the command in idx, which leaves no cancel in a book.
Outcome(p, bs, i, F, R, idx, new, q) ==
  \E after, G, T : /\ Absorbed(p, i, F, R[i], idx, after, G, T)
                   /\ idx \in T => p.data[idx].kind # "Cancel"
                   /\ Updated(bs, i, after.book, new) /\ q = after.pool

\* What process_order makes of a command of any kind.
LEMMA ProcessAbsorbs ==
  ASSUME NEW F, NEW R, NEW next, NEW line, EngineOK(pool, books, next, line, F, R),
         line # <<>>, NEW idx, idx = line[1], Process(idx)
  PROVE  Outcome(pool, books, pool.data[idx].instrument, F, R, idx, books', pool')
<1>1. PICK o, i, book : o = pool.data[idx] /\ i = o.instrument /\ book = books[i]
  OBVIOUS
<1>2. line \in Seq(Slot)
  BY DEF EngineOK, LineOK
<1>3. 1 \in DOMAIN line /\ idx \in Members(line) /\ idx \in Slot
  BY <1>2 DEF Members
<1>4. o.next = NullOrder /\ o.prev = NullOrder /\ i \in Instrument
  BY <1>1, <1>3 DEF EngineOK, LineOK
<1>5. Whole(pool, book, i, F, R[i]) /\ idx \notin R[i] /\ idx \notin F
  BY <1>1, <1>3, <1>4 DEF EngineOK, Parts
<1>6. books = [j \in Instrument |-> books[j]]
  BY DEF EngineOK
<1>7. PICK st0, named : st0 = [pool |-> pool, book |-> book] /\ named = <<o.account, IF o.kind = "Cancel" THEN o.clientOrderId ELSE o.target>>
  OBVIOUS
<1>8. \/ o.kind = "New" /\ ProcessIncoming(i, idx)
      \/ o.kind = "Replace" /\ ContainsOrder(book, named) /\ ProcessIncoming(i, idx)
      \/ o.kind = "Cancel" /\ ContainsOrder(book, named) /\ ProcessCancel(i, idx)
      \/ o.kind # "New" /\ ~ContainsOrder(book, named) /\ ProcessMissing(idx)
  BY <1>1, <1>7 DEF Process, BookOf
<1>9. CASE o.kind # "Cancel" /\ (o.kind = "Replace" => ContainsOrder(book, named)) /\ ProcessIncoming(i, idx)
  <2>1. Arriving(pool, book, i, R[i], idx)
    <3>1. \A y \in R[i] : pool.data[y].sequence < o.sequence
      BY <1>1, <1>3, <1>4 DEF EngineOK, Earlier
    <3>2. o.kind = "Replace" => ContainsOrder(book, <<o.account, o.target>>)
      BY <1>7, <1>9
    <3>3. ~KeyReuse => \A y \in R[i] : KeyOf(pool.data[y]) = KeyOf(o) => o.kind = "Replace" /\ o.target = o.clientOrderId
      BY <1>1, <1>3, <1>9 DEF EngineOK, NamesApart
    <3> QED BY <1>1, <1>4, <3>1, <3>2, <3>3 DEF Arriving
  <2>2. PICK before : before = CancelFirst([pool |-> pool, book |-> book], idx)
    OBVIOUS
  <2>3. PICK run : run = Match([before EXCEPT !.pool.data[idx].kind = "New"], idx)
    OBVIOUS
  <2>4. PICK after : after = RestOrGone([pool |-> run.pool, book |-> run.book], idx)
    OBVIOUS
  <2>5. PICK G, T : Absorbed(pool, i, F, R[i], idx, after, G, T)
    BY ONLY <1>3, <1>5, <2>1, <2>2, <2>3, <2>4, IncomingAbsorbs
  <2>6. pool' = after.pool /\ books' = [books EXCEPT ![i] = after.book]
    BY <1>1, <1>9, <2>2, <2>3, <2>4, ZenonT(40) DEF ProcessIncoming, RestOrGone
  <2> QED BY <1>1, <1>9, <2>5, <2>6 DEF Outcome, Updated
<1>10. CASE o.kind = "Cancel" /\ ContainsOrder(book, named) /\ ProcessCancel(i, idx)
  <2>1. PICK st : st = CancelOrder([pool |-> pool, book |-> book], KeyOf(o))
    OBVIOUS
  <2>2. ContainsOrder(book, KeyOf(o))
    BY <1>7, <1>10 DEF KeyOf
  <2>3. PICK after : after = [pool |-> Deallocate(st.pool, idx), book |-> st.book]
    OBVIOUS
  <2>4. PICK G, T : Absorbed(pool, i, F, R[i], idx, after, G, T) /\ idx \notin T
    BY <1>3, <1>5, <2>1, <2>2, <2>3, CancelAbsorbs
  <2>5. pool' = after.pool /\ books' = [books EXCEPT ![i] = after.book]
    BY <1>1, <1>10, <2>1, <2>3 DEF ProcessCancel
  <2> QED BY <1>1, <2>4, <2>5 DEF Outcome, Updated
<1>11. CASE ProcessMissing(idx)
  <2>1. PICK after, G, T : after = [pool |-> Deallocate(pool, idx), book |-> book] /\ G = F \cup {idx} /\ T = R[i]
    OBVIOUS
  <2>2. Absorbed(pool, i, F, R[i], idx, after, G, T)
    BY <1>3, <1>5, <2>1, DeallocateAbsorbs
  <2>3. pool' = after.pool /\ books' = [books EXCEPT ![i] = after.book]
    BY <1>1, <1>6, <1>11, <2>1 DEF ProcessMissing
  <2> QED BY <1>1, <1>5, <2>1, <2>2, <2>3 DEF Outcome, Updated
<1> QED BY <1>8, <1>9, <1>10, <1>11

\* The first command in the line is processed, and leaves it.
FirstProcessed ==
  /\ InFlight # <<>> /\ Process(InFlight[1]) /\ InFlight' = Without(InFlight, 1)
  /\ queue' \in Seq(Slot) /\ pending' \in Seq(Slot)

\* The matcher receives the first command from the queue.
LEMMA ReceivesFirst ==
  ASSUME EngineInv, ProcessOrder
  PROVE  FirstProcessed
<1>1. queue \in Seq(Slot) /\ pending \in Seq(Slot) /\ queue # <<>>
  BY DEF EngineInv, ProcessOrder
<1>2. queue' = Tail(queue) /\ pending' = pending /\ Process(Head(queue))
  BY DEF ProcessOrder
<1>3. PICK line : line = InFlight
  OBVIOUS
<1>4. /\ Tail(queue) \o pending = Without(line, 1)
      /\ 1 \in DOMAIN line /\ line[1] = Head(queue) /\ Tail(queue) \in Seq(Slot)
  <2>1. Halves(Slot, queue, pending, line)
    BY <1>1, <1>3, LineHalves DEF InFlight
  <2> QED BY <1>1, <2>1 DEF Halves
<1>5. InFlight' = Without(InFlight, 1)
  BY <1>2, <1>3, <1>4 DEF InFlight
<1>6. InFlight # <<>>
  BY <1>3, <1>4
<1> QED BY <1>1, <1>2, <1>3, <1>4, <1>5, <1>6 DEF FirstProcessed

\* process_order keeps the invariant.
LEMMA ProcessKeeps ==
  ASSUME EngineInv, FirstProcessed
  PROVE  EngineInv'
<1>1. PICK F, R : EngineOK(pool, books, nextSequence, InFlight, F, R)
  BY DEF EngineInv
<1>2. PICK line, n, rest : line = InFlight /\ n = 1 /\ rest = Without(line, n)
  OBVIOUS
<1>3. PICK idx, i : idx = line[1] /\ i = pool.data[idx].instrument
  OBVIOUS
<1>4. line # <<>> /\ Process(idx) /\ InFlight' = rest
  BY <1>2, <1>3 DEF FirstProcessed
<1>5. n \in DOMAIN line
  <2>1. line \in Seq(Slot)
    BY <1>1, <1>2 DEF EngineOK, LineOK
  <2> QED BY <1>2, <1>4, <2>1
<1>6. UNCHANGED <<nextSequence, nextExchangeOrderId>>
  BY <1>4 DEF Process
<1>7. Outcome(pool, books, i, F, R, idx, books', pool')
  <2>1. EngineOK(pool, books, nextSequence, line, F, R) /\ line # <<>> /\ idx = line[1] /\ Process(idx)
    BY <1>1, <1>2, <1>3, <1>4
  <2> QED BY ONLY <1>3, <2>1, ProcessAbsorbs
<1>8. PICK after, G, T : /\ Absorbed(pool, i, F, R[i], idx, after, G, T)
                         /\ idx \in T => pool.data[idx].kind # "Cancel"
                         /\ Updated(books, i, after.book, books') /\ pool' = after.pool
  BY <1>7 DEF Outcome
<1>9. PICK new, S : new = books' /\ Updated(R, i, T, S)
  BY DEF Updated
<1>10. EngineOK(after.pool, new, nextSequence, rest, G, S)
  <2>1. EngineOK(pool, books, nextSequence, line, F, R) /\ n \in DOMAIN line /\ idx = line[n]
        /\ (idx \in T => n = 1 /\ pool.data[idx].kind # "Cancel") /\ Absorbed(pool, i, F, R[i], idx, after, G, T)
        /\ Updated(books, i, after.book, new)
    BY <1>1, <1>2, <1>3, <1>5, <1>8, <1>9
  <2> QED BY ONLY <1>2, <1>3, <1>9, <2>1, AbsorbStep
<1>11. EngineOK(pool', books', nextSequence', InFlight', G, S)
  BY <1>4, <1>6, <1>8, <1>9, <1>10
<1>12. queue' \in Seq(Slot) /\ pending' \in Seq(Slot) /\ nextExchangeOrderId' \in Nat
  BY <1>6 DEF FirstProcessed, EngineInv
<1> QED BY <1>11, <1>12 DEF EngineInv

\* The invariant is inductive.
LEMMA EngineInvariant == Spec => []EngineInv
<1>1. Init => EngineInv
  BY InitEngine
<1>2. EngineInv /\ [Next]_vars => EngineInv'
  <2> SUFFICES ASSUME EngineInv, [Next]_vars PROVE EngineInv'
    OBVIOUS
  <2>1. ASSUME NEW command \in Command, Accept(command) PROVE EngineInv'
    BY <2>1, AcceptKeeps DEF Accept
  <2>2. CASE EnqueueOrder
    BY <2>2, EnqueueKeeps
  <2>3. CASE ProcessOrder
    BY <2>3, ReceivesFirst, ProcessKeeps
  <2>4. CASE UNCHANGED vars
    BY <2>4 DEF vars, EngineInv, InFlight
  <2> QED BY <2>1, <2>2, <2>3, <2>4 DEF Next
<1> QED BY <1>1, <1>2, PTL DEF Spec

\* The queue of a level, as the properties read it, is the queue that the book keeps there.
QueueIs(i, side, price, M) ==
  LET line == LevelQueue(i, side, price)
      level == books[i].levels[side][price]
  IN  Queued(pool.data, line) /\ Members(line) = M /\ LevelOf(pool.data, level, line)

\* The queue that LevelQueue walks is the one that the level describes.
LEMMA QueueOfLevel ==
  ASSUME NEW i, NEW R, BookOK(pool.data, books[i], i, R),
         NEW side \in Side, NEW price \in DOMAIN books[i].levels[side]
  PROVE  QueueIs(i, side, price, At(pool.data, R, side, price))
<1>1. PICK level : level = books[i].levels[side][price]
  OBVIOUS
<1>2. LevelOK(pool.data, level, At(pool.data, R, side, price))
  BY <1>1 DEF BookOK, LevelsOK
<1>3. PICK s : Queued(pool.data, s) /\ Members(s) = At(pool.data, R, side, price) /\ LevelOf(pool.data, level, s)
  BY <1>2 DEF LevelOK
<1>4. Chain(pool.data, s[1]) = s
  BY <1>3, QueueIsList
<1>5. level.head = s[1]
  BY <1>3 DEF LevelOf
<1>6. LevelQueue(i, side, price) = s
  BY <1>1, <1>4, <1>5 DEF LevelQueue
<1> QED BY <1>1, <1>3, <1>6 DEF QueueIs

\* The orders found by walking the lists of a book are all its orders.
LEMMA RestingIs ==
  ASSUME NEW i, NEW R, BookOK(pool.data, books[i], i, R), Records(pool.data)
  PROVE  RestingIn(i) = R
<1>1. ASSUME NEW side \in Side, NEW price \in DOMAIN books[i].levels[side]
      PROVE  AtLevel(i, side, price) = At(pool.data, R, side, price)
  <2>1. QueueIs(i, side, price, At(pool.data, R, side, price))
    BY QueueOfLevel
  <2> QED BY <2>1 DEF QueueIs, AtLevel, Members
<1>2. ASSUME NEW y \in R PROVE y \in RestingIn(i)
  <2>1. PICK side, price : side = pool.data[y].side /\ price = pool.data[y].price
    OBVIOUS
  <2>2. LevelsOK(pool.data, books[i].levels, R)
    BY DEF BookOK
  <2>3. side \in Side /\ price \in DOMAIN books[i].levels[side] /\ y \in At(pool.data, R, side, price)
    BY <2>1, <2>2, LevelOfOrder
  <2>4. y \in AtLevel(i, side, price)
    BY <1>1, <2>3
  <2> QED BY <2>3, <2>4 DEF RestingIn
<1>3. ASSUME NEW y \in RestingIn(i) PROVE y \in R
  <2>1. PICK side \in Side : \E price \in DOMAIN books[i].levels[side] : y \in AtLevel(i, side, price)
    BY DEF RestingIn
  <2>2. PICK price \in DOMAIN books[i].levels[side] : y \in AtLevel(i, side, price)
    BY <2>1
  <2>3. y \in At(pool.data, R, side, price)
    BY <1>1, <2>2
  <2> QED BY <2>3 DEF At
<1> QED BY <1>2, <1>3

\* The properties' view of a well-kept engine.
LEMMA EngineView ==
  ASSUME NEW F, NEW R, EngineOK(pool, books, nextSequence, InFlight, F, R), NEW i \in Instrument
  PROVE  /\ BookOK(pool.data, books[i], i, R[i]) /\ Records(pool.data) /\ RestingIn(i) = R[i]
         /\ Live(pool.data, R[i]) /\ Uncrossed(pool.data, R[i])
         /\ ~KeyReuse => AllKnown(pool.data, books[i], R[i])
<1>1. Whole(pool, books[i], i, F, R[i]) /\ PoolOK(pool, F)
  BY DEF EngineOK
<1>2. Records(pool.data) /\ BookOK(pool.data, books[i], i, R[i])
  BY <1>1 DEF Whole, PoolOK, Records
<1> QED BY <1>1, <1>2, RestingIs DEF Whole

\* Three sets that have nothing in common are together as many as they are.
LEMMA ThreeParts ==
  ASSUME NEW A, NEW B, NEW C, IsFiniteSet(A), IsFiniteSet(B), IsFiniteSet(C),
         A \cap B = {}, A \cap C = {}, B \cap C = {}
  PROVE  Cardinality(A) + Cardinality(B) + Cardinality(C) = Cardinality(A \cup B \cup C)
<1>1. Cardinality({}) = 0 /\ Cardinality(A) \in Nat /\ Cardinality(B) \in Nat /\ Cardinality(C) \in Nat
  BY FS_EmptySet, FS_CardinalityType
<1>2. ASSUME NEW S, NEW T, IsFiniteSet(S), IsFiniteSet(T), S \cap T = {}
      PROVE  IsFiniteSet(S \cup T) /\ Cardinality(S \cup T) = Cardinality(S) + Cardinality(T)
  <2>1. IsFiniteSet(S \cup T) /\ Cardinality(S \cup T) = Cardinality(S) + Cardinality(T) - Cardinality(S \cap T)
    BY <1>2, FS_Union
  <2>2. Cardinality(S \cap T) = 0
    BY <1>1, <1>2
  <2>3. Cardinality(S) \in Nat /\ Cardinality(T) \in Nat
    BY <1>2, FS_CardinalityType
  <2> QED BY <2>1, <2>2, <2>3
<1>3. (A \cup B) \cap C = {}
  OBVIOUS
<1>4. Cardinality((A \cup B) \cup C) = Cardinality(A \cup B) + Cardinality(C)
  BY <1>2, <1>3
<1> QED BY <1>1, <1>2, <1>4

\* No slot is leaked, and none has two owners.
LEMMA InvNoSlotLeaked == EngineInv => NoSlotLeaked
<1> SUFFICES ASSUME EngineInv PROVE NoSlotLeaked
  OBVIOUS
<1>1. PICK F, R : EngineOK(pool, books, nextSequence, InFlight, F, R)
  BY DEF EngineInv
<1>2. PICK line, M, rests : line = InFlight /\ M = Members(line) /\ rests = UNION {R[i] : i \in Instrument}
  OBVIOUS
<1>3. Resting = rests
  <2>1. \A i \in Instrument : RestingIn(i) = R[i]
    BY <1>1, EngineView
  <2> QED BY <1>2, <2>1 DEF Resting
<1>4. PoolOK(pool, F) /\ LineOK(pool.data, line, nextSequence) /\ Parts(F, M, R)
      /\ \A i \in Instrument : Whole(pool, books[i], i, F, R[i])
  BY <1>1, <1>2 DEF EngineOK
<1>5. FreeSlots(pool) = F /\ IsFiniteSet(F) /\ F \subseteq Slot /\ pool.allocatedCount = MaxOrders - 1 - Cardinality(F)
  BY <1>4, FreeSlotsAre
<1>6. ToSet(InFlight) = M /\ IsFiniteSet(M) /\ Cardinality(M) = Len(InFlight) /\ M \subseteq Slot
  <2>1. line \in Seq(Slot) /\ Distinct(line)
    BY <1>4 DEF LineOK
  <2>2. ToSet(InFlight) = M
    BY <1>2 DEF ToSet, Members
  <2>3. M \subseteq Slot
    BY <1>2, <2>1 DEF Members
  <2> QED BY <1>2, <2>1, <2>2, <2>3, MembersCount
<1>7. \A i \in Instrument : F \cap R[i] = {} /\ M \cap R[i] = {} /\ R[i] \subseteq Slot
  BY <1>4 DEF Whole, BookOK, LevelsOK, Parts
<1>8. F \cap M = {} /\ F \cap rests = {} /\ M \cap rests = {} /\ rests \subseteq Slot /\ F \cup M \cup rests = Slot
  BY <1>2, <1>4, <1>7 DEF Parts
<1>9. IsFiniteSet(rests)
  BY <1>8, SlotsFinite, FS_Subset
<1>10. Cardinality(F) + Cardinality(M) + Cardinality(rests) = Cardinality(Slot)
  BY <1>5, <1>6, <1>8, <1>9, ThreeParts
<1>11. Cardinality(F) \in Nat /\ Cardinality(M) \in Nat /\ Cardinality(rests) \in Nat
  BY <1>5, <1>6, <1>9, FS_CardinalityType
<1>12. pool.allocatedCount = Len(InFlight) + Cardinality(rests)
  BY <1>5, <1>6, <1>10, <1>11, SlotsFinite, PoolAssumption
<1> QED BY <1>3, <1>5, <1>6, <1>8, <1>10, <1>12 DEF NoSlotLeaked

\* Every level is a well-formed queue of live orders, and no price crosses.
LEMMA InvBookWellFormed == EngineInv => BookWellFormed
<1> SUFFICES ASSUME EngineInv PROVE BookWellFormed
  OBVIOUS
<1>1. PICK F, R : EngineOK(pool, books, nextSequence, InFlight, F, R)
  BY DEF EngineInv
<1> SUFFICES ASSUME NEW i \in Instrument
             PROVE  /\ \A side \in Side : \A price \in DOMAIN books[i].levels[side] :
                         LevelWellFormed(i, side, price)
                    /\ \A bid \in DOMAIN books[i].levels["Buy"], ask \in DOMAIN books[i].levels["Sell"] : bid < ask
  BY DEF BookWellFormed
<1>2. PICK data, T : data = pool.data /\ T = R[i]
  OBVIOUS
<1>3. BookOK(data, books[i], i, T) /\ Records(data) /\ Live(data, T) /\ Uncrossed(data, T)
  BY <1>1, <1>2, EngineView
<1>4. LevelsOK(data, books[i].levels, T) /\ T \subseteq Slot /\ \A y \in T : data[y].instrument = i
  BY <1>3 DEF BookOK, LevelsOK
<1>5. ASSUME NEW side \in Side, NEW price \in DOMAIN books[i].levels[side]
      PROVE  LevelWellFormed(i, side, price)
  <2>1. PICK s, level, M : s = LevelQueue(i, side, price) /\ level = books[i].levels[side][price] /\ M = At(data, T, side, price)
    OBVIOUS
  <2>2. Queued(data, s) /\ Members(s) = M /\ LevelOf(data, level, s)
    <3>1. QueueIs(i, side, price, M)
      BY <1>2, <1>3, <2>1, QueueOfLevel
    <3> QED BY <1>2, <2>1, <3>1 DEF QueueIs
  <2>3. Len(s) = level.orderCount /\ s[1] = level.head /\ Last(s) = level.tail
    BY <2>2 DEF LevelOf, Last
  <2>4. VolumesFit => level.volume = SumFunction([x \in ToSet(s) |-> data[x].remaining])
    <3>1. PICK f, g : f = [x \in ToSet(s) |-> data[x].remaining] /\ g = [x \in Slot |-> data[x].remaining]
      OBVIOUS
    <3>2. ToSet(s) = M
      BY <2>2 DEF ToSet, Members
    <3>3. M \subseteq Slot /\ IsFiniteSet(M)
      BY <2>2, QueueIsList
    <3>4. \A x \in M : f[x] = g[x]
      BY <3>1, <3>2, <3>3
    <3>5. SumFunctionOnSet(f, M) = SumFunctionOnSet(g, M)
      BY <3>3, <3>4, SumSame
    <3>6. DOMAIN f = M
      BY <3>1, <3>2
    <3>7. SumFunction(f) = Volume(data, M)
      <4>1. SumFunction(f) = SumFunctionOnSet(f, M)
        BY <3>6 DEF SumFunction
      <4> QED BY <3>1, <3>5, <4>1 DEF Volume
    <3> QED BY <2>2, <3>1, <3>7 DEF LevelOf
  <2>5. ASSUME NEW k \in DOMAIN s
        PROVE  /\ data[s[k]].instrument = i /\ data[s[k]].side = side /\ data[s[k]].price = price
               /\ data[s[k]].remaining > 0
               /\ data[s[k]].prev = IF k = 1 THEN NullOrder ELSE s[k - 1]
               /\ k > 1 => data[s[k - 1]].sequence < data[s[k]].sequence
    <3>1. s[k] \in M
      BY <2>2 DEF Members
    <3>2. s[k] \in T /\ data[s[k]].side = side /\ data[s[k]].price = price
      BY <2>1, <3>1 DEF At
    <3>3. data[s[k]].instrument = i /\ data[s[k]].remaining > 0
      BY <1>3, <1>4, <3>2 DEF Live
    <3>4. /\ data[s[k]].prev = IF k = 1 THEN NullOrder ELSE s[k - 1]
          /\ k > 1 => data[s[k - 1]].sequence < data[s[k]].sequence
      BY <2>2 DEF Queued
    <3> QED BY <3>2, <3>3, <3>4
  <2> QED BY <1>2, <2>1, <2>3, <2>4, <2>5 DEF LevelWellFormed
<1>6. ASSUME NEW bid \in DOMAIN books[i].levels["Buy"], NEW ask \in DOMAIN books[i].levels["Sell"]
      PROVE  bid < ask
  <2>1. "Buy" \in Side /\ "Sell" \in Side
    BY DEF Side
  <2>2. (\E y \in T : data[y].side = "Buy" /\ data[y].price = bid) /\ \E y \in T : data[y].side = "Sell" /\ data[y].price = ask
    BY <1>4, <2>1 DEF LevelsOK, At
  <2> QED BY <1>3, <2>2 DEF Uncrossed
<1> QED BY <1>5, <1>6

\* The order map is exact while clients do not reuse a name that is in flight.
LEMMA InvOrderMapExact ==
  ASSUME ~KeyReuse
  PROVE  EngineInv => OrderMapExact /\ ActiveNamesUnique
<1> SUFFICES ASSUME EngineInv PROVE OrderMapExact /\ ActiveNamesUnique
  OBVIOUS
<1>1. PICK F, R : EngineOK(pool, books, nextSequence, InFlight, F, R)
  BY DEF EngineInv
<1>2. ASSUME NEW i \in Instrument
      PROVE  /\ Range(books[i].orderMap) = RestingIn(i)
             /\ \A key \in DOMAIN books[i].orderMap : KeyOf(pool.data[books[i].orderMap[key]]) = key
             /\ \A s, t \in RestingIn(i) : KeyOf(pool.data[s]) = KeyOf(pool.data[t]) => s = t
  <2>1. PICK data, T, map : data = pool.data /\ T = R[i] /\ map = books[i].orderMap
    OBVIOUS
  <2>2. BookOK(data, books[i], i, T) /\ RestingIn(i) = T /\ AllKnown(data, books[i], T)
    BY <1>1, <2>1, EngineView
  <2>3. \A key \in DOMAIN map : map[key] \in T /\ KeyOf(data[map[key]]) = key
    BY <2>1, <2>2 DEF BookOK
  <2>4. \A x \in T : KeyOf(data[x]) \in DOMAIN map /\ map[KeyOf(data[x])] = x
    BY <2>1, <2>2 DEF AllKnown
  <2>5. Range(map) = T
    BY <2>3, <2>4 DEF Range
  <2>6. \A s, t \in T : KeyOf(data[s]) = KeyOf(data[t]) => s = t
    BY <2>4
  <2> QED BY <2>1, <2>2, <2>3, <2>5, <2>6
<1> QED BY <1>2 DEF OrderMapExact, ActiveNamesUnique

-----------------------------------------------------------------------------
\* allocate, deallocate and every path of a command keep account of the slots.
THEOREM SlotsAccountedFor == Spec => []NoSlotLeaked
<1>1. Spec => []EngineInv
  BY EngineInvariant
<1>2. EngineInv => NoSlotLeaked
  BY InvNoSlotLeaked
<1> QED BY <1>1, <1>2, PTL

\* insert_limit, remove_order and the fills in place keep every book well formed.
THEOREM BooksWellFormed == Spec => []BookWellFormed
<1>1. Spec => []EngineInv
  BY EngineInvariant
<1>2. EngineInv => BookWellFormed
  BY InvBookWellFormed
<1> QED BY <1>1, <1>2, PTL

\* Every resting order is found by its name, and by no other's.
THEOREM OrdersFoundByName ==
  ASSUME ~KeyReuse
  PROVE  Spec => []OrderMapExact
<1>1. Spec => []EngineInv
  BY EngineInvariant
<1>2. EngineInv => OrderMapExact
  BY InvOrderMapExact
<1> QED BY <1>1, <1>2, PTL

\* What the contract says of names holds when no client reuses a name in flight.
THEOREM NamesUnique ==
  ASSUME ~KeyReuse
  PROVE  Spec => []ActiveNamesUnique
<1>1. Spec => []EngineInv
  BY EngineInvariant
<1>2. EngineInv => ActiveNamesUnique
  BY InvOrderMapExact
<1> QED BY <1>1, <1>2, PTL

\* The trades of a matching run are a sequence.
Listed(s) == \E S : s \in Seq(S)

\* Nothing and one more make sequences.
LEMMA ListedMore ==
  /\ Listed(<<>>)
  /\ \A s, x : Listed(s) => Listed(Append(s, x))
<1>1. Listed(<<>>)
  <2>1. <<>> \in Seq({})
    OBVIOUS
  <2> QED BY <2>1 DEF Listed
<1>2. ASSUME NEW s, NEW x, Listed(s) PROVE Listed(Append(s, x))
  <2>1. PICK S : s \in Seq(S)
    BY <1>2 DEF Listed
  <2>2. PICK T : T = S \cup {x}
    OBVIOUS
  <2>3. s \in Seq(T)
    BY <2>1, <2>2
  <2>4. Append(s, x) \in Seq(T)
    BY <2>2, <2>3
  <2> QED BY <2>4 DEF Listed
<1> QED BY <1>1, <1>2

\* match_buy and match_sell list their trades.
LEMMA TradesListed ==
  ASSUME NEW st, NEW idx
  PROVE  Listed(Match(st, idx).trades)
<1>1. PICK g : Rounds(g, st, idx, MaxOrders) /\ Match(st, idx) = g[MaxOrders]
  BY MatchIsRounds
<1>2. MaxOrders \in Nat
  BY PoolAssumption
<1> DEFINE Fine == {k \in Nat : k <= MaxOrders => Listed(g[k].trades)}
<1>3. 0 \in Fine
  <2>1. 0 \in 0..MaxOrders
    BY <1>2
  <2>2. g[0] = [pool |-> st.pool, book |-> st.book, trades |-> <<>>]
    BY <1>1, <2>1 DEF Rounds
  <2> QED BY <2>2, ListedMore
<1>4. ASSUME NEW k \in Nat, k \in Fine PROVE k + 1 \in Fine
  <2> SUFFICES ASSUME k + 1 <= MaxOrders PROVE Listed(g[k + 1].trades)
    OBVIOUS
  <2>1. Listed(g[k].trades)
    BY <1>2, <1>4
  <2>2. g[k + 1] = Round(g[k], idx)
    <3>1. k + 1 \in 0..MaxOrders /\ k + 1 # 0 /\ (k + 1) - 1 = k
      BY <1>2
    <3> QED BY <1>1, <3>1 DEF Rounds
  <2>3. CASE ~CanFill(g[k], idx)
    BY <2>1, <2>2, <2>3 DEF Round
  <2>4. CASE CanFill(g[k], idx)
    <3>1. \E trade : Fill(g[k], idx).trades = Append(g[k].trades, trade)
      BY DEF Fill
    <3> QED BY <2>1, <2>2, <2>4, <3>1, ListedMore DEF Round
  <2> QED BY <2>3, <2>4
<1>5. Nat \subseteq Fine
  <2> HIDE DEF Fine
  <2> QED BY <1>3, <1>4, Induction
<1>6. MaxOrders \in Fine
  BY <1>2, <1>5
<1> QED BY <1>1, <1>2, <1>6

\* An event in the middle makes the events not empty.
LEMMA SomeEvent ==
  ASSUME NEW x, NEW e, NEW f, NEW s, Listed(s)
  PROVE  ((IF x THEN <<e>> ELSE <<>>) \o <<f>>) \o s # <<>>
<1>1. PICK S : s \in Seq(S)
  BY DEF Listed
<1>2. PICK T : T = S \cup {e, f}
  OBVIOUS
<1>3. s \in Seq(T) /\ <<f>> \in Seq(T) /\ <<e>> \in Seq(T) /\ <<>> \in Seq(T)
  BY <1>1, <1>2
<1>4. PICK a, b : a = (IF x THEN <<e>> ELSE <<>>) /\ b = a \o <<f>>
  OBVIOUS
<1>5. a \in Seq(T)
  BY <1>3, <1>4
<1>6. b \in Seq(T) /\ Len(b) = Len(a) + 1 /\ Len(a) \in Nat
  BY <1>3, <1>4, <1>5
<1>7. Len(b \o s) = Len(b) + Len(s) /\ Len(s) \in Nat
  BY <1>3, <1>6
<1>8. Len(b \o s) # 0
  BY <1>6, <1>7
<1> QED BY <1>4, <1>8

\* The answer to a command is empty only when the order that it names is not in the book.
THEOREM SilenceMeansGone ==
  ASSUME ~KeyReuse
  PROVE  Spec => SilentOnlyWhenTargetGone
<1> DEFINE Answered ==
             \A k \in DOMAIN queue :
               lastExecuted' = pool.data[queue[k]].sequence /\ lastExecuted' # lastExecuted
               => \/ events' # <<>>
                  \/ LET o == pool.data[queue[k]]
                         name == <<o.account, IF o.kind = "Cancel" THEN o.clientOrderId ELSE o.target>>
                     IN  /\ o.kind # "New"
                         /\ \A s \in RestingIn(o.instrument) : KeyOf(pool.data[s]) # name
<1>1. Spec => []EngineInv
  BY EngineInvariant
<1>2. EngineInv /\ [Next]_vars => [Answered]_vars
  <2> SUFFICES ASSUME EngineInv, Next PROVE Answered
    OBVIOUS
  <2>1. ASSUME NEW command \in Command, Accept(command) PROVE Answered
    <3>1. UNCHANGED lastExecuted
      BY <2>1 DEF Accept, Admit
    <3> QED BY <3>1
  <2>2. CASE EnqueueOrder
    <3>1. UNCHANGED lastExecuted
      BY <2>2 DEF EnqueueOrder
    <3> QED BY <3>1
  <2>3. CASE ProcessOrder
    <3> SUFFICES ASSUME NEW k \in DOMAIN queue, lastExecuted' = pool.data[queue[k]].sequence, events' = <<>>
                 PROVE  LET o == pool.data[queue[k]]
                            name == <<o.account, IF o.kind = "Cancel" THEN o.clientOrderId ELSE o.target>>
                        IN  /\ o.kind # "New"
                            /\ \A s \in RestingIn(o.instrument) : KeyOf(pool.data[s]) # name
      OBVIOUS
    <3>1. PICK F, R : EngineOK(pool, books, nextSequence, InFlight, F, R)
      BY DEF EngineInv
    <3>2. PICK line, idx, o, i : line = InFlight /\ idx = Head(queue) /\ o = pool.data[idx] /\ i = o.instrument
      OBVIOUS
    <3>3. queue \in Seq(Slot) /\ pending \in Seq(Slot) /\ queue # <<>> /\ Process(idx)
      BY <2>3, <3>2 DEF EngineInv, ProcessOrder
    <3>4. /\ line \in Seq(Slot) /\ DOMAIN line = 1..Len(line) /\ Len(line) \in Nat
          /\ k \in DOMAIN line /\ line[k] = queue[k] /\ 1 \in DOMAIN line /\ line[1] = idx
      BY <3>2, <3>3 DEF InFlight
    <3>5. queue[k] = idx
      <4>1. pool.data[line[k]].sequence = pool.data[line[1]].sequence
        BY <3>2, <3>3, <3>4 DEF Process
      <4>2. LineOK(pool.data, line, nextSequence) /\ Records(pool.data)
        BY <3>1, <3>2 DEF EngineOK, PoolOK, Records
      <4>3. ~(1 < k)
        <5>1. 1 < k => pool.data[line[1]].sequence < pool.data[line[k]].sequence
          BY <3>4, <4>2 DEF LineOK
        <5>2. pool.data[line[1]].sequence \in Nat
          <6>1. line[1] \in Slot
            BY <3>4
          <6> QED BY <4>2, <6>1, RecordFields
        <5> QED BY <4>1, <5>1, <5>2
      <4> QED BY <3>4, <4>3
    <3>6. i \in Instrument /\ RestingIn(i) = R[i] /\ AllKnown(pool.data, books[i], R[i])
      <4>1. i \in Instrument
        <5>1. idx \in Members(line)
          BY <3>4 DEF Members
        <5> QED BY <3>1, <3>2, <5>1 DEF EngineOK, LineOK
      <4> QED BY <3>1, <4>1, EngineView
    <3>7. PICK named : named = <<o.account, IF o.kind = "Cancel" THEN o.clientOrderId ELSE o.target>>
      OBVIOUS
    <3>8. ~ProcessIncoming(i, idx)
      <4> SUFFICES ASSUME ProcessIncoming(i, idx) PROVE FALSE
        OBVIOUS
      <4>1. PICK run : /\ Listed(run.trades)
                       /\ events' = ((IF o.kind = "Replace" THEN <<Replaced(o)>> ELSE <<>>) \o <<Accepted(o)>>) \o run.trades
        <5>1. PICK before : before = CancelFirst([pool |-> pool, book |-> books[i]], idx)
          OBVIOUS
        <5>2. PICK run : run = Match([before EXCEPT !.pool.data[idx].kind = "New"], idx)
          OBVIOUS
        <5>3. Listed(run.trades)
          BY <5>2, TradesListed
        <5>4. events' = ((IF o.kind = "Replace" THEN <<Replaced(o)>> ELSE <<>>) \o <<Accepted(o)>>) \o run.trades
          BY <3>2, <5>1, <5>2 DEF ProcessIncoming
        <5> QED BY <5>3, <5>4
      <4>2. events' # <<>>
        BY <4>1, SomeEvent
      <4> QED BY <4>2
    <3>9. ~ProcessCancel(i, idx)
      <4>1. <<Cancelled(o)>> # <<>>
        OBVIOUS
      <4> QED BY <3>2, <4>1 DEF ProcessCancel
    <3>10. o.kind # "New" /\ ~ContainsOrder(books[i], named)
      BY <3>2, <3>3, <3>7, <3>8, <3>9 DEF Process, BookOf
    <3>11. \A s \in RestingIn(i) : KeyOf(pool.data[s]) # named
      BY <3>6, <3>10 DEF AllKnown, ContainsOrder
    <3> QED BY <3>2, <3>5, <3>7, <3>10, <3>11
  <2> QED BY <2>1, <2>2, <2>3 DEF Next
<1>3. Spec => [][Answered]_vars
  BY <1>1, <1>2, PTL DEF Spec
<1> QED BY <1>3 DEF SilentOnlyWhenTargetGone
=============================================================================
