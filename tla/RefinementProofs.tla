-------------------------- MODULE RefinementProofs -------------------------
(***************************************************************************)
(* The matching engine implements PriceTimeBook, for every instrument,     *)
(* price, quantity and number of orders, and for clients that do not reuse *)
(* an order id that is in flight.  Both sides are cut into single trades:  *)
(* what PriceTimeBook says of an order and a book is its first trade, and  *)
(* what it says of the rest of the order and the rest of the book; and one *)
(* fill of the matching loop makes that first trade.                       *)
(***************************************************************************)
EXTENDS EngineProofs

-----------------------------------------------------------------------------
(***************************************************************************)
(* PriceTimeBook, one trade at a time.                                     *)
(***************************************************************************)
\* The instance has operators of its own for what the modules share.
LEMMA SharedOperators ==
  /\ \A S : Promise!Cardinality(S) = Cardinality(S)
  /\ \A f, S : Promise!SumFunctionOnSet(f, S) = SumFunctionOnSet(f, S)
  /\ \A f : Promise!SumFunction(f) = SumFunctionOnSet(f, DOMAIN f)
<1>1. \A S : Promise!Cardinality(S) = Cardinality(S)
  BY DEF Promise!Cardinality, Cardinality
<1>2. \A f, S : Promise!SumFunctionOnSet(f, S) = SumFunctionOnSet(f, S)
  BY DEF Promise!SumFunctionOnSet, SumFunctionOnSet, Promise!FoldFunctionOnSet, FoldFunctionOnSet,
         Promise!MapThenFoldSet, MapThenFoldSet
<1> QED BY <1>1, <1>2 DEF Promise!SumFunction

\* What an order of the book is made of.
OrderShape(r) ==
  r = [instrument |-> r.instrument, key |-> r.key, side |-> r.side, price |-> r.price,
       remaining |-> r.remaining, id |-> r.id, sequence |-> r.sequence]

\* An order of which less, or more, remains.
WithLeft(r, n) == [r EXCEPT !.remaining = n]

\* Orders of one side among which everybody has a place.
Orderly(S) ==
  /\ IsFiniteSet(S)
  /\ \A r \in S : OrderShape(r) /\ r.price \in Nat /\ r.sequence \in Nat /\ r.remaining \in Nat /\ r.remaining > 0
  /\ \A q, r \in S : q.side = r.side /\ (q.price = r.price /\ q.sequence = r.sequence => q = r)

\* Price and time put them in a strict order.
LEMMA BeforeIsStrict ==
  ASSUME NEW S, Orderly(S)
  PROVE  /\ \A r \in S : ~Promise!Before(r, r)
         /\ \A q, r \in S : q # r => Promise!Before(q, r) \/ Promise!Before(r, q)
         /\ \A q, r \in S : ~(Promise!Before(q, r) /\ Promise!Before(r, q))
<1>1. \A q, r \in S : /\ q.price \in Nat /\ q.sequence \in Nat /\ r.price \in Nat /\ r.sequence \in Nat
                      /\ q.side = r.side /\ (q.price = r.price /\ q.sequence = r.sequence => q = r)
  BY DEF Orderly
<1> SUFFICES ASSUME NEW q \in S, NEW r \in S
             PROVE  /\ ~Promise!Before(r, r)
                    /\ q # r => Promise!Before(q, r) \/ Promise!Before(r, q)
                    /\ ~(Promise!Before(q, r) /\ Promise!Before(r, q))
  OBVIOUS
<1> QED BY <1>1 DEF Promise!Before, Promise!Better

\* It is transitive.
LEMMA BeforeGoesOn ==
  ASSUME NEW S, Orderly(S), NEW q \in S, NEW r \in S, NEW t \in S, Promise!Before(q, r), Promise!Before(r, t)
  PROVE  Promise!Before(q, t)
<1>1. /\ q.price \in Nat /\ q.sequence \in Nat /\ r.price \in Nat /\ r.sequence \in Nat /\ t.price \in Nat
      /\ t.sequence \in Nat /\ q.side = r.side /\ r.side = t.side
  BY DEF Orderly
<1> QED BY <1>1 DEF Promise!Before, Promise!Better

\* What remains of a set of orders is what remains of one of them and of the others.
LEMMA TotalWithout ==
  ASSUME NEW S, IsFiniteSet(S), \A r \in S : r.remaining \in Nat
  PROVE  /\ Promise!Total(S) \in Nat
         /\ \A r \in S : Promise!Total(S) = r.remaining + Promise!Total(S \ {r}) /\ r.remaining <= Promise!Total(S)
         /\ S = {} => Promise!Total(S) = 0
<1>1. PICK f : f = [q \in S |-> q.remaining]
  OBVIOUS
<1>2. \A q \in S : f[q] = q.remaining
  BY <1>1
<1>3. Promise!Total(S) = SumFunctionOnSet(f, S)
  BY <1>1, SharedOperators DEF Promise!Total
<1>4. ASSUME NEW r \in S
      PROVE  Promise!Total(S) = r.remaining + Promise!Total(S \ {r}) /\ r.remaining <= Promise!Total(S)
  <2>1. PICK T, g : T = S \ {r} /\ g = [q \in T |-> q.remaining]
    OBVIOUS
  <2>2. Promise!Total(T) = SumFunctionOnSet(g, T)
    BY <2>1, SharedOperators DEF Promise!Total
  <2>3. IsFiniteSet(T)
    BY <2>1, FS_Subset
  <2>4. \A q \in T : g[q] = f[q]
    BY <1>2, <2>1
  <2>5. SumFunctionOnSet(g, T) = SumFunctionOnSet(f, T)
    BY <2>3, <2>4, SumSame
  <2>6. \A q \in S : f[q] \in Int /\ f[q] \in Nat
    BY <1>2
  <2>7. SumFunctionOnSet(f, S) = f[r] + SumFunctionOnSet(f, S \ {r})
    BY <2>6, SumWithout
  <2>8. f[r] <= SumFunctionOnSet(f, S)
    BY <2>6, SumBounds
  <2> QED BY <1>2, <1>3, <2>1, <2>2, <2>5, <2>7, <2>8
<1>5. Promise!Total(S) \in Nat
  BY <1>2, <1>3, SumBounds
<1>6. S = {} => Promise!Total(S) = 0
  BY <1>3, SumEmpty
<1> QED BY <1>4, <1>5, <1>6

\* The orders of S that come before r.
Ahead(S, r) == {q \in S : Promise!Before(q, r)}

\* Among some orders one is before all others.
LEMMA SomebodyFirst ==
  ASSUME NEW S, Orderly(S), S # {}
  PROVE  \E first \in S : \A q \in S \ {first} : Promise!Before(first, q)
<1> DEFINE Led == {T \in SUBSET S : T = {} \/ \E r \in T : \A q \in T \ {r} : Promise!Before(r, q)}
<1>1. {} \in Led
  OBVIOUS
<1>2. ASSUME NEW T \in SUBSET S, NEW x \in S \ T, T \in Led PROVE T \cup {x} \in Led
  <2>1. CASE T = {}
    <3>1. \A q \in (T \cup {x}) \ {x} : Promise!Before(x, q)
      BY <2>1
    <3> QED BY <1>2, <3>1
  <2>2. CASE T # {}
    <3>1. PICK r \in T : \A q \in T \ {r} : Promise!Before(r, q)
      BY <1>2, <2>2
    <3>2. r \in S /\ x \in S /\ r # x
      BY <1>2, <3>1
    <3>3. CASE Promise!Before(r, x)
      <4>1. \A q \in (T \cup {x}) \ {r} : Promise!Before(r, q)
        BY <3>1, <3>3
      <4> QED BY <1>2, <3>1, <4>1
    <3>4. CASE Promise!Before(x, r)
      <4>1. \A q \in T : Promise!Before(x, q)
        <5> SUFFICES ASSUME NEW q \in T, q # r PROVE Promise!Before(x, q)
          BY <3>4
        <5>1. Promise!Before(r, q) /\ q \in S
          BY <1>2, <3>1
        <5> QED BY <3>2, <3>4, <5>1, BeforeGoesOn
      <4>2. \A q \in (T \cup {x}) \ {x} : Promise!Before(x, q)
        BY <4>1
      <4> QED BY <1>2, <4>2
    <3> QED BY <3>2, <3>3, <3>4, BeforeIsStrict
  <2> QED BY <2>1, <2>2
<1>3. S \in Led
  <2> HIDE DEF Led
  <2>1. IsFiniteSet(S)
    BY DEF Orderly
  <2> QED BY <1>1, <1>2, <2>1, SetInduction
<1> QED BY <1>3

\* Whoever is before all others is the first, and the others follow in their own turn.
LEMMA TurnsShift ==
  ASSUME NEW S, Orderly(S), NEW first \in S, \A q \in S \ {first} : Promise!Before(first, q)
  PROVE  /\ Promise!InTurn(S, 1) = first
         /\ \A n \in Nat : n >= 1 => Promise!InTurn(S, n + 1) = Promise!InTurn(S \ {first}, n)
<1>1. PICK T : T = S \ {first}
  OBVIOUS
<1>2. IsFiniteSet(S) /\ IsFiniteSet(T)
  BY <1>1, FS_Subset DEF Orderly
<1>3. Ahead(S, first) = {}
  BY BeforeIsStrict DEF Ahead
<1>4. ASSUME NEW r \in T
      PROVE  /\ Cardinality(Ahead(T, r)) \in Nat
             /\ Cardinality(Ahead(S, r)) = Cardinality(Ahead(T, r)) + 1
  <2>1. Ahead(S, r) = Ahead(T, r) \cup {first} /\ first \notin Ahead(T, r)
    BY <1>1, <1>4 DEF Ahead
  <2>2. IsFiniteSet(Ahead(T, r))
    BY <1>2, FS_Subset DEF Ahead
  <2> QED BY <2>1, <2>2, FS_AddElement, FS_CardinalityType
<1>5. \A R, n : Promise!InTurn(R, n) = CHOOSE r : r \in R /\ Cardinality(Ahead(R, r)) = n - 1
  BY SharedOperators DEF Promise!InTurn, Ahead
<1>6. Cardinality(Ahead(S, first)) = 0
  BY <1>3, FS_EmptySet
<1>7. \A r : r \in S /\ Cardinality(Ahead(S, r)) = 1 - 1 <=> r = first
  BY <1>1, <1>4, <1>6
<1>8. Promise!InTurn(S, 1) = first
  <2>1. Promise!InTurn(S, 1) = CHOOSE r : r \in S /\ Cardinality(Ahead(S, r)) = 1 - 1
    BY <1>5
  <2> QED BY <1>7, <2>1
<1>9. ASSUME NEW n \in Nat, n >= 1 PROVE Promise!InTurn(S, n + 1) = Promise!InTurn(T, n)
  <2>1. \A r : (r \in S /\ Cardinality(Ahead(S, r)) = (n + 1) - 1) <=> (r \in T /\ Cardinality(Ahead(T, r)) = n - 1)
    <3> SUFFICES ASSUME NEW r
                 PROVE (r \in S /\ Cardinality(Ahead(S, r)) = (n + 1) - 1) <=> (r \in T /\ Cardinality(Ahead(T, r)) = n - 1)
      OBVIOUS
    <3>1. CASE r \in T
      <4>1. r \in S
        BY <1>1, <3>1
      <4> QED BY <1>4, <1>9, <3>1, <4>1
    <3>2. CASE r \notin T
      <4>1. r \in S => Cardinality(Ahead(S, r)) = 0
        BY <1>1, <1>6, <3>2
      <4> QED BY <1>9, <3>2, <4>1
    <3> QED BY <3>1, <3>2
  <2>2. Promise!InTurn(S, n + 1) = CHOOSE r : r \in S /\ Cardinality(Ahead(S, r)) = (n + 1) - 1
    BY <1>5
  <2>3. Promise!InTurn(T, n) = CHOOSE r : r \in T /\ Cardinality(Ahead(T, r)) = n - 1
    BY <1>5
  <2> QED BY <2>1, <2>2, <2>3
<1> QED BY <1>1, <1>8, <1>9

\* Only what remains of it is another.
LEMMA LeftChanged ==
  ASSUME NEW r, OrderShape(r), NEW n
  PROVE  /\ OrderShape(WithLeft(r, n)) /\ WithLeft(r, n).remaining = n
         /\ WithLeft(r, n).instrument = r.instrument /\ WithLeft(r, n).key = r.key
         /\ WithLeft(r, n).side = r.side /\ WithLeft(r, n).price = r.price
         /\ WithLeft(r, n).id = r.id /\ WithLeft(r, n).sequence = r.sequence
         /\ \A m : WithLeft(WithLeft(r, n), m) = WithLeft(r, m)
<1>1. \A m : WithLeft(r, m) = [instrument |-> r.instrument, key |-> r.key, side |-> r.side, price |-> r.price,
                               remaining |-> m, id |-> r.id, sequence |-> r.sequence]
  BY DEF OrderShape, WithLeft
<1>2. PICK s : s = WithLeft(r, n)
  OBVIOUS
<1>3. s = [instrument |-> r.instrument, key |-> r.key, side |-> r.side, price |-> r.price,
           remaining |-> n, id |-> r.id, sequence |-> r.sequence]
  BY <1>1, <1>2
<1>4. \A m : WithLeft(s, m) = WithLeft(r, m)
  BY <1>1, <1>3 DEF WithLeft
<1> QED BY <1>2, <1>3, <1>4 DEF OrderShape

\* The smaller of what is left and what remains.
LEMMA SmallerLeft ==
  ASSUME NEW a \in Nat, NEW b \in Nat
  PROVE  Promise!Min({a, b}) = IF a <= b THEN a ELSE b
<1>1. Promise!Min({a, b}) = CHOOSE x \in {a, b} : \A y \in {a, b} : x =< y
  BY DEF Promise!Min
<1>2. PICK m : m = IF a <= b THEN a ELSE b
  OBVIOUS
<1>3. \A x : (x \in {a, b} /\ \A y \in {a, b} : x =< y) <=> x = m
  BY <1>2
<1> QED BY <1>1, <1>2, <1>3

\* Everybody has a turn.
LEMMA TurnsTaken ==
  ASSUME NEW S, Orderly(S), NEW n \in 1..Cardinality(S)
  PROVE  \E r \in S : Cardinality(Ahead(S, r)) = n - 1
<1> DEFINE Served(k) == \A T \in SUBSET S : Cardinality(T) = k =>
                         \A j \in 1..k : \E r \in T : Cardinality(Ahead(T, r)) = j - 1
           Fair == {k \in Nat : Served(k)}
<1>1. 0 \in Fair
  BY 1..0 = {}
<1>2. ASSUME NEW k \in Nat, k \in Fair PROVE k + 1 \in Fair
  <2> SUFFICES ASSUME NEW T \in SUBSET S, Cardinality(T) = k + 1, NEW j \in 1..k + 1
               PROVE  \E r \in T : Cardinality(Ahead(T, r)) = j - 1
    OBVIOUS
  <2>1. IsFiniteSet(T) /\ Orderly(T)
    <3>1. IsFiniteSet(T)
      BY FS_Subset DEF Orderly
    <3> QED BY <3>1 DEF Orderly
  <2>2. T # {}
    BY FS_EmptySet
  <2>3. PICK first \in T : \A q \in T \ {first} : Promise!Before(first, q)
    BY <2>1, <2>2, SomebodyFirst
  <2>4. PICK U : U = T \ {first}
    OBVIOUS
  <2>5. Cardinality(U) = k /\ IsFiniteSet(U)
    BY <2>1, <2>4, RemoveOne
  <2>6. ASSUME NEW r \in U PROVE Cardinality(Ahead(T, r)) = Cardinality(Ahead(U, r)) + 1
    <3>1. Ahead(T, r) = Ahead(U, r) \cup {first} /\ first \notin Ahead(U, r)
      BY <2>3, <2>4, <2>6 DEF Ahead
    <3>2. IsFiniteSet(Ahead(U, r))
      BY <2>5, FS_Subset DEF Ahead
    <3> QED BY <3>1, <3>2, FS_AddElement
  <2>7. CASE j = 1
    <3>1. Ahead(T, first) = {}
      BY <2>1, <2>3, BeforeIsStrict DEF Ahead
    <3>2. Cardinality(Ahead(T, first)) = 0
      BY <3>1, FS_EmptySet
    <3> QED BY <2>7, <3>2
  <2>8. CASE j # 1
    <3>1. j - 1 \in 1..k /\ U \in SUBSET S
      BY <2>4, <2>8
    <3>2. PICK r \in U : Cardinality(Ahead(U, r)) = (j - 1) - 1
      BY <1>2, <2>5, <3>1
    <3>3. r \in T /\ Cardinality(Ahead(T, r)) = ((j - 1) - 1) + 1
      BY <2>4, <2>6, <3>2
    <3>4. ((j - 1) - 1) + 1 = j - 1
      BY <3>1
    <3> QED BY <3>3, <3>4
  <2> QED BY <2>7, <2>8
<1>3. Nat \subseteq Fair
  <2> HIDE DEF Fair
  <2> QED BY <1>1, <1>2, Induction
<1>4. Cardinality(S) \in Nat
  BY FS_CardinalityType DEF Orderly
<1>5. Served(Cardinality(S))
  BY <1>3, <1>4
<1> QED BY <1>5

\* What an order takes, given what remains of the orders ahead of it.
Share(wanted, ahead, there) ==
  IF wanted <= ahead THEN 0 ELSE IF wanted - ahead <= there THEN wanted - ahead ELSE there

\* The share of each.
LEMMA TakenIsShare ==
  ASSUME NEW book, NEW o, o.remaining \in Nat, NEW M, M = Promise!Matchable(book, o), Orderly(M), NEW r \in M
  PROVE  /\ Promise!Total(Ahead(M, r)) \in Nat
         /\ Promise!Taken(book, o, r) = Share(o.remaining, Promise!Total(Ahead(M, r)), r.remaining)
         /\ Promise!Taken(book, o, r) \in Nat /\ Promise!Taken(book, o, r) <= r.remaining
<1>1. IsFiniteSet(Ahead(M, r)) /\ \A q \in Ahead(M, r) : q.remaining \in Nat
  BY FS_Subset DEF Ahead, Orderly
<1>2. PICK t : t = Promise!Total(Ahead(M, r))
  OBVIOUS
<1>3. t \in Nat
  BY <1>1, <1>2, TotalWithout
<1>4. r.remaining \in Nat
  BY DEF Orderly
<1>5. Promise!Taken(book, o, r) = IF o.remaining - t <= 0 THEN 0 ELSE Promise!Min({o.remaining - t, r.remaining})
  BY <1>2 DEF Promise!Taken, Ahead
<1>6. ASSUME ~(o.remaining - t <= 0) PROVE o.remaining - t \in Nat
  BY <1>3, <1>6
<1>7. PICK d : d = o.remaining - t
  OBVIOUS
<1>8. ~(d <= 0) => Promise!Min({d, r.remaining}) = IF d <= r.remaining THEN d ELSE r.remaining
  BY <1>4, <1>6, <1>7, SmallerLeft
<1> QED BY <1>2, <1>3, <1>4, <1>5, <1>7, <1>8 DEF Share

\* An order that wants nothing, or finds nobody, trades with nobody.
LEMMA NobodyHit ==
  ASSUME NEW book, NEW o, OrderShape(o), o.remaining \in Nat, NEW M, M = Promise!Matchable(book, o), Orderly(M),
         o.remaining = 0 \/ M = {}
  PROVE  /\ Promise!TradesOf(book, o) = <<>>
         /\ Promise!BookAfter(book, o) = book \cup {r \in {o} : r.remaining > 0}
<1>1. Promise!Hit(book, o) = {}
  <2>1. \A r \in M : o.remaining = 0 => Promise!Taken(book, o, r) = 0
    <3> SUFFICES ASSUME NEW r \in M, o.remaining = 0 PROVE Promise!Taken(book, o, r) = 0
      OBVIOUS
    <3>1. Promise!Total(Ahead(M, r)) \in Nat
          /\ Promise!Taken(book, o, r) = Share(o.remaining, Promise!Total(Ahead(M, r)), r.remaining)
      BY TakenIsShare
    <3> QED BY <3>1 DEF Share
  <2> QED BY <2>1 DEF Promise!Hit
<1>2. Promise!TradesOf(book, o) = <<>>
  <2>1. Promise!Cardinality({}) = 0
    BY SharedOperators, FS_EmptySet
  <2>2. 1..0 = {}
    OBVIOUS
  <2> QED BY <1>1, <2>1, <2>2 DEF Promise!TradesOf
<1>3. Promise!SumFunction([r \in {} |-> Promise!Taken(book, o, r)]) = 0
  <2>1. DOMAIN [r \in {} |-> Promise!Taken(book, o, r)] = {}
    OBVIOUS
  <2> QED BY <2>1, SharedOperators, SumEmpty
<1>4. [o EXCEPT !.remaining = o.remaining - 0] = o
  <2>1. o.remaining - 0 = o.remaining
    OBVIOUS
  <2>2. WithLeft(o, o.remaining) = o
    BY DEF OrderShape, WithLeft
  <2> QED BY <2>1, <2>2 DEF WithLeft
<1>5. Promise!BookAfter(book, o) = (book \ {}) \cup {r \in {} \cup {o} : r.remaining > 0}
  BY <1>1, <1>3, <1>4 DEF Promise!BookAfter
<1> QED BY <1>2, <1>5

\* A trade, and what follows it.
Follows(all, trade, others) ==
  \E m \in Nat : /\ DOMAIN others = 1..m /\ others = [n \in 1..m |-> others[n]]
                 /\ all = [n \in 1..m + 1 |-> IF n = 1 THEN trade ELSE others[n - 1]]

\* The incoming order o meets first, the best of those it may trade with.
Meets(book, o, first) ==
  /\ OrderShape(o) /\ o.remaining \in Nat /\ o.remaining > 0
  /\ Orderly(Promise!Matchable(book, o)) /\ first \in Promise!Matchable(book, o)
  /\ \A q \in Promise!Matchable(book, o) \ {first} : Promise!Before(first, q)

\* What the trade with the best leaves of the book.
Thinned(book, first, x) == (book \ {first}) \cup {r \in {WithLeft(first, first.remaining - x)} : r.remaining > 0}

\* Nobody of M is ahead of first, who is ahead of all the others.
AtTheHead(M, first, T) ==
  /\ Ahead(M, first) = {} /\ Orderly(T)
  /\ \A r \in T : /\ Promise!Total(Ahead(T, r)) \in Nat
                  /\ Promise!Total(Ahead(M, r)) = first.remaining + Promise!Total(Ahead(T, r))

\* Nobody is ahead of the best, who is ahead of all others.
LEMMA AheadOfOthers ==
  ASSUME NEW book, NEW o, NEW first, Meets(book, o, first),
         NEW M, M = Promise!Matchable(book, o), NEW T, T = M \ {first}
  PROVE  AtTheHead(M, first, T)
<1>1. Orderly(M) /\ first \in M /\ \A q \in T : Promise!Before(first, q)
  BY DEF Meets
<1>2. Ahead(M, first) = {}
  BY <1>1, BeforeIsStrict DEF Ahead
<1>3. Orderly(T)
  <2>1. IsFiniteSet(T)
    BY <1>1, FS_Subset DEF Orderly
  <2> QED BY <1>1, <2>1 DEF Orderly
<1>4. ASSUME NEW r \in T
      PROVE  /\ Ahead(M, r) = Ahead(T, r) \cup {first}
             /\ Promise!Total(Ahead(T, r)) \in Nat
             /\ Promise!Total(Ahead(M, r)) = first.remaining + Promise!Total(Ahead(T, r))
  <2>1. Ahead(M, r) = Ahead(T, r) \cup {first} /\ Ahead(M, r) \ {first} = Ahead(T, r) /\ first \in Ahead(M, r)
    BY <1>1 DEF Ahead
  <2>2. IsFiniteSet(Ahead(M, r)) /\ \A q \in Ahead(M, r) : q.remaining \in Nat
    BY <1>1, FS_Subset DEF Ahead, Orderly
  <2>3. Promise!Total(Ahead(M, r)) = first.remaining + Promise!Total(Ahead(M, r) \ {first})
    BY <2>1, <2>2, TotalWithout
  <2>4. IsFiniteSet(Ahead(T, r)) /\ \A q \in Ahead(T, r) : q.remaining \in Nat
    BY <2>1, <2>2, FS_Subset
  <2>5. Promise!Total(Ahead(T, r)) \in Nat
    BY <2>4, TotalWithout
  <2> QED BY <2>1, <2>3, <2>5
<1> QED BY <1>2, <1>3, <1>4 DEF AtTheHead

\* The best takes or fills all that is wanted: nobody else is hit.
LEMMA LastTrade ==
  ASSUME NEW book, NEW o, NEW first, Meets(book, o, first), o.remaining <= first.remaining
  PROVE  /\ Promise!TradesOf(book, o) = <<Promise!TradeOf(o, first, o.remaining)>>
         /\ Promise!BookAfter(book, o) = Thinned(book, first, o.remaining)
<1>1. PICK M, T, x : M = Promise!Matchable(book, o) /\ T = M \ {first} /\ x = o.remaining
  OBVIOUS
<1>2. Orderly(M) /\ first \in M /\ OrderShape(o) /\ x \in Nat /\ x > 0 /\ first.remaining \in Nat /\ x <= first.remaining
      /\ OrderShape(first)
  BY <1>1 DEF Meets, Orderly
<1>3. Promise!Taken(book, o, first) = x
  <2>1. Ahead(M, first) = {}
    BY <1>1, AheadOfOthers DEF AtTheHead
  <2>2. Promise!Taken(book, o, first) = Share(x, Promise!Total({}), first.remaining)
    BY <1>1, <1>2, <2>1, TakenIsShare
  <2>3. Promise!Total({}) = 0
    BY FS_EmptySet, TotalWithout
  <2> QED BY <1>2, <2>2, <2>3 DEF Share
<1>4. \A r \in T : Promise!Taken(book, o, r) = 0
  <2> SUFFICES ASSUME NEW r \in T PROVE Promise!Taken(book, o, r) = 0
    OBVIOUS
  <2>1. Promise!Taken(book, o, r) = Share(x, Promise!Total(Ahead(M, r)), r.remaining)
    BY <1>1, <1>2, TakenIsShare
  <2>2. Promise!Total(Ahead(T, r)) \in Nat /\ Promise!Total(Ahead(M, r)) = first.remaining + Promise!Total(Ahead(T, r))
    BY <1>1, AheadOfOthers DEF AtTheHead
  <2>3. x <= Promise!Total(Ahead(M, r))
    BY <1>2, <2>2
  <2> QED BY <2>1, <2>3 DEF Share
<1>5. Promise!Hit(book, o) = {first}
  BY <1>1, <1>2, <1>3, <1>4 DEF Promise!Hit
<1>6. Promise!InTurn({first}, 1) = first
  <2>1. Orderly({first})
    <3>1. IsFiniteSet({first})
      BY FS_Singleton
    <3> QED BY <1>2, <3>1 DEF Orderly
  <2>2. \A q \in {first} \ {first} : Promise!Before(first, q)
    OBVIOUS
  <2> QED BY <2>1, <2>2, TurnsShift
<1>7. Promise!TradesOf(book, o) = <<Promise!TradeOf(o, first, x)>>
  <2>1. Promise!Cardinality({first}) = 1
    BY SharedOperators, FS_Singleton
  <2>2. 1..1 = {1}
    OBVIOUS
  <2>3. Promise!TradesOf(book, o) =
          [n \in {1} |-> Promise!TradeOf(o, Promise!InTurn({first}, n), Promise!Taken(book, o, Promise!InTurn({first}, n)))]
    BY <1>5, <2>1, <2>2 DEF Promise!TradesOf
  <2>4. PICK t : t = Promise!TradeOf(o, first, x)
    OBVIOUS
  <2>5. Promise!TradesOf(book, o) = [n \in {1} |-> t]
    BY <1>3, <1>6, <2>3, <2>4
  <2>6. <<t>> = [n \in {1} |-> t]
    OBVIOUS
  <2> QED BY <2>4, <2>5, <2>6
<1>8. Promise!SumFunction([r \in {first} |-> Promise!Taken(book, o, r)]) = x
  <2>1. PICK f : f = [r \in {first} |-> Promise!Taken(book, o, r)]
    OBVIOUS
  <2>2. f[first] = x /\ DOMAIN f = {first}
    BY <1>3, <2>1
  <2>3. SumFunctionOnSet(f, {first}) = f[first] + SumFunctionOnSet(f, {first} \ {first})
    <3>1. \A r \in {first} : f[r] \in Int
      BY <1>2, <2>2
    <3>2. IsFiniteSet({first})
      BY FS_Singleton
    <3> QED BY <3>1, <3>2, SumWithout
  <2>4. {first} \ {first} = {}
    OBVIOUS
  <2>5. SumFunctionOnSet(f, {}) = 0
    BY SumEmpty
  <2>6. SumFunctionOnSet(f, {first}) = x
    BY <1>2, <2>2, <2>3, <2>4, <2>5
  <2> QED BY <2>1, <2>2, <2>6, SharedOperators
<1>9. PICK a, b : a = WithLeft(first, first.remaining - x) /\ b = WithLeft(o, 0)
  OBVIOUS
<1>10. b.remaining = 0
  BY <1>2, <1>9, LeftChanged
<1>11. Promise!BookAfter(book, o) = (book \ {first}) \cup {r \in {a} \cup {b} : r.remaining > 0}
  <2>1. o.remaining - x = 0
    BY <1>1, <1>2
  <2>2. b = [o EXCEPT !.remaining = o.remaining - x]
    BY <1>9, <2>1 DEF WithLeft
  <2>3. {[r EXCEPT !.remaining = @ - Promise!Taken(book, o, r)] : r \in {first}} = {a}
    BY <1>3, <1>9 DEF WithLeft
  <2> QED BY <1>5, <1>8, <2>2, <2>3 DEF Promise!BookAfter
<1>12. {r \in {a} \cup {b} : r.remaining > 0} = {r \in {a} : r.remaining > 0}
  BY <1>10
<1> QED BY <1>1, <1>7, <1>9, <1>11, <1>12 DEF Thinned

\* The best is used up: the order goes on to the others with what it still wants.
LEMMA NextTrade ==
  ASSUME NEW book, NEW o, NEW first, Meets(book, o, first), o.remaining > first.remaining,
         NEW x, x = first.remaining, NEW book2, book2 = Thinned(book, first, x),
         NEW o2, o2 = WithLeft(o, o.remaining - x)
  PROVE  /\ Follows(Promise!TradesOf(book, o), Promise!TradeOf(o, first, x), Promise!TradesOf(book2, o2))
         /\ Promise!BookAfter(book, o) = Promise!BookAfter(book2, o2)
<1>1. PICK M, T, want : M = Promise!Matchable(book, o) /\ T = M \ {first} /\ want = o.remaining - x
  OBVIOUS
<1>2. /\ Orderly(M) /\ first \in M /\ OrderShape(o) /\ x \in Nat /\ x > 0 /\ o.remaining \in Nat /\ OrderShape(first)
      /\ x < o.remaining /\ first \in book
  BY <1>1 DEF Meets, Orderly, Promise!Matchable
<1>3. want \in Nat /\ want > 0 /\ o.remaining = want + x
  BY <1>1, <1>2
<1>4. /\ OrderShape(o2) /\ o2.remaining = want /\ o2.instrument = o.instrument /\ o2.side = o.side
      /\ o2.price = o.price /\ o2.id = o.id
  BY <1>1, <1>2, LeftChanged
<1>5. PICK gone : gone = WithLeft(first, 0)
  OBVIOUS
<1>6. gone.remaining = 0
  BY <1>2, <1>5, LeftChanged
<1>7. book2 = book \ {first}
  <2>1. first.remaining - x = 0
    BY <1>2
  <2>2. {r \in {gone} : r.remaining > 0} = {}
    BY <1>6
  <2> QED BY <1>5, <2>1, <2>2 DEF Thinned
<1>8. Promise!Matchable(book2, o2) = T
  BY <1>1, <1>4, <1>7 DEF Promise!Matchable
<1>9. /\ Orderly(T) /\ Ahead(M, first) = {}
      /\ \A r \in T : /\ Promise!Total(Ahead(T, r)) \in Nat
                      /\ Promise!Total(Ahead(M, r)) = first.remaining + Promise!Total(Ahead(T, r))
  <2>1. AtTheHead(M, first, T)
    BY <1>1, AheadOfOthers
  <2> QED BY <2>1 DEF AtTheHead
<1>10. Promise!Taken(book, o, first) = x
  <2>1. Promise!Taken(book, o, first) = Share(o.remaining, Promise!Total({}), first.remaining)
    <3>1. Promise!Taken(book, o, first) = Share(o.remaining, Promise!Total(Ahead(M, first)), first.remaining)
      BY <1>1, <1>2, TakenIsShare
    <3> QED BY <1>9, <3>1
  <2>2. Promise!Total({}) = 0
    BY FS_EmptySet, TotalWithout
  <2> QED BY <1>2, <2>1, <2>2 DEF Share
<1>11. \A r \in T : Promise!Taken(book, o, r) = Promise!Taken(book2, o2, r) /\ Promise!Taken(book, o, r) \in Nat
  <2> SUFFICES ASSUME NEW r \in T
               PROVE  Promise!Taken(book, o, r) = Promise!Taken(book2, o2, r) /\ Promise!Taken(book, o, r) \in Nat
    OBVIOUS
  <2>1. Promise!Taken(book, o, r) = Share(o.remaining, Promise!Total(Ahead(M, r)), r.remaining)
        /\ Promise!Taken(book, o, r) \in Nat
    BY <1>1, <1>2, TakenIsShare
  <2>2. Promise!Total(Ahead(T, r)) \in Nat /\ Promise!Total(Ahead(M, r)) = x + Promise!Total(Ahead(T, r))
    BY <1>9
  <2>3. Promise!Taken(book2, o2, r) = Share(want, Promise!Total(Ahead(T, r)), r.remaining)
    BY <1>3, <1>4, <1>8, <1>9, TakenIsShare
  <2>4. PICK a, t : a = Promise!Total(Ahead(T, r)) /\ t = r.remaining
    OBVIOUS
  <2>5. a \in Nat /\ t \in Nat
    BY <1>9, <2>2, <2>4 DEF Orderly
  <2>6. Share(want + x, x + a, t) = Share(want, a, t)
    BY <1>2, <1>3, <2>5 DEF Share
  <2> QED BY <1>3, <2>1, <2>2, <2>3, <2>4, <2>6
<1>12. PICK H, U : H = Promise!Hit(book, o) /\ U = Promise!Hit(book2, o2)
  OBVIOUS
<1>13. H = U \cup {first} /\ first \notin U /\ U = H \ {first} /\ U \subseteq T /\ first \in H
  BY <1>1, <1>2, <1>8, <1>10, <1>11, <1>12 DEF Promise!Hit
<1>14. Orderly(H) /\ \A q \in H \ {first} : Promise!Before(first, q)
  <2>1. H \subseteq M
    BY <1>1, <1>2, <1>13
  <2>2. IsFiniteSet(H)
    BY <1>2, <2>1, FS_Subset DEF Orderly
  <2>3. \A q \in T : Promise!Before(first, q)
    BY <1>1 DEF Meets
  <2> QED BY <1>2, <1>13, <2>1, <2>2, <2>3 DEF Orderly
<1>15. Promise!InTurn(H, 1) = first /\ \A n \in Nat : n >= 1 => Promise!InTurn(H, n + 1) = Promise!InTurn(U, n)
  BY <1>13, <1>14, TurnsShift
<1>16. PICK m : m = Cardinality(U)
  OBVIOUS
<1>17. IsFiniteSet(U) /\ IsFiniteSet(H) /\ m \in Nat /\ Cardinality(H) = m + 1
  <2>1. IsFiniteSet(U)
    BY <1>13, <1>14, FS_Subset DEF Orderly
  <2> QED BY <1>13, <1>16, <2>1, FS_AddElement, FS_CardinalityType
<1>18. Follows(Promise!TradesOf(book, o), Promise!TradeOf(o, first, x), Promise!TradesOf(book2, o2))
  <2>1. PICK all, others : all = Promise!TradesOf(book, o) /\ others = Promise!TradesOf(book2, o2)
    OBVIOUS
  <2>2. all = [n \in 1..m + 1 |-> Promise!TradeOf(o, Promise!InTurn(H, n), Promise!Taken(book, o, Promise!InTurn(H, n)))]
    <3>1. Promise!Cardinality(H) = m + 1
      BY <1>17, SharedOperators
    <3> QED BY <1>12, <2>1, <3>1 DEF Promise!TradesOf
  <2>3. others = [n \in 1..m |-> Promise!TradeOf(o2, Promise!InTurn(U, n), Promise!Taken(book2, o2, Promise!InTurn(U, n)))]
    <3>1. Promise!Cardinality(U) = m
      BY <1>16, SharedOperators
    <3> QED BY <1>12, <2>1, <3>1 DEF Promise!TradesOf
  <2>4. ASSUME NEW n \in 1..m + 1
        PROVE  all[n] = IF n = 1 THEN Promise!TradeOf(o, first, x) ELSE others[n - 1]
    <3>1. CASE n = 1
      BY <1>10, <1>15, <2>2, <3>1
    <3>2. CASE n # 1
      <4>1. PICK k \in 1..m : n = k + 1 /\ k = n - 1
        BY <1>17, <3>2
      <4>2. PICK r : r = Promise!InTurn(U, k)
        OBVIOUS
      <4>3. Promise!InTurn(H, n) = r
        BY <1>15, <4>1, <4>2
      <4>4. r \in U
        <5>1. Promise!InTurn(U, k) = CHOOSE q \in U : Cardinality(Ahead(U, q)) = k - 1
          BY SharedOperators DEF Promise!InTurn, Ahead
        <5>2. \E q \in U : Cardinality(Ahead(U, q)) = k - 1
          <6>1. Orderly(U)
            BY <1>9, <1>13, <1>17 DEF Orderly
          <6> QED BY <1>16, <4>1, <6>1, TurnsTaken
        <5> QED BY <4>2, <5>1, <5>2
      <4>5. Promise!Taken(book, o, r) = Promise!Taken(book2, o2, r)
        BY <1>11, <1>13, <4>4
      <4>6. \A y : Promise!TradeOf(o, r, y) = Promise!TradeOf(o2, r, y)
        BY <1>4 DEF Promise!TradeOf
      <4>7. all[n] = Promise!TradeOf(o, r, Promise!Taken(book, o, r))
        BY <2>2, <4>3
      <4>8. others[k] = Promise!TradeOf(o2, r, Promise!Taken(book2, o2, r))
        BY <2>3, <4>1, <4>2
      <4> QED BY <3>2, <4>1, <4>5, <4>6, <4>7, <4>8
    <3> QED BY <3>1, <3>2
  <2>5. all = [n \in 1..m + 1 |-> all[n]] /\ others = [n \in 1..m |-> others[n]] /\ DOMAIN others = 1..m
    BY <2>2, <2>3
  <2>6. all = [n \in 1..m + 1 |-> IF n = 1 THEN Promise!TradeOf(o, first, x) ELSE others[n - 1]]
    BY <2>4, <2>5
  <2> QED BY <1>17, <2>1, <2>5, <2>6 DEF Follows
<1>19. PICK f, g : f = [r \in H |-> Promise!Taken(book, o, r)] /\ g = [r \in U |-> Promise!Taken(book2, o2, r)]
  OBVIOUS
<1>20. SumFunctionOnSet(f, H) = x + SumFunctionOnSet(g, U) /\ SumFunctionOnSet(g, U) \in Int
  <2>1. \A r \in H : f[r] \in Int
    BY <1>2, <1>10, <1>11, <1>13, <1>19
  <2>2. SumFunctionOnSet(f, H) = f[first] + SumFunctionOnSet(f, H \ {first})
    BY <1>13, <1>17, <2>1, SumWithout
  <2>3. f[first] = x
    BY <1>10, <1>13, <1>19
  <2>4. \A r \in U : f[r] = g[r] /\ g[r] \in Int
    BY <1>11, <1>13, <1>19
  <2>5. SumFunctionOnSet(f, U) = SumFunctionOnSet(g, U)
    BY <1>17, <2>4, SumSame
  <2>6. SumFunctionOnSet(g, U) \in Int
    BY <1>17, <2>4, SumType
  <2> QED BY <1>13, <2>2, <2>3, <2>5, <2>6
<1>21. PICK rest : rest = o.remaining - SumFunctionOnSet(f, H)
  OBVIOUS
<1>22. rest = o2.remaining - SumFunctionOnSet(g, U)
  BY <1>2, <1>3, <1>4, <1>20, <1>21
<1>23. WithLeft(o2, rest) = WithLeft(o, rest)
  BY <1>2, LeftChanged
<1>24. PICK A, B : /\ A = {[r EXCEPT !.remaining = @ - Promise!Taken(book, o, r)] : r \in H}
                   /\ B = {[r EXCEPT !.remaining = @ - Promise!Taken(book2, o2, r)] : r \in U}
  OBVIOUS
<1>25. A = B \cup {gone}
  <2>1. A = {WithLeft(r, r.remaining - Promise!Taken(book, o, r)) : r \in H}
    BY <1>24 DEF WithLeft
  <2>2. B = {WithLeft(r, r.remaining - Promise!Taken(book2, o2, r)) : r \in U}
    BY <1>24 DEF WithLeft
  <2>3. gone = WithLeft(first, first.remaining - Promise!Taken(book, o, first))
    <3>1. first.remaining - x = 0
      BY <1>2
    <3> QED BY <1>5, <1>10, <3>1
  <2>4. \A r \in U : WithLeft(r, r.remaining - Promise!Taken(book, o, r)) = WithLeft(r, r.remaining - Promise!Taken(book2, o2, r))
    BY <1>11, <1>13
  <2> QED BY <1>13, <2>1, <2>2, <2>3, <2>4
<1>26. Promise!BookAfter(book, o) = (book \ H) \cup {r \in A \cup {WithLeft(o, rest)} : r.remaining > 0}
  <2>1. Promise!SumFunction(f) = SumFunctionOnSet(f, H)
    BY <1>19, SharedOperators
  <2> QED BY <1>12, <1>19, <1>21, <1>24, <2>1 DEF Promise!BookAfter, WithLeft
<1>27. Promise!BookAfter(book2, o2) = (book2 \ U) \cup {r \in B \cup {WithLeft(o2, rest)} : r.remaining > 0}
  <2>1. Promise!SumFunction(g) = SumFunctionOnSet(g, U)
    BY <1>19, SharedOperators
  <2> QED BY <1>12, <1>19, <1>22, <1>24, <2>1 DEF Promise!BookAfter, WithLeft
<1>28. book \ H = book2 \ U
  BY <1>7, <1>13
<1>29. {r \in A \cup {WithLeft(o, rest)} : r.remaining > 0} = {r \in B \cup {WithLeft(o, rest)} : r.remaining > 0}
  BY <1>6, <1>25
<1> QED BY <1>18, <1>23, <1>26, <1>27, <1>28, <1>29

-----------------------------------------------------------------------------
(***************************************************************************)
(* The orders of a book, as PriceTimeBook sees them.                       *)
(***************************************************************************)
\* What slot s holds, and what the slots of R hold.
Rec(data, s) ==
  [instrument |-> data[s].instrument, key |-> KeyOf(data[s]), side |-> data[s].side, price |-> data[s].price,
   remaining |-> data[s].remaining, id |-> data[s].exchangeOrderId, sequence |-> data[s].sequence]
Recs(data, R) == {Rec(data, s) : s \in R}

\* The fields of such an order.
LEMMA RecFields ==
  ASSUME NEW data, NEW s
  PROVE  /\ OrderShape(Rec(data, s)) /\ Rec(data, s).instrument = data[s].instrument
         /\ Rec(data, s).key = KeyOf(data[s]) /\ Rec(data, s).side = data[s].side
         /\ Rec(data, s).price = data[s].price /\ Rec(data, s).remaining = data[s].remaining
         /\ Rec(data, s).id = data[s].exchangeOrderId /\ Rec(data, s).sequence = data[s].sequence
BY DEF Rec, OrderShape

\* An order that stays who it is differs in what remains of it.
LEMMA RecSame ==
  ASSUME NEW data, NEW new, NEW s, NEW t, SameOrder(new[s], data[t])
  PROVE  /\ Rec(new, s) = WithLeft(Rec(data, t), new[s].remaining)
         /\ new[s].remaining = data[t].remaining => Rec(new, s) = Rec(data, t)
<1>1. KeyOf(new[s]) = KeyOf(data[t])
  BY SameName
<1> QED BY <1>1 DEF Rec, WithLeft, SameOrder

\* The sequence numbers of a queue rise.
LEMMA QueueRises ==
  ASSUME NEW data, Records(data), NEW s, Queued(data, s), NEW j \in DOMAIN s, NEW k \in DOMAIN s, j < k
  PROVE  data[s[j]].sequence < data[s[k]].sequence
<1>1. PICK n : n = Len(s)
  OBVIOUS
<1>2. n \in Nat /\ DOMAIN s = 1..n /\ \A m \in 1..n : s[m] \in Slot /\ data[s[m]].sequence \in Nat
  BY <1>1, QueueIsList, RecordFields
<1>3. \A m \in 1..n : m > 1 => data[s[m - 1]].sequence < data[s[m]].sequence
  BY <1>2 DEF Queued
<1> DEFINE Later == {m \in Nat : j < m /\ m <= n => data[s[j]].sequence < data[s[m]].sequence}
<1>4. 0 \in Later
  BY <1>2
<1>5. ASSUME NEW m \in Nat, m \in Later PROVE m + 1 \in Later
  <2> SUFFICES ASSUME j < m + 1, m + 1 <= n PROVE data[s[j]].sequence < data[s[m + 1]].sequence
    OBVIOUS
  <2>1. j \in 1..n /\ m \in 1..n /\ m + 1 \in 1..n /\ m + 1 > 1 /\ (m + 1) - 1 = m
    BY <1>2
  <2>2. data[s[m]].sequence < data[s[m + 1]].sequence
    BY <1>3, <2>1
  <2>3. CASE j = m
    BY <2>2, <2>3
  <2>4. CASE j # m
    <3>1. data[s[j]].sequence < data[s[m]].sequence
      BY <1>5, <2>1, <2>4
    <3>2. PICK a, b, c : a = data[s[j]].sequence /\ b = data[s[m]].sequence /\ c = data[s[m + 1]].sequence
      OBVIOUS
    <3>3. a \in Nat /\ b \in Nat /\ c \in Nat /\ a < b /\ b < c
      BY <1>2, <2>1, <2>2, <3>1, <3>2
    <3>4. a < c
      BY <3>3
    <3> QED BY <3>2, <3>4
  <2> QED BY <2>3, <2>4
<1>6. Nat \subseteq Later
  <2> HIDE DEF Later
  <2> QED BY <1>4, <1>5, Induction
<1> QED BY <1>2, <1>6

\* No two orders of a level have the same sequence number, and the head has the smallest.
LEMMA LevelRises ==
  ASSUME NEW data, Records(data), NEW level, NEW M, LevelOK(data, level, M)
  PROVE  /\ \A x, y \in M : data[x].sequence = data[y].sequence => x = y
         /\ level.head \in M
         /\ \A y \in M \ {level.head} : data[level.head].sequence < data[y].sequence
<1>1. PICK s : Queued(data, s) /\ Members(s) = M /\ LevelOf(data, level, s)
  BY DEF LevelOK
<1>2. PICK n : n = Len(s)
  OBVIOUS
<1>3. n \in Nat \ {0} /\ DOMAIN s = 1..n /\ \A k \in 1..n : s[k] \in Slot /\ data[s[k]].sequence \in Nat
  BY <1>1, <1>2, QueueIsList, RecordFields
<1>4. ASSUME NEW x \in M, NEW y \in M, data[x].sequence = data[y].sequence PROVE x = y
  <2>1. PICK j, k : j \in 1..n /\ k \in 1..n /\ x = s[j] /\ y = s[k]
    BY <1>1, <1>3 DEF Members
  <2>2. ~(j < k) /\ ~(k < j)
    BY <1>1, <1>3, <1>4, <2>1, QueueRises
  <2>3. j = k
    BY <1>3, <2>1, <2>2
  <2> QED BY <2>1, <2>3
<1>5. level.head = s[1] /\ 1 \in 1..n
  BY <1>1, <1>3 DEF LevelOf
<1>6. ASSUME NEW y \in M \ {level.head} PROVE data[level.head].sequence < data[y].sequence
  <2>1. PICK k : k \in 1..n /\ y = s[k]
    BY <1>1, <1>3 DEF Members
  <2>2. 1 < k
    BY <1>3, <1>5, <1>6, <2>1
  <2> QED BY <1>1, <1>3, <1>5, <2>1, <2>2, QueueRises
<1>7. level.head \in M
  BY <1>1, <1>3, <1>5 DEF Members
<1> QED BY <1>4, <1>6, <1>7

\* Side, price and number tell the orders of a book apart.
LEMMA OneSlotEach ==
  ASSUME NEW data, Records(data), NEW levels, NEW R, LevelsOK(data, levels, R), NEW x \in R, NEW y \in R,
         data[x].side = data[y].side, data[x].price = data[y].price, data[x].sequence = data[y].sequence
  PROVE  x = y
<1>1. PICK side, price, M : side = data[x].side /\ price = data[x].price /\ M = At(data, R, side, price)
  OBVIOUS
<1>2. LevelOK(data, levels[side][price], M) /\ x \in M
  BY <1>1, LevelOfOrder
<1>3. y \in M
  BY <1>1 DEF At
<1> QED BY <1>2, <1>3, LevelRises

\* What an order finds in the book of its instrument, and elsewhere.
Facing(data, R, o) ==
  {z \in R : /\ data[z].side # o.side
             /\ IF o.side = "Buy" THEN data[z].price <= o.price ELSE data[z].price >= o.price}

\* Orders of other instruments.
Foreign(O, i) == \A r \in O : r.instrument # i

\* Those that it may trade with are among the orders of its book, and in order.
LEMMA MatchableAre ==
  ASSUME NEW data, Records(data), NEW levels, NEW R, LevelsOK(data, levels, R), Live(data, R),
         NEW i, \A z \in R : data[z].instrument = i, NEW O, Foreign(O, i),
         NEW o, o.instrument = i, o.side \in Side
  PROVE  /\ Promise!Matchable(Recs(data, R) \cup O, o) = Recs(data, Facing(data, R, o))
         /\ Orderly(Recs(data, Facing(data, R, o)))
<1>1. PICK S : S = Facing(data, R, o)
  OBVIOUS
<1>2. R \subseteq Slot /\ S \subseteq R
  BY <1>1 DEF LevelsOK, Facing
<1>3. Promise!Matchable(Recs(data, R) \cup O, o) = Recs(data, S)
  <2>1. \A r \in O : r.instrument # o.instrument
    BY DEF Foreign
  <2>2. \A z \in R : Rec(data, z).instrument = o.instrument /\ Rec(data, z).side = data[z].side /\ Rec(data, z).price = data[z].price
    BY RecFields
  <2> QED BY <1>1, <2>1, <2>2 DEF Promise!Matchable, Recs, Facing
<1>4. IsFiniteSet(Recs(data, S))
  <2>1. IsFiniteSet(S)
    BY <1>2, SlotsFinite, FS_Subset
  <2>2. PICK f : f = [z \in S |-> Rec(data, z)]
    OBVIOUS
  <2>3. f \in Surjection(S, Recs(data, S))
    BY <2>2 DEF Surjection, Recs
  <2> QED BY <2>1, <2>3, FS_Surjection
<1>5. ASSUME NEW z \in S
      PROVE  /\ OrderShape(Rec(data, z)) /\ Rec(data, z).price \in Nat /\ Rec(data, z).sequence \in Nat
             /\ Rec(data, z).remaining \in Nat /\ Rec(data, z).remaining > 0
  <2>1. z \in Slot /\ data[z].remaining > 0
    BY <1>2 DEF Live
  <2> QED BY <2>1, RecFields, RecordFields
<1>6. ASSUME NEW z \in S, NEW y \in S
      PROVE  /\ Rec(data, y).side = Rec(data, z).side
             /\ Rec(data, y).price = Rec(data, z).price /\ Rec(data, y).sequence = Rec(data, z).sequence
                => Rec(data, y) = Rec(data, z)
  <2>1. y \in R /\ z \in R /\ data[y].side \in Side /\ data[z].side \in Side
    BY <1>2, RecordFields
  <2>2. data[y].side = data[z].side
    BY <1>1, <2>1 DEF Facing, Side
  <2>3. data[y].price = data[z].price /\ data[y].sequence = data[z].sequence => y = z
    BY <2>1, <2>2, OneSlotEach
  <2> QED BY <2>2, <2>3, RecFields
<1>7. Orderly(Recs(data, S))
  BY <1>4, <1>5, <1>6 DEF Orderly, Recs
<1> QED BY <1>1, <1>3, <1>7

\* The head of the best level is the first that an incoming order meets.
LEMMA FirstMet ==
  ASSUME NEW run, NEW i, NEW F, NEW R, Whole(run.pool, run.book, i, F, R),
         NEW idx \in Slot, CanFill(run, idx), run.pool.data[idx].instrument = i,
         NEW O, Foreign(O, i), NEW data, data = run.pool.data,
         NEW y, y = BestHead(run.book, Opposite(data[idx].side))
  PROVE  Meets(Recs(data, R) \cup O, Rec(data, idx), Rec(data, y))
<1>1. PICK book, o, side, M : book = run.book /\ o = Rec(data, idx) /\ side = Opposite(o.side) /\ M = Facing(data, R, o)
  OBVIOUS
<1>2. /\ Records(data) /\ LevelsOK(data, book.levels, R) /\ Live(data, R) /\ R \subseteq Slot
      /\ \A z \in R : data[z].instrument = i
  BY <1>1 DEF Whole, PoolOK, BookOK, LevelsOK, Records
<1>3. /\ OrderShape(o) /\ o.instrument = i /\ o.side = data[idx].side /\ o.price = data[idx].price
      /\ o.remaining = data[idx].remaining
      /\ o.side \in Side /\ o.price \in Nat /\ o.remaining \in Nat
  BY <1>1, <1>2, RecFields, RecordFields
<1>4. side \in Side /\ side # o.side /\ o.remaining > 0
  BY <1>1, <1>3 DEF CanFill, Opposite, Side
<1>5. PICK best : best = BestPrice(book, side)
  OBVIOUS
<1>6. /\ DOMAIN book.levels[side] # {} /\ Crosses(o.side, o.price, best)
      /\ y = book.levels[side][best].head
  BY <1>1, <1>3, <1>5 DEF CanFill, BestHead
<1>7. /\ best \in DOMAIN book.levels[side] /\ best \in Nat
      /\ \A q \in DOMAIN book.levels[side] : IF side = "Buy" THEN best >= q ELSE best <= q
  BY <1>2, <1>4, <1>5, <1>6, BestIsBest
<1>8. LevelOK(data, book.levels[side][best], At(data, R, side, best))
  BY <1>2, <1>4, <1>7 DEF LevelsOK
<1>9. y \in R /\ data[y].side = side /\ data[y].price = best
      /\ \A z \in At(data, R, side, best) \ {y} : data[y].sequence < data[z].sequence
  <2>1. PICK level, L : level = book.levels[side][best] /\ L = At(data, R, side, best)
    OBVIOUS
  <2>2. LevelOK(data, level, L) /\ Records(data)
    BY <1>2, <1>8, <2>1
  <2>3. level.head \in L /\ \A z \in L \ {level.head} : data[level.head].sequence < data[z].sequence
    BY ONLY <2>2, LevelRises
  <2>4. y = level.head
    BY <1>6, <2>1
  <2> QED BY ONLY <2>1, <2>3, <2>4 DEF At
<1>10. y \in M
  <2>1. IF o.side = "Buy" THEN best <= o.price ELSE best >= o.price
    BY <1>3, <1>6, <1>7 DEF Crosses
  <2> QED BY <1>1, <1>4, <1>9, <2>1 DEF Facing
<1>11. ASSUME NEW z \in M, z # y PROVE Promise!Before(Rec(data, y), Rec(data, z))
  <2>1. z \in R /\ data[z].side # o.side /\ z \in Slot
    BY <1>1, <1>2, <1>11 DEF Facing
  <2>2. data[z].side = side /\ data[z].price \in DOMAIN book.levels[side] /\ data[z].price \in Nat
    <3>1. data[z].side \in Side /\ data[z].price \in DOMAIN book.levels[data[z].side] /\ data[z].price \in Nat
      BY <1>2, <2>1, LevelOfOrder
    <3> QED BY <1>3, <1>4, <2>1, <3>1 DEF Side
  <2>3. IF side = "Buy" THEN best >= data[z].price ELSE best <= data[z].price
    BY <1>7, <2>2
  <2>4. data[z].price = best => data[y].sequence < data[z].sequence
    BY <1>9, <1>11, <2>1, <2>2 DEF At
  <2>5. /\ Rec(data, y).side = side /\ Rec(data, y).price = best /\ Rec(data, y).sequence = data[y].sequence
        /\ Rec(data, z).price = data[z].price /\ Rec(data, z).sequence = data[z].sequence
    BY <1>9, RecFields
  <2>6. IF side = "Buy" THEN best > data[z].price \/ best = data[z].price ELSE best < data[z].price \/ best = data[z].price
    BY <1>7, <2>2, <2>3
  <2> QED BY <2>4, <2>5, <2>6 DEF Promise!Before, Promise!Better
<1>12. Promise!Matchable(Recs(data, R) \cup O, o) = Recs(data, M) /\ Orderly(Recs(data, M))
  BY <1>1, <1>2, <1>3, MatchableAre
<1>13. Rec(data, y) \in Recs(data, M)
  BY <1>10 DEF Recs
<1>14. \A q \in Recs(data, M) \ {Rec(data, y)} : Promise!Before(Rec(data, y), q)
  BY <1>11 DEF Recs
<1> QED BY <1>1, <1>3, <1>4, <1>12, <1>13, <1>14 DEF Meets

-----------------------------------------------------------------------------
(***************************************************************************)
(* One fill of the matching loop is the first trade.                       *)
(***************************************************************************)
\* The trade with the best, and the rest.
LEMMA FirstTrade ==
  ASSUME NEW book, NEW o, NEW first, Meets(book, o, first),
         NEW x, x = (IF o.remaining <= first.remaining THEN o.remaining ELSE first.remaining),
         NEW book2, book2 = Thinned(book, first, x), NEW o2, o2 = WithLeft(o, o.remaining - x),
         Orderly(Promise!Matchable(book2, o2))
  PROVE  /\ Follows(Promise!TradesOf(book, o), Promise!TradeOf(o, first, x), Promise!TradesOf(book2, o2))
         /\ Promise!BookAfter(book, o) = Promise!BookAfter(book2, o2)
<1>1. o.remaining \in Nat /\ first.remaining \in Nat /\ OrderShape(o)
  BY DEF Meets, Orderly
<1>2. CASE o.remaining > first.remaining
  <2>1. x = first.remaining
    BY <1>1, <1>2
  <2> QED BY <1>2, <2>1, NextTrade
<1>3. CASE ~(o.remaining > first.remaining)
  <2>1. o.remaining <= first.remaining /\ x = o.remaining /\ o.remaining - x = 0
    BY <1>1, <1>3
  <2>2. OrderShape(o2) /\ o2.remaining = 0
    BY <1>1, <2>1, LeftChanged
  <2>3. Promise!TradesOf(book2, o2) = <<>> /\ Promise!BookAfter(book2, o2) = book2 \cup {r \in {o2} : r.remaining > 0}
    BY <2>2, NobodyHit
  <2>4. PICK t : t = Promise!TradeOf(o, first, x)
    OBVIOUS
  <2>5. Promise!TradesOf(book, o) = <<t>> /\ Promise!BookAfter(book, o) = book2
    BY <2>1, <2>4, LastTrade
  <2>6. {r \in {o2} : r.remaining > 0} = {}
    BY <2>2
  <2>7. Follows(<<t>>, t, <<>>)
    <3>1. DOMAIN <<>> = 1..0 /\ <<>> = [n \in 1..0 |-> <<>>[n]]
      OBVIOUS
    <3>2. <<t>> = [n \in 1..0 + 1 |-> IF n = 1 THEN t ELSE <<>>[n - 1]]
      OBVIOUS
    <3> QED BY <3>1, <3>2 DEF Follows
  <2> QED BY <2>3, <2>4, <2>5, <2>6, <2>7
<1> QED BY <1>2, <1>3

\* The best order y and the incoming one trade q, which leaves new and T.
FirstThinned(data, R, O, idx, y, q, new, T) ==
  /\ Recs(new, T) \cup O = Thinned(Recs(data, R) \cup O, Rec(data, y), q)
  /\ Rec(new, idx) = WithLeft(Rec(data, idx), Rec(data, idx).remaining - q)
  /\ q = IF Rec(data, idx).remaining <= Rec(data, y).remaining THEN Rec(data, idx).remaining
         ELSE Rec(data, y).remaining

\* A fill leaves of the book, and of the incoming order, what the first trade leaves.
LEMMA FillThins ==
  ASSUME NEW run, NEW i, NEW F, NEW R, Whole(run.pool, run.book, i, F, R),
         NEW idx \in Slot, idx \notin R, run.pool.data[idx].instrument = i,
         NEW after, NEW T, Kept(run.pool.data, after.pool.data, idx, R, T), Trading(run, R, idx, after, T),
         NEW O, Foreign(O, i), NEW data, data = run.pool.data, NEW new, new = after.pool.data,
         NEW y, y = BestHead(run.book, Opposite(data[idx].side)),
         NEW q, q = Min({data[idx].remaining, data[y].remaining})
  PROVE  FirstThinned(data, R, O, idx, y, q, new, T)
<1>1. /\ Records(data) /\ LevelsOK(data, run.book.levels, R) /\ R \subseteq Slot
      /\ \A z \in R : data[z].instrument = i
  BY DEF Whole, PoolOK, BookOK, LevelsOK, Records
<1>2. /\ y \in R /\ T = (IF data[y].remaining = q THEN R \ {y} ELSE R)
      /\ new[idx].remaining = data[idx].remaining - q
      /\ \A z \in T : new[z].remaining = IF z = y THEN data[z].remaining - q ELSE data[z].remaining
  BY DEF Trading
<1>3. \A z \in T \cup {idx} : SameOrder(new[z], data[z])
  BY DEF Kept
<1>4. PICK a, b : a = data[idx].remaining /\ b = data[y].remaining
  OBVIOUS
<1>5. a \in Nat /\ b \in Nat
  BY <1>1, <1>2, <1>4, RecordFields
<1>6. q \in Nat /\ q <= a /\ q <= b /\ (q = a \/ q = b)
  BY <1>4, <1>5, SmallerOfTwo
<1>7. Rec(data, idx).remaining = a /\ Rec(data, y).remaining = b
  BY <1>4, RecFields
<1>8. q = IF a <= b THEN a ELSE b
  BY ONLY <1>5, <1>6
<1>9. Rec(new, idx) = WithLeft(Rec(data, idx), a - q)
  BY ONLY <1>2, <1>3, <1>4, RecSame
<1>10. \A z \in R : Rec(data, z) = Rec(data, y) => z = y
  <2> SUFFICES ASSUME NEW z \in R, Rec(data, z) = Rec(data, y) PROVE z = y
    OBVIOUS
  <2>1. data[z].side = data[y].side /\ data[z].price = data[y].price /\ data[z].sequence = data[y].sequence
    BY ONLY Rec(data, z) = Rec(data, y), RecFields
  <2>2. PICK levels : levels = run.book.levels
    OBVIOUS
  <2>3. Records(data) /\ LevelsOK(data, levels, R) /\ z \in R /\ y \in R
    BY <1>1, <1>2, <2>2
  <2> QED BY ONLY <2>1, <2>3, OneSlotEach
<1>11. Rec(data, y) \notin O
  <2>1. Rec(data, y).instrument = i
    BY ONLY <1>1, <1>2, RecFields
  <2> QED BY <2>1 DEF Foreign
<1>12. (Recs(data, R) \cup O) \ {Rec(data, y)} = Recs(data, R \ {y}) \cup O
  BY ONLY <1>2, <1>10, <1>11 DEF Recs
<1>13. \A z \in T \ {y} : Rec(new, z) = Rec(data, z)
  BY ONLY <1>2, <1>3, RecSame
<1>14. PICK gone : gone = WithLeft(Rec(data, y), b - q)
  OBVIOUS
<1>15. gone.remaining = b - q
  <2>1. OrderShape(Rec(data, y))
    BY ONLY RecFields
  <2> QED BY ONLY <1>14, <2>1, LeftChanged
<1>16. Recs(new, T) = Recs(data, R \ {y}) \cup {r \in {gone} : r.remaining > 0}
  <2>1. CASE b = q
    <3>1. T = R \ {y} /\ {r \in {gone} : r.remaining > 0} = {}
      BY ONLY <1>2, <1>4, <1>5, <1>15, <2>1
    <3> QED BY <1>13, <3>1 DEF Recs
  <2>2. CASE b # q
    <3>1. b - q > 0
      BY ONLY <1>5, <1>6, <2>2
    <3>2. T = R /\ {r \in {gone} : r.remaining > 0} = {gone}
      BY <1>2, <1>4, <1>15, <2>2, <3>1
    <3>3. Rec(new, y) = gone
      BY ONLY <1>2, <1>3, <1>4, <1>14, <3>2, RecSame
    <3>4. Recs(new, R) = Recs(new, R \ {y}) \cup {Rec(new, y)}
      BY <1>2 DEF Recs
    <3>5. Recs(new, R \ {y}) = Recs(data, R \ {y})
      BY <1>13, <3>2 DEF Recs
    <3> QED BY <3>2, <3>3, <3>4, <3>5
  <2> QED BY <2>1, <2>2
<1>17. Recs(new, T) \cup O = Thinned(Recs(data, R) \cup O, Rec(data, y), q)
  BY <1>7, <1>12, <1>14, <1>16 DEF Thinned
<1> QED BY ONLY <1>7, <1>8, <1>9, <1>17 DEF FirstThinned

\* What is reported of a trade.
Shown(t) == [buyer |-> t.buyer, seller |-> t.seller, price |-> t.price, quantity |-> t.quantity]

\* The report of a fill.
LEMMA FillReports ==
  ASSUME NEW run, NEW idx, NEW after, after = Fill(run, idx), NEW data, data = run.pool.data,
         NEW y, y = BestHead(run.book, Opposite(data[idx].side)),
         NEW q, q = Min({data[idx].remaining, data[y].remaining})
  PROVE  \E t : /\ after.trades = Append(run.trades, t) /\ t.type = "Trade"
                /\ Shown(t) = Promise!TradeOf(Rec(data, idx), Rec(data, y), q)
<1>1. PICK o, rest : o = data[idx] /\ rest = data[y]
  OBVIOUS
<1>2. PICK t : t = [type |-> "Trade", price |-> rest.price, quantity |-> q,
                    buyer  |-> IF o.side = "Buy" THEN o.exchangeOrderId ELSE rest.exchangeOrderId,
                    seller |-> IF o.side = "Buy" THEN rest.exchangeOrderId ELSE o.exchangeOrderId]
  OBVIOUS
<1>3. after.trades = Append(run.trades, t)
  BY <1>1, <1>2 DEF Fill
<1>4. Shown(t) = Promise!TradeOf(Rec(data, idx), Rec(data, y), q)
  BY <1>1, <1>2 DEF Shown, Rec, Promise!TradeOf
<1> QED BY <1>2, <1>3, <1>4

\* Of the trades of all, those of s have been made and the others are to come.
SoFar(all, s, others) ==
  /\ Listed(s) /\ \A k \in DOMAIN s : s[k].type = "Trade"
  /\ \E m \in Nat : /\ others = [n \in 1..m |-> others[n]]
                    /\ all = [n \in 1..(Len(s) + m) |-> IF n <= Len(s) THEN Shown(s[n]) ELSE others[n - Len(s)]]

\* The next one is made.
LEMMA SoFarGoesOn ==
  ASSUME NEW all, NEW s, NEW others, SoFar(all, s, others), NEW t, t.type = "Trade",
         NEW rest, Follows(others, Shown(t), rest)
  PROVE  SoFar(all, Append(s, t), rest)
<1>1. PICK S : s \in Seq(S)
  BY DEF SoFar, Listed
<1>2. PICK U, l, a : U = S \cup {t} /\ l = Len(s) /\ a = Append(s, t)
  OBVIOUS
<1>3. s \in Seq(U) /\ t \in U /\ a = Append(s, t) /\ l = Len(s)
  BY <1>1, <1>2
<1>4. l \in Nat /\ a \in Seq(U) /\ Len(a) = l + 1 /\ \A k \in 1..(l + 1) : a[k] = IF k = l + 1 THEN t ELSE s[k]
  BY ONLY <1>3, AppendShape
<1>5. PICK m \in Nat : /\ others = [n \in 1..m |-> others[n]]
                       /\ all = [n \in 1..(l + m) |-> IF n <= l THEN Shown(s[n]) ELSE others[n - l]]
  BY <1>2 DEF SoFar
<1>6. PICK k \in Nat : /\ rest = [n \in 1..k |-> rest[n]]
                       /\ others = [n \in 1..k + 1 |-> IF n = 1 THEN Shown(t) ELSE rest[n - 1]]
  BY DEF Follows
<1>7. m = k + 1
  <2>1. DOMAIN others = 1..m /\ DOMAIN others = 1..k + 1
    BY <1>5, <1>6
  <2>2. 1..m = 1..k + 1
    BY <2>1
  <2>3. k + 1 \in 1..m /\ (m > k + 1 => m \in 1..k + 1)
    BY <2>2
  <2> QED BY <2>3
<1>8. ASSUME NEW n \in 1..((l + 1) + k)
      PROVE  all[n] = IF n <= l + 1 THEN Shown(a[n]) ELSE rest[n - (l + 1)]
  <2>1. n \in 1..(l + m)
    BY <1>4, <1>7
  <2>2. all[n] = IF n <= l THEN Shown(s[n]) ELSE others[n - l]
    BY <1>5, <2>1
  <2>3. CASE n <= l
    <3>1. n \in 1..(l + 1) /\ n # l + 1 /\ n <= l + 1
      BY <1>4, <2>3
    <3> QED BY <1>4, <2>2, <2>3, <3>1
  <2>4. CASE n = l + 1
    <3>1. ~(n <= l) /\ n - l = 1 /\ 1 \in 1..k + 1 /\ n \in 1..(l + 1)
      BY <1>4, <2>4
    <3>2. others[1] = Shown(t) /\ a[n] = t
      BY <1>4, <1>6, <2>4, <3>1
    <3> QED BY <2>2, <2>4, <3>1, <3>2
  <2>5. CASE n > l + 1
    <3>1. PICK j : j = n - l
      OBVIOUS
    <3>2. ~(n <= l) /\ ~(n <= l + 1) /\ j \in 1..k + 1 /\ j # 1 /\ j - 1 = n - (l + 1)
      BY <1>4, <2>5, <3>1
    <3>3. others[j] = rest[j - 1]
      BY <1>6, <3>2
    <3> QED BY <2>2, <3>1, <3>2, <3>3
  <2> QED BY <1>4, <2>3, <2>4, <2>5
<1>9. all = [n \in 1..((l + 1) + k) |-> all[n]]
  <2>1. l + m = (l + 1) + k
    BY <1>4, <1>7
  <2> QED BY <1>5, <2>1
<1>10. all = [n \in 1..(Len(a) + k) |-> IF n <= Len(a) THEN Shown(a[n]) ELSE rest[n - Len(a)]]
  BY <1>4, <1>8, <1>9
<1>11. \A n \in DOMAIN a : a[n].type = "Trade"
  <2> SUFFICES ASSUME NEW n \in DOMAIN a PROVE a[n].type = "Trade"
    OBVIOUS
  <2>1. n \in 1..(l + 1)
    BY <1>4
  <2>2. CASE n = l + 1
    BY <1>4, <2>1, <2>2
  <2>3. CASE n # l + 1
    <3>1. n \in DOMAIN s /\ a[n] = s[n]
      BY <1>3, <1>4, <2>1, <2>3
    <3> QED BY <3>1 DEF SoFar
  <2> QED BY <2>2, <2>3
<1>12. Listed(a)
  BY <1>4 DEF Listed
<1> QED BY <1>2, <1>6, <1>10, <1>11, <1>12 DEF SoFar

-----------------------------------------------------------------------------
(***************************************************************************)
(* The matching loop makes all the trades.                                 *)
(***************************************************************************)
\* Whatever an order may trade with in a whole book is in order.
LEMMA WholeMatchable ==
  ASSUME NEW p, NEW book, NEW i, NEW F, NEW R, Whole(p, book, i, F, R), NEW O, Foreign(O, i),
         NEW o, o.instrument = i, o.side \in Side
  PROVE  /\ Promise!Matchable(Recs(p.data, R) \cup O, o) = Recs(p.data, Facing(p.data, R, o))
         /\ Orderly(Promise!Matchable(Recs(p.data, R) \cup O, o))
<1>1. PICK data, levels : data = p.data /\ levels = book.levels
  OBVIOUS
<1>2. /\ Records(data) /\ LevelsOK(data, levels, R) /\ Live(data, R)
      /\ \A z \in R : data[z].instrument = i
  BY <1>1 DEF Whole, PoolOK, BookOK, Records
<1>3. /\ Promise!Matchable(Recs(data, R) \cup O, o) = Recs(data, Facing(data, R, o))
      /\ Orderly(Recs(data, Facing(data, R, o)))
  BY ONLY <1>2, Foreign(O, i), o.instrument = i, o.side \in Side, MatchableAre
<1> QED BY <1>1, <1>3

\* Trades are numbered.
LEMMA TradesShape ==
  ASSUME NEW book, NEW o, Orderly(Promise!Matchable(book, o))
  PROVE  \E m \in Nat : Promise!TradesOf(book, o) = [n \in 1..m |-> Promise!TradesOf(book, o)[n]]
<1>1. PICK m : m = Promise!Cardinality(Promise!Hit(book, o))
  OBVIOUS
<1>2. m \in Nat
  <2>1. IsFiniteSet(Promise!Hit(book, o))
    BY FS_Subset DEF Promise!Hit, Orderly
  <2> QED BY <1>1, <2>1, SharedOperators, FS_CardinalityType
<1>3. PICK f : f = Promise!TradesOf(book, o)
  OBVIOUS
<1>4. f = [n \in 1..m |-> f[n]]
  BY <1>1, <1>3 DEF Promise!TradesOf
<1> QED BY <1>2, <1>3, <1>4

\* After some rounds, with T in the book: what an order o trades with a book B has
\* been traded, or is to come.
Halfway(st, i, F, R, O, idx, run, T) ==
  LET B == Recs(st.pool.data, R) \cup O
      o == Rec(st.pool.data, idx)
      C == Recs(run.pool.data, T) \cup O
      r == Rec(run.pool.data, idx)
  IN  /\ MatchedWhole(st.pool, i, F, R, idx, run, T)
      /\ SoFar(Promise!TradesOf(B, o), run.trades, Promise!TradesOf(C, r))
      /\ Promise!BookAfter(B, o) = Promise!BookAfter(C, r)

\* So it is before the first round.
LEMMA HalfwayFirst ==
  ASSUME NEW st, NEW i, NEW F, NEW R, Whole(st.pool, st.book, i, F, R), NEW O, Foreign(O, i),
         NEW idx \in Slot, st.pool.data[idx].instrument = i,
         NEW run, run.pool = st.pool, run.book = st.book, run.trades = <<>>
  PROVE  Halfway(st, i, F, R, O, idx, run, R)
<1>1. MatchedWhole(st.pool, i, F, R, idx, run, R)
  <2>1. \A z : SameOrder(st.pool.data[z], st.pool.data[z])
    BY DEF SameOrder
  <2>2. Kept(st.pool.data, st.pool.data, idx, R, R)
    BY <2>1 DEF Kept
  <2>3. F \cup (R \ R) = F
    OBVIOUS
  <2> QED BY <2>2, <2>3 DEF MatchedWhole
<1>2. PICK B, o : B = Recs(st.pool.data, R) \cup O /\ o = Rec(st.pool.data, idx)
  OBVIOUS
<1>3. o.instrument = i /\ o.side \in Side
  <2>1. Records(st.pool.data)
    BY DEF Whole, PoolOK, Records
  <2> QED BY <1>2, <2>1, RecFields, RecordFields
<1>4. Orderly(Promise!Matchable(B, o))
  BY <1>2, <1>3, WholeMatchable
<1>5. PICK all, m : m \in Nat /\ all = Promise!TradesOf(B, o) /\ all = [n \in 1..m |-> all[n]]
  BY <1>4, TradesShape
<1>6. SoFar(all, <<>>, all)
  <2>1. Listed(<<>>) /\ Len(<<>>) = 0 /\ \A k \in DOMAIN <<>> : FALSE
    BY ListedMore
  <2>2. 0 + m = m /\ \A n \in 1..m : ~(n <= 0) /\ n - 0 = n
    BY <1>5
  <2>3. all = [n \in 1..(0 + m) |-> IF n <= 0 THEN Shown(<<>>[n]) ELSE all[n - 0]]
    BY <1>5, <2>2
  <2> QED BY <1>5, <2>1, <2>3 DEF SoFar
<1> QED BY <1>1, <1>2, <1>5, <1>6 DEF Halfway

\* A round goes on from there.
LEMMA HalfwayNext ==
  ASSUME NEW st, NEW i, NEW F, NEW R, Whole(st.pool, st.book, i, F, R), NEW O, Foreign(O, i),
         NEW idx \in Slot, idx \notin R, idx \notin F, st.pool.data[idx].instrument = i,
         NEW run, NEW T, Halfway(st, i, F, R, O, idx, run, T), CanFill(run, idx),
         NEW after, after = Fill(run, idx)
  PROVE  \E U : Halfway(st, i, F, R, O, idx, after, U)
<1>1. PICK B, o, C, r : /\ B = Recs(st.pool.data, R) \cup O /\ o = Rec(st.pool.data, idx)
                        /\ C = Recs(run.pool.data, T) \cup O /\ r = Rec(run.pool.data, idx)
  OBVIOUS
<1>2. /\ MatchedWhole(st.pool, i, F, R, idx, run, T)
      /\ SoFar(Promise!TradesOf(B, o), run.trades, Promise!TradesOf(C, r))
      /\ Promise!BookAfter(B, o) = Promise!BookAfter(C, r)
  BY <1>1 DEF Halfway
<1>3. PICK E : E = F \cup (R \ T)
  OBVIOUS
<1>4. Kept(st.pool.data, run.pool.data, idx, R, T) /\ Whole(run.pool, run.book, i, E, T) /\ T \subseteq R
  BY <1>2, <1>3 DEF MatchedWhole, Kept
<1>5. idx \notin T /\ idx \notin E /\ R \subseteq Slot
  <2>1. R \subseteq Slot
    BY DEF Whole, BookOK, LevelsOK
  <2> QED BY <1>3, <1>4, <2>1
<1>6. run.pool.data[idx].instrument = i
  BY <1>4 DEF Kept, SameOrder
<1>7. PICK U : MatchedWhole(run.pool, i, E, T, idx, after, U) /\ Trading(run, T, idx, after, U)
  <2>1. Whole(run.pool, run.book, i, E, T) /\ idx \in Slot /\ idx \notin T /\ idx \notin E
        /\ CanFill(run, idx) /\ after = Fill(run, idx)
    BY <1>4, <1>5
  <2>2. \E U : /\ MatchedWhole(run.pool, i, E, T, idx, after, U) /\ Progress(T, idx, after, U)
               /\ Trading(run, T, idx, after, U)
    BY ONLY <2>1, FillKeeps
  <2> QED BY <2>2
<1>8. Kept(run.pool.data, after.pool.data, idx, T, U) /\ Whole(after.pool, after.book, i, E \cup (T \ U), U) /\ U \subseteq T
  BY <1>7 DEF MatchedWhole, Kept
<1>9. MatchedWhole(st.pool, i, F, R, idx, after, U)
  <2>1. Kept(st.pool.data, after.pool.data, idx, R, U)
    BY <1>4, <1>5, <1>8, KeptTwice
  <2>2. E \cup (T \ U) = F \cup (R \ U)
    BY <1>3, <1>4, <1>8
  <2> QED BY <1>8, <2>1, <2>2 DEF MatchedWhole
<1>10. PICK data, new, y, q : /\ data = run.pool.data /\ new = after.pool.data
                              /\ y = BestHead(run.book, Opposite(data[idx].side))
                              /\ q = Min({data[idx].remaining, data[y].remaining})
  OBVIOUS
<1>11. PICK first, D, s : first = Rec(data, y) /\ D = Recs(new, U) \cup O /\ s = Rec(new, idx)
  OBVIOUS
<1>12. Meets(C, r, first)
  <2>1. Meets(Recs(data, T) \cup O, Rec(data, idx), Rec(data, y))
    BY ONLY <1>4, <1>6, <1>10, idx \in Slot, CanFill(run, idx), Foreign(O, i), FirstMet
  <2> QED BY <1>1, <1>10, <1>11, <2>1
<1>13. /\ D = Thinned(C, first, q) /\ s = WithLeft(r, r.remaining - q)
       /\ q = IF r.remaining <= first.remaining THEN r.remaining ELSE first.remaining
  <2>1. /\ Whole(run.pool, run.book, i, E, T) /\ idx \in Slot /\ idx \notin T /\ run.pool.data[idx].instrument = i
        /\ Kept(run.pool.data, after.pool.data, idx, T, U) /\ Trading(run, T, idx, after, U) /\ Foreign(O, i)
    BY <1>4, <1>5, <1>6, <1>7, <1>8
  <2>2. FirstThinned(data, T, O, idx, y, q, new, U)
    BY ONLY <1>10, <2>1, FillThins
  <2> QED BY ONLY <1>1, <1>10, <1>11, <2>2 DEF FirstThinned
<1>14. Orderly(Promise!Matchable(D, s))
  <2>1. Records(after.pool.data)
    BY <1>8 DEF Whole, PoolOK, Records
  <2>2. after.pool.data[idx].instrument = i
    BY <1>6, <1>8 DEF Kept, SameOrder
  <2>3. s.instrument = i /\ s.side \in Side
    BY <1>10, <1>11, <2>1, <2>2, RecFields, RecordFields
  <2> QED BY <1>8, <1>10, <1>11, <2>3, WholeMatchable
<1>15. /\ Follows(Promise!TradesOf(C, r), Promise!TradeOf(r, first, q), Promise!TradesOf(D, s))
       /\ Promise!BookAfter(C, r) = Promise!BookAfter(D, s)
  BY ONLY <1>12, <1>13, <1>14, FirstTrade
<1>16. PICK t : after.trades = Append(run.trades, t) /\ t.type = "Trade" /\ Shown(t) = Promise!TradeOf(r, first, q)
  <2>1. \E t : /\ after.trades = Append(run.trades, t) /\ t.type = "Trade"
               /\ Shown(t) = Promise!TradeOf(Rec(data, idx), Rec(data, y), q)
    BY ONLY after = Fill(run, idx), <1>10, FillReports
  <2> QED BY <1>1, <1>10, <1>11, <2>1
<1>17. SoFar(Promise!TradesOf(B, o), after.trades, Promise!TradesOf(D, s))
  BY <1>2, <1>15, <1>16, SoFarGoesOn
<1>18. Halfway(st, i, F, R, O, idx, after, U)
  BY <1>1, <1>2, <1>9, <1>10, <1>11, <1>15, <1>17 DEF Halfway
<1> QED BY <1>18

\* What the matching of o with a book B reports, and leaves with T in it.
Traded(B, o, trades) ==
  /\ Listed(trades) /\ \A k \in DOMAIN trades : trades[k].type = "Trade"
  /\ Promise!TradesOf(B, o) = [n \in 1..Len(trades) |-> Shown(trades[n])]

\* Without anything that the order could still trade with, all trades have been made.
LEMMA AllTraded ==
  ASSUME NEW all, NEW s, SoFar(all, s, <<>>)
  PROVE  /\ Listed(s) /\ \A k \in DOMAIN s : s[k].type = "Trade"
         /\ all = [n \in 1..Len(s) |-> Shown(s[n])]
<1>1. PICK S : s \in Seq(S)
  BY DEF SoFar, Listed
<1>2. PICK l : l = Len(s) /\ l \in Nat
  BY <1>1
<1>3. PICK m \in Nat : <<>> = [n \in 1..m |-> <<>>[n]] /\ all = [n \in 1..(l + m) |-> IF n <= l THEN Shown(s[n]) ELSE <<>>[n - l]]
  BY <1>2 DEF SoFar
<1>4. m = 0
  <2>1. DOMAIN <<>> = 1..m /\ DOMAIN <<>> = {}
    BY <1>3
  <2> QED BY <2>1
<1>5. l + m = l /\ \A n \in 1..l : n <= l
  BY <1>2, <1>4
<1>6. all = [n \in 1..l |-> Shown(s[n])]
  BY <1>3, <1>5
<1> QED BY <1>2, <1>6 DEF SoFar

\* The run from st is over, with the slots of T resting, and traded what it should.
MatchedLike(st, i, F, R, idx, O, B, o, run, T) ==
  /\ MatchedWhole(st.pool, i, F, R, idx, run, T) /\ ~CanFill(run, idx)
  /\ Traded(B, o, run.trades)
  /\ Promise!BookAfter(B, o) = Recs(run.pool.data, T) \cup O \cup
                               {r \in {Rec(run.pool.data, idx)} : r.remaining > 0}

\* The matching loop trades as PriceTimeBook does.
LEMMA MatchTrades ==
  ASSUME NEW st, NEW i, NEW F, NEW R, Whole(st.pool, st.book, i, F, R), NEW O, Foreign(O, i),
         NEW idx \in Slot, idx \notin R, idx \notin F, st.pool.data[idx].instrument = i,
         NEW run, run = Match(st, idx),
         NEW B, B = Recs(st.pool.data, R) \cup O, NEW o, o = Rec(st.pool.data, idx)
  PROVE  \E T : MatchedLike(st, i, F, R, idx, O, B, o, run, T)
<1>1. PICK g : Rounds(g, st, idx, MaxOrders) /\ run = g[MaxOrders]
  BY MatchIsRounds
<1>2. MaxOrders \in Nat
  BY PoolAssumption
<1>3. ~CanFill(run, idx)
  BY MatchKeeps
<1> DEFINE Fine == {k \in Nat : k <= MaxOrders => \E T : Halfway(st, i, F, R, O, idx, g[k], T)}
<1>4. 0 \in Fine
  <2>1. PICK first : first = g[0]
    OBVIOUS
  <2>2. first.pool = st.pool /\ first.book = st.book /\ first.trades = <<>>
    <3>1. 0 \in 0..MaxOrders
      BY <1>2
    <3>2. g[0] = [pool |-> st.pool, book |-> st.book, trades |-> <<>>]
      BY <1>1, <3>1 DEF Rounds
    <3> QED BY <2>1, <3>2
  <2>3. Whole(st.pool, st.book, i, F, R) /\ Foreign(O, i) /\ idx \in Slot /\ st.pool.data[idx].instrument = i
    OBVIOUS
  <2>4. Halfway(st, i, F, R, O, idx, first, R)
    BY ONLY <2>2, <2>3, HalfwayFirst
  <2> QED BY <2>1, <2>4
<1>5. ASSUME NEW k \in Nat, k \in Fine PROVE k + 1 \in Fine
  <2> SUFFICES ASSUME k + 1 <= MaxOrders PROVE \E T : Halfway(st, i, F, R, O, idx, g[k + 1], T)
    OBVIOUS
  <2>1. PICK T : Halfway(st, i, F, R, O, idx, g[k], T)
    BY <1>2, <1>5
  <2>2. g[k + 1] = Round(g[k], idx)
    <3>1. k + 1 \in 0..MaxOrders /\ k + 1 # 0 /\ (k + 1) - 1 = k
      BY <1>2
    <3> QED BY <1>1, <3>1 DEF Rounds
  <2>3. CASE ~CanFill(g[k], idx)
    BY <2>1, <2>2, <2>3 DEF Round
  <2>4. CASE CanFill(g[k], idx)
    <3>1. PICK mid, after : mid = g[k] /\ after = Fill(mid, idx)
      OBVIOUS
    <3>2. g[k + 1] = after
      BY <2>2, <2>4, <3>1 DEF Round
    <3>3. Halfway(st, i, F, R, O, idx, mid, T) /\ CanFill(mid, idx) /\ after = Fill(mid, idx)
      BY <2>1, <2>4, <3>1
    <3>4. Whole(st.pool, st.book, i, F, R) /\ Foreign(O, i) /\ idx \in Slot /\ st.pool.data[idx].instrument = i
          /\ idx \notin R /\ idx \notin F
      OBVIOUS
    <3>5. \E U : Halfway(st, i, F, R, O, idx, after, U)
      BY ONLY <3>3, <3>4, HalfwayNext
    <3> QED BY <3>2, <3>5
  <2> QED BY <2>3, <2>4
<1>6. Nat \subseteq Fine
  <2> HIDE DEF Fine
  <2> QED BY <1>4, <1>5, Induction
<1>7. PICK T : Halfway(st, i, F, R, O, idx, run, T)
  BY <1>1, <1>2, <1>6
<1>8. PICK C, r : C = Recs(run.pool.data, T) \cup O /\ r = Rec(run.pool.data, idx)
  OBVIOUS
<1>9. /\ MatchedWhole(st.pool, i, F, R, idx, run, T)
      /\ SoFar(Promise!TradesOf(B, o), run.trades, Promise!TradesOf(C, r))
      /\ Promise!BookAfter(B, o) = Promise!BookAfter(C, r)
  BY <1>7, <1>8 DEF Halfway
<1>10. /\ Kept(st.pool.data, run.pool.data, idx, R, T) /\ Whole(run.pool, run.book, i, F \cup (R \ T), T)
  BY <1>9 DEF MatchedWhole
<1>11. PICK p, data, levels : p = run.pool /\ data = p.data /\ levels = run.book.levels
  OBVIOUS
<1>12. /\ Records(data) /\ data[idx].instrument = i
       /\ OrderShape(r) /\ r.instrument = i /\ r.side \in Side /\ r.remaining \in Nat
       /\ r.side = data[idx].side /\ r.price = data[idx].price /\ r.remaining = data[idx].remaining
       /\ r.price \in Nat
  <2>1. Records(data)
    BY <1>10, <1>11 DEF Whole, PoolOK, Records
  <2>2. data[idx].instrument = i
    BY <1>10, <1>11 DEF Kept, SameOrder
  <2> QED BY <1>8, <1>11, <2>1, <2>2, RecFields, RecordFields
<1>13. /\ Promise!Matchable(C, r) = Recs(data, Facing(data, T, r))
       /\ Orderly(Promise!Matchable(C, r))
  BY <1>8, <1>10, <1>11, <1>12, WholeMatchable
<1>14. r.remaining = 0 \/ Promise!Matchable(C, r) = {}
  <2> SUFFICES ASSUME r.remaining > 0 PROVE Promise!Matchable(C, r) = {}
    BY <1>12
  <2>1. Clear(data, T, r.side, r.price)
    BY <1>3, <1>10, <1>11, <1>12, ClearAfterMatch
  <2>2. T \subseteq Slot /\ \A z \in T : data[z].price \in Nat
    <3>1. T \subseteq Slot
      BY <1>10 DEF Whole, BookOK, LevelsOK
    <3> QED BY <1>12, <3>1, RecordFields
  <2>3. Facing(data, T, r) = {}
    BY <1>12, <2>1, <2>2 DEF Clear, Facing
  <2> QED BY <1>13, <2>3 DEF Recs
<1>15. /\ Promise!TradesOf(C, r) = <<>>
       /\ Promise!BookAfter(C, r) = C \cup {q \in {r} : q.remaining > 0}
  BY ONLY <1>12, <1>13, <1>14, NobodyHit
<1>16. Traded(B, o, run.trades)
  <2>1. SoFar(Promise!TradesOf(B, o), run.trades, <<>>)
    BY <1>9, <1>15
  <2> QED BY ONLY <2>1, AllTraded DEF Traded
<1>17. Promise!BookAfter(B, o) = Recs(run.pool.data, T) \cup O \cup {q \in {Rec(run.pool.data, idx)} : q.remaining > 0}
  BY ONLY <1>8, <1>9, <1>15
<1> QED BY <1>3, <1>9, <1>16, <1>17 DEF MatchedLike

-----------------------------------------------------------------------------
(***************************************************************************)
(* What is cancelled, and what rests.                                      *)
(***************************************************************************)
\* The slots met by walking the lists of a book.
Walk(data, book) ==
  UNION {UNION {Members(Chain(data, book.levels[side][price].head)) : price \in DOMAIN book.levels[side]} :
           side \in Side}

\* They are those of its orders.
LEMMA WalkFinds ==
  ASSUME NEW data, Records(data), NEW book, NEW R, LevelsOK(data, book.levels, R)
  PROVE  Walk(data, book) = R
<1>1. PICK levels : levels = book.levels
  OBVIOUS
<1>2. ASSUME NEW side \in Side, NEW price \in DOMAIN levels[side]
      PROVE  Members(Chain(data, levels[side][price].head)) = At(data, R, side, price)
  <2>1. LevelOK(data, levels[side][price], At(data, R, side, price))
    BY <1>1 DEF LevelsOK
  <2>2. PICK s : /\ Queued(data, s) /\ Members(s) = At(data, R, side, price)
                 /\ LevelOf(data, levels[side][price], s)
    BY <2>1 DEF LevelOK
  <2>3. Chain(data, s[1]) = s /\ levels[side][price].head = s[1]
    BY <2>2, QueueIsList DEF LevelOf
  <2> QED BY <2>2, <2>3
<1>3. ASSUME NEW y \in R PROVE y \in Walk(data, book)
  <2>1. PICK side, price : side = data[y].side /\ price = data[y].price
    OBVIOUS
  <2>2. side \in Side /\ price \in DOMAIN levels[side] /\ y \in At(data, R, side, price)
    BY <1>1, <2>1, LevelOfOrder
  <2> QED BY <1>1, <1>2, <2>2 DEF Walk
<1>4. ASSUME NEW y \in Walk(data, book) PROVE y \in R
  <2>1. PICK side \in Side : \E price \in DOMAIN levels[side] : y \in Members(Chain(data, levels[side][price].head))
    BY <1>1 DEF Walk
  <2>2. PICK price \in DOMAIN levels[side] : y \in Members(Chain(data, levels[side][price].head))
    BY <2>1
  <2> QED BY <1>2, <2>2 DEF At
<1> QED BY <1>3, <1>4

\* The orders of S that do not have the name key.
Unnamed(S, key) == {r \in S : r.key # key}

\* The order x is taken out of the book, and it was the only one of its name.
Took(p, i, F, R, key, idx, st, x) ==
  /\ x \in R /\ RemovedWhole(p, i, F, R, x, idx, st)
  /\ Rec(p.data, x).key = key
  /\ Recs(st.pool.data, R \ {x}) = Unnamed(Recs(p.data, R), key)

\* cancel_order takes out the order that has the name.
LEMMA CancelTakes ==
  ASSUME ~KeyReuse, NEW p, NEW book, NEW i, NEW F, NEW R, Whole(p, book, i, F, R),
         NEW idx \in Slot, idx \notin R, NEW key, ContainsOrder(book, key),
         NEW st, st = CancelOrder([pool |-> p, book |-> book], key)
  PROVE  \E x : Took(p, i, F, R, key, idx, st, x)
<1>1. PICK x : x = book.orderMap[key]
  OBVIOUS
<1>2. /\ PoolOK(p, F) /\ BookOK(p.data, book, i, R) /\ Live(p.data, R) /\ Uncrossed(p.data, R)
      /\ AllKnown(p.data, book, R) /\ (~KeyReuse => AllKnown(p.data, book, R)) /\ F \cap R = {}
  BY DEF Whole
<1>3. x \in R /\ KeyOf(p.data[x]) = key
  BY <1>1, <1>2 DEF BookOK, ContainsOrder
<1>4. RemovedWhole(p, i, F, R, x, idx, st)
  <2>1. Live(p.data, R \ {x})
    BY <1>2 DEF Live
  <2>2. PICK st0 : st0 = [pool |-> p, book |-> book]
    OBVIOUS
  <2>3. st = RemoveOrder(st0, x)
    BY <1>1, <2>2 DEF CancelOrder
  <2> QED BY ONLY <1>2, <1>3, <2>1, <2>2, <2>3, idx \in Slot, idx \notin R, RemoveKeepsWhole
<1>5. \A z \in R : KeyOf(p.data[z]) = key => z = x
  BY <1>1, <1>2 DEF AllKnown
<1>6. PICK data, new : data = p.data /\ new = st.pool.data
  OBVIOUS
<1>7. \A z \in R \ {x} : Rec(new, z) = Rec(data, z)
  <2>1. \A z \in R \ {x} : SameOrder(new[z], data[z]) /\ new[z].remaining = data[z].remaining
    BY <1>4, <1>6 DEF RemovedWhole, Kept
  <2> QED BY ONLY <2>1, RecSame
<1>8. \A z : Rec(data, z).key = KeyOf(data[z])
  BY RecFields
<1>9. Recs(new, R \ {x}) = Unnamed(Recs(data, R), key)
  BY ONLY <1>3, <1>5, <1>6, <1>7, <1>8 DEF Recs, Unnamed
<1> QED BY <1>3, <1>4, <1>6, <1>8, <1>9 DEF Took

\* The book of st holds the orders of S.
Holds(st, i, S) == \E G, T : Whole(st.pool, st.book, i, G, T) /\ Recs(st.pool.data, T) = S

\* process_order of a command that finds nothing of the name.
LEMMA MissingHolds ==
  ASSUME NEW p, NEW book, NEW i, NEW F, NEW R, Whole(p, book, i, F, R),
         NEW idx \in Slot, idx \notin R, idx \notin F,
         NEW after, after = [pool |-> Deallocate(p, idx), book |-> book]
  PROVE  Holds(after, i, Recs(p.data, R))
<1>1. Absorbed(p, i, F, R, idx, after, F \cup {idx}, R)
  BY DeallocateAbsorbs
<1>2. Whole(after.pool, after.book, i, F \cup {idx}, R)
  BY <1>1 DEF Absorbed
<1>3. PoolOK(p, F) /\ R \subseteq Slot
  BY DEF Whole, BookOK, LevelsOK
<1>4. PICK data, new : data = p.data /\ new = after.pool.data
  OBVIOUS
<1>5. \A z \in R : new[z] = data[z]
  <2>1. \A z \in Slot \ {idx} : Deallocate(p, idx).data[z] = p.data[z]
    BY ONLY <1>3, idx \in Slot, idx \notin F, DeallocateGives
  <2>2. after.pool = Deallocate(p, idx)
    OBVIOUS
  <2> QED BY ONLY <1>3, <1>4, <2>1, <2>2, idx \notin R
<1>6. Recs(new, R) = Recs(data, R)
  BY ONLY <1>5 DEF Recs, Rec
<1> QED BY <1>2, <1>4, <1>6 DEF Holds

\* What remains of an order that nothing crosses any more joins the others.
LEMMA RestJoins ==
  ASSUME NEW p, NEW book, NEW i, NEW F, NEW R, Whole(p, book, i, F, R),
         NEW idx \in Slot, idx \notin R, idx \notin F, Incoming(p, i, R, idx),
         p.data[idx].remaining > 0 => Clear(p.data, R, p.data[idx].side, p.data[idx].price),
         NEW st, st = [pool |-> p, book |-> book], NEW after, after = RestOrGone(st, idx)
  PROVE  Holds(after, i, Recs(p.data, R) \cup {r \in {Rec(p.data, idx)} : r.remaining > 0})
<1>1. Rec(p.data, idx).remaining = p.data[idx].remaining
  BY RecFields
<1>2. CASE p.data[idx].remaining > 0
  <2>1. after = InsertLimit(st, idx)
    BY <1>2 DEF RestOrGone
  <2>2. /\ p.data[idx].next = NullOrder /\ p.data[idx].prev = NullOrder
        /\ p.data[idx].instrument = i /\ p.data[idx].remaining > 0
        /\ Clear(p.data, R, p.data[idx].side, p.data[idx].price)
    BY <1>2 DEF Incoming
  <2>3. /\ \A y \in R : p.data[y].sequence < p.data[idx].sequence
        /\ ~KeyReuse => \A y \in R : KeyOf(p.data[y]) # KeyOf(p.data[idx])
    BY DEF Incoming
  <2>4. Whole(p, book, i, F, R) /\ idx \in Slot /\ idx \notin R /\ idx \notin F /\ st = [pool |-> p, book |-> book]
    OBVIOUS
  <2>5. InsertedWhole(p, i, F, R, idx, after)
    BY ONLY <2>1, <2>2, <2>3, <2>4, InsertKeepsWhole
  <2>6. PICK data, new : data = p.data /\ new = after.pool.data
    OBVIOUS
  <2>7. \A z \in R \cup {idx} : SameOrder(new[z], data[z]) /\ new[z].remaining = data[z].remaining
    BY <2>5, <2>6 DEF InsertedWhole
  <2>8. \A z \in R \cup {idx} : Rec(new, z) = Rec(data, z)
    BY ONLY <2>7, RecSame
  <2>9. Recs(new, R \cup {idx}) = Recs(data, R) \cup {Rec(data, idx)}
    BY ONLY <2>8 DEF Recs
  <2>10. {r \in {Rec(data, idx)} : r.remaining > 0} = {Rec(data, idx)}
    BY <1>1, <1>2, <2>6
  <2>11. Whole(after.pool, after.book, i, F, R \cup {idx})
    BY <2>5 DEF InsertedWhole
  <2> QED BY <2>6, <2>9, <2>10, <2>11 DEF Holds
<1>3. CASE ~(p.data[idx].remaining > 0)
  <2>1. after = [pool |-> Deallocate(p, idx), book |-> book]
    BY <1>3 DEF RestOrGone
  <2>2. Holds(after, i, Recs(p.data, R))
    BY ONLY <2>1, Whole(p, book, i, F, R), idx \in Slot, idx \notin R, idx \notin F, MissingHolds
  <2>3. {r \in {Rec(p.data, idx)} : r.remaining > 0} = {}
    BY <1>1, <1>3
  <2> QED BY <2>2, <2>3
<1> QED BY <1>2, <1>3

-----------------------------------------------------------------------------
(***************************************************************************)
(* An incoming order.                                                      *)
(***************************************************************************)
\* The book that a command in slot idx meets: without the order that it replaces.
Left(p, R, idx) ==
  IF p.data[idx].kind = "Replace" THEN Unnamed(Recs(p.data, R), <<p.data[idx].account, p.data[idx].target>>)
  ELSE Recs(p.data, R)

\* What a replacement does first leaves its book without its target, and itself as it was.
Vacated(p, i, F, R, idx, before, G, T) ==
  /\ before = [pool |-> before.pool, book |-> before.book]
  /\ Whole(before.pool, before.book, i, G, T)
  /\ T \subseteq R /\ idx \notin G /\ before.pool.data[idx] = p.data[idx]
  /\ \A z \in T : SameOrder(before.pool.data[z], p.data[z])
  /\ \A z \in T : KeyOf(p.data[z]) # KeyOf(p.data[idx])
  /\ Recs(before.pool.data, T) = Left(p, R, idx)

\* A command whose names are as accept_command found them.
LEMMA CancelFirstVacates ==
  ASSUME ~KeyReuse, NEW p, NEW book, NEW i, NEW F, NEW R, Whole(p, book, i, F, R),
         NEW idx \in Slot, idx \notin R, idx \notin F, Arriving(p, book, i, R, idx),
         NEW before, before = CancelFirst([pool |-> p, book |-> book], idx)
  PROVE  \E G, T : Vacated(p, i, F, R, idx, before, G, T)
<1>1. PICK o, st0 : o = p.data[idx] /\ st0 = [pool |-> p, book |-> book]
  OBVIOUS
<1>2. CASE o.kind = "Replace"
  <2>1. PICK key : key = <<o.account, o.target>>
    OBVIOUS
  <2>2. ContainsOrder(book, key)
    BY <1>1, <1>2, <2>1 DEF Arriving
  <2>3. before = CancelOrder([pool |-> p, book |-> book], key)
    BY <1>1, <1>2, <2>1 DEF CancelFirst
  <2>4. PICK x : Took(p, i, F, R, key, idx, before, x)
    BY ONLY <2>2, <2>3, ~KeyReuse, Whole(p, book, i, F, R), idx \in Slot, idx \notin R, CancelTakes
  <2>5. PICK T : T = R \ {x}
    OBVIOUS
  <2>6. /\ x \in R /\ before = [pool |-> before.pool, book |-> before.book]
        /\ Whole(before.pool, before.book, i, F \cup {x}, T)
        /\ Kept(p.data, before.pool.data, idx, R, T) /\ before.pool.data[idx] = p.data[idx]
        /\ Recs(before.pool.data, T) = Unnamed(Recs(p.data, R), key)
    BY <2>4, <2>5 DEF Took, RemovedWhole
  <2>7. \A z \in T : SameOrder(before.pool.data[z], p.data[z])
    BY <2>6 DEF Kept
  <2>8. ASSUME NEW z \in T, KeyOf(p.data[z]) = KeyOf(p.data[idx]) PROVE FALSE
    <3>1. z \in R /\ z # x
      BY <2>5
    <3>2. o.target = o.clientOrderId
      BY <1>1, <2>8, <3>1 DEF Arriving
    <3>3. key = KeyOf(p.data[z])
      BY <1>1, <2>1, <2>8, <3>2 DEF KeyOf
    <3>4. KeyOf(p.data[x]) = key
      BY <2>4, RecFields DEF Took
    <3>5. AllKnown(p.data, book, R)
      BY DEF Whole
    <3> QED BY <2>6, <3>1, <3>3, <3>4, <3>5 DEF AllKnown
  <2>9. Recs(before.pool.data, T) = Left(p, R, idx)
    BY <1>1, <1>2, <2>1, <2>6 DEF Left
  <2>10. Vacated(p, i, F, R, idx, before, F \cup {x}, T)
    BY <2>5, <2>6, <2>7, <2>8, <2>9 DEF Vacated
  <2> QED BY <2>10
<1>3. CASE o.kind # "Replace"
  <2>1. before = [pool |-> p, book |-> book]
    BY <1>1, <1>3 DEF CancelFirst
  <2>2. before = [pool |-> before.pool, book |-> before.book] /\ before.pool = p /\ before.book = book
    BY <2>1
  <2>3. \A z \in R : SameOrder(p.data[z], p.data[z])
    BY DEF SameOrder
  <2>4. \A z \in R : KeyOf(p.data[z]) # KeyOf(p.data[idx])
    BY <1>1, <1>3 DEF Arriving
  <2>5. Recs(p.data, R) = Left(p, R, idx)
    BY <1>1, <1>3 DEF Left
  <2>6. Vacated(p, i, F, R, idx, before, F, R)
    BY <2>2, <2>3, <2>4, <2>5 DEF Vacated
  <2> QED BY <2>6
<1> QED BY <1>2, <1>3

\* An incoming order trades with a book, beside O, and leaves what PriceTimeBook says.
Arrived(p, i, R, O, idx, trades, after) ==
  LET B == Left(p, R, idx) \cup O
      o == Rec(p.data, idx)
  IN  /\ Traded(B, o, trades)
      /\ \E S : Holds(after, i, S) /\ Promise!BookAfter(B, o) = S \cup O

\* An incoming order replaces, matches and rests as PriceTimeBook says.
LEMMA IncomingTrades ==
  ASSUME ~KeyReuse, NEW p, NEW book, NEW i, NEW F, NEW R, Whole(p, book, i, F, R),
         NEW idx \in Slot, idx \notin R, idx \notin F, Arriving(p, book, i, R, idx),
         NEW O, Foreign(O, i),
         NEW before, before = CancelFirst([pool |-> p, book |-> book], idx),
         NEW run, run = Match([before EXCEPT !.pool.data[idx].kind = "New"], idx),
         NEW after, after = RestOrGone([pool |-> run.pool, book |-> run.book], idx)
  PROVE  Arrived(p, i, R, O, idx, run.trades, after)
<1>1. PICK E, U : Vacated(p, i, F, R, idx, before, E, U)
  BY CancelFirstVacates
<1>2. PICK mid, b : mid = before.pool /\ b = before.book
  OBVIOUS
<1>3. /\ before = [pool |-> mid, book |-> b] /\ Whole(mid, b, i, E, U)
      /\ U \subseteq R /\ idx \notin E /\ idx \notin U /\ mid.data[idx] = p.data[idx]
      /\ \A z \in U : SameOrder(mid.data[z], p.data[z])
      /\ \A z \in U : KeyOf(p.data[z]) # KeyOf(p.data[idx])
      /\ Recs(mid.data, U) = Left(p, R, idx)
  BY <1>1, <1>2 DEF Vacated
<1>4. PICK q : q = [mid EXCEPT !.data[idx].kind = "New"]
  OBVIOUS
<1>5. /\ Whole(q, b, i, E, U)
      /\ \A z \in Slot \ {idx} : q.data[z] = mid.data[z]
      /\ SameOrder(q.data[idx], mid.data[idx])
      /\ q.data[idx].next = mid.data[idx].next /\ q.data[idx].prev = mid.data[idx].prev
  <2>1. Whole(mid, b, i, E, U) /\ idx \in Slot /\ idx \notin U
    BY <1>3
  <2>2. KindSet(mid, b, i, E, U, idx, q)
    BY ONLY <1>4, <2>1, KindKeepsWhole
  <2> QED BY <2>2 DEF KindSet
<1>6. R \subseteq Slot
  BY DEF Whole, BookOK, LevelsOK
<1>7. q.data[idx].remaining = mid.data[idx].remaining
  <2>1. mid = [data |-> mid.data, freeHead |-> mid.freeHead, allocatedCount |-> mid.allocatedCount]
        /\ mid.data \in [Slot -> OrderRecord]
    BY <1>3 DEF Whole, PoolOK
  <2>2. q.data[idx] = [mid.data[idx] EXCEPT !.kind = "New"]
    BY <1>4, <2>1
  <2>3. mid.data[idx] \in OrderRecord
    BY <2>1
  <2> QED BY <2>2, <2>3, SetKind
<1>8. Rec(q.data, idx) = Rec(p.data, idx)
  <2>1. PICK data, new : data = mid.data /\ new = q.data
    OBVIOUS
  <2>2. SameOrder(new[idx], data[idx]) /\ new[idx].remaining = data[idx].remaining
    BY <1>5, <1>7, <2>1
  <2>3. Rec(new, idx) = Rec(data, idx)
    BY ONLY <2>2, RecSame
  <2> QED BY <1>3, <2>1, <2>3 DEF Rec
<1>9. Recs(q.data, U) = Left(p, R, idx)
  <2>1. \A z \in U : q.data[z] = mid.data[z]
    BY <1>3, <1>5, <1>6
  <2>2. Recs(q.data, U) = Recs(mid.data, U)
    BY ONLY <2>1 DEF Recs, Rec
  <2> QED BY <1>3, <2>2
<1>10. \A z \in U \cup {idx} : SameOrder(q.data[z], p.data[z]) /\ KeyOf(q.data[z]) = KeyOf(p.data[z])
  <2>1. \A z \in U : q.data[z] = mid.data[z]
    BY <1>3, <1>5, <1>6
  <2>2. \A z \in U : SameOrder(q.data[z], p.data[z])
    BY <1>3, <2>1
  <2>3. SameOrder(q.data[idx], p.data[idx])
    BY <1>3, <1>5
  <2> QED BY <2>2, <2>3, SameName
<1>11. Incoming(q, i, U, idx)
  <2>1. q.data[idx].next = NullOrder /\ q.data[idx].prev = NullOrder
    BY <1>3, <1>5 DEF Arriving
  <2>2. q.data[idx].instrument = i
    BY <1>10 DEF SameOrder, Arriving
  <2>3. \A y \in U : q.data[y].sequence < q.data[idx].sequence
    <3>1. \A y \in U : p.data[y].sequence < p.data[idx].sequence
      BY <1>3 DEF Arriving
    <3> QED BY <1>10, <3>1 DEF SameOrder
  <2>4. \A y \in U : KeyOf(q.data[y]) # KeyOf(q.data[idx])
    BY <1>3, <1>10
  <2> QED BY <2>1, <2>2, <2>3, <2>4 DEF Incoming
<1>12. PICK st, B, o : st = [pool |-> q, book |-> b] /\ B = Left(p, R, idx) \cup O /\ o = Rec(p.data, idx)
  OBVIOUS
<1>13. run = Match(st, idx)
  <2>1. [before EXCEPT !.pool.data[idx].kind = "New"] = st
    BY <1>3, <1>4, <1>12
  <2> QED BY <2>1
<1>14. PICK T : /\ MatchedWhole(q, i, E, U, idx, run, T) /\ ~CanFill(run, idx)
                /\ Traded(B, o, run.trades)
                /\ Promise!BookAfter(B, o) = Recs(run.pool.data, T) \cup O \cup
                                             {r \in {Rec(run.pool.data, idx)} : r.remaining > 0}
  <2>1. /\ Whole(st.pool, st.book, i, E, U) /\ st.pool = q /\ idx \in Slot /\ idx \notin U /\ idx \notin E
        /\ st.pool.data[idx].instrument = i /\ Foreign(O, i)
    BY <1>3, <1>5, <1>11, <1>12 DEF Incoming
  <2>2. B = Recs(st.pool.data, U) \cup O /\ o = Rec(st.pool.data, idx)
    BY <1>8, <1>9, <1>12
  <2>3. PICK T : MatchedLike(st, i, E, U, idx, O, B, o, run, T)
    BY ONLY <1>13, <2>1, <2>2, MatchTrades
  <2> QED BY <2>1, <2>3 DEF MatchedLike
<1>15. PICK left, G : left = run.pool /\ G = E \cup (U \ T)
  OBVIOUS
<1>16. Kept(q.data, left.data, idx, U, T) /\ Whole(left, run.book, i, G, T) /\ T \subseteq U
  BY <1>14, <1>15 DEF MatchedWhole, Kept
<1>17. idx \notin T /\ idx \notin G
  BY <1>3, <1>15, <1>16
<1>18. Incoming(left, i, T, idx)
  <2>1. \A z \in T \cup {idx} : SameOrder(left.data[z], q.data[z]) /\ KeyOf(left.data[z]) = KeyOf(q.data[z])
    BY <1>16, SameName DEF Kept
  <2>2. left.data[idx].next = NullOrder /\ left.data[idx].prev = NullOrder
    BY <1>11, <1>16 DEF Kept, Incoming
  <2>3. left.data[idx].instrument = i
    BY <1>11, <2>1 DEF SameOrder, Incoming
  <2>4. \A y \in T : left.data[y].sequence < left.data[idx].sequence
    BY <1>11, <1>16, <2>1 DEF SameOrder, Incoming
  <2>5. \A y \in T : KeyOf(left.data[y]) # KeyOf(left.data[idx])
    BY <1>11, <1>16, <2>1 DEF Incoming
  <2> QED BY <2>2, <2>3, <2>4, <2>5 DEF Incoming
<1>19. left.data[idx].remaining > 0 => Clear(left.data, T, left.data[idx].side, left.data[idx].price)
  BY <1>14, <1>15, <1>16, ClearAfterMatch
<1>20. PICK S : S = Recs(left.data, T) \cup {r \in {Rec(left.data, idx)} : r.remaining > 0}
  OBVIOUS
<1>21. Holds(after, i, S)
  <2>1. PICK done : done = [pool |-> left, book |-> run.book]
    OBVIOUS
  <2>2. after = RestOrGone(done, idx)
    BY <1>15, <2>1
  <2>3. Holds(after, i, Recs(left.data, T) \cup {r \in {Rec(left.data, idx)} : r.remaining > 0})
    BY ONLY <1>16, <1>17, <1>18, <1>19, <2>1, <2>2, idx \in Slot, RestJoins
  <2> QED BY <1>20, <2>3
<1>22. Promise!BookAfter(B, o) = S \cup O
  BY ONLY <1>14, <1>15, <1>20
<1> QED BY <1>12, <1>14, <1>21, <1>22 DEF Arrived

-----------------------------------------------------------------------------
(***************************************************************************)
(* What process_order reports.                                             *)
(***************************************************************************)
\* The places of the trades among the events.
Fills(es) == {k \in DOMAIN es : es[k].type = "Trade"}

\* Events that end with the trades of s, and have no others.
EndWith(S, a, s, es) ==
  /\ a \in Seq(S) /\ s \in Seq(S) /\ es = a \o s
  /\ \A k \in DOMAIN a : a[k].type # "Trade"
  /\ \A k \in DOMAIN s : s[k].type = "Trade"

\* Whatever goes before them, the trades of the events are the trades at their end.
LEMMA TradesInEvents ==
  ASSUME NEW S, NEW a, NEW s, NEW es, EndWith(S, a, s, es)
  PROVE  TradesIn(es) = [n \in 1..Len(s) |-> Shown(s[n])]
<1>1. /\ a \in Seq(S) /\ s \in Seq(S) /\ es = a \o s
      /\ \A k \in DOMAIN a : a[k].type # "Trade"
      /\ \A k \in DOMAIN s : s[k].type = "Trade"
  BY DEF EndWith
<1>2. PICK l, m : l = Len(a) /\ m = Len(s)
  OBVIOUS
<1>3. /\ l \in Nat /\ m \in Nat /\ DOMAIN es = 1..(l + m) /\ DOMAIN a = 1..l /\ DOMAIN s = 1..m
      /\ \A k \in 1..(l + m) : es[k] = IF k <= l THEN a[k] ELSE s[k - l]
  BY <1>1, <1>2, ConcatShape
<1>4. PICK fills : fills = Fills(es)
  OBVIOUS
<1>5. fills = (l + 1)..(l + m)
  <2>1. ASSUME NEW k \in (l + 1)..(l + m) PROVE k \in fills
    <3>1. k \in 1..(l + m) /\ ~(k <= l) /\ k - l \in 1..m
      BY <1>3
    <3>2. es[k] = s[k - l] /\ s[k - l].type = "Trade"
      BY <1>1, <1>3, <3>1
    <3> QED BY <1>3, <1>4, <3>1, <3>2 DEF Fills
  <2>2. ASSUME NEW k \in fills PROVE k \in (l + 1)..(l + m)
    <3>1. k \in 1..(l + m) /\ es[k].type = "Trade"
      BY <1>3, <1>4 DEF Fills
    <3>2. ~(k <= l)
      <4>1. k <= l => es[k] = a[k] /\ k \in DOMAIN a
        BY <1>3, <3>1
      <4> QED BY <1>1, <3>1, <4>1
    <3> QED BY <1>3, <3>1, <3>2
  <2> QED BY <2>1, <2>2
<1>6. Cardinality(fills) = m
  <2>1. l + 1 \in Int /\ l + m \in Int
    BY <1>3
  <2>2. Cardinality((l + 1)..(l + m)) = IF l + 1 > l + m THEN 0 ELSE (l + m) - (l + 1) + 1
    BY ONLY <2>1, FS_Interval
  <2> QED BY <1>3, <1>5, <2>2
<1>7. ASSUME NEW n \in 1..m, NEW k \in fills
      PROVE  Cardinality({j \in fills : j < k}) = n - 1 <=> k = l + n
  <2>1. k \in Int /\ l + 1 <= k /\ k <= l + m
    BY <1>3, <1>5
  <2>2. {j \in fills : j < k} = (l + 1)..(k - 1)
    BY <1>3, <1>5, <2>1
  <2>3. PICK x, y : x = l + 1 /\ y = k - 1 /\ x \in Int /\ y \in Int
    BY <1>3, <2>1
  <2>4. Cardinality(x..y) = IF x > y THEN 0 ELSE y - x + 1
    BY ONLY <2>3, FS_Interval
  <2>5. {j \in fills : j < k} = x..y
    BY <2>2, <2>3
  <2>6. (IF x > y THEN 0 ELSE y - x + 1) = (k - 1) - l
    BY <1>3, <2>1, <2>3
  <2>7. Cardinality({j \in fills : j < k}) = (k - 1) - l
    BY <2>4, <2>5, <2>6
  <2>8. n \in Int
    OBVIOUS
  <2> QED BY <1>3, <2>1, <2>7, <2>8
<1>8. ASSUME NEW n \in 1..m
      PROVE  (CHOOSE k \in fills : Cardinality({j \in fills : j < k}) = n - 1) = l + n
  <2>1. l + n \in fills
    BY <1>3, <1>5
  <2> QED BY <1>7, <2>1
<1>9. ASSUME NEW n \in 1..m PROVE es[l + n] = s[n]
  <2>1. l + n \in 1..(l + m) /\ ~(l + n <= l) /\ (l + n) - l = n
    BY <1>3
  <2> QED BY <1>3, <2>1
<1>10. TradesIn(es) = [n \in 1..m |-> Shown(es[l + n])]
  BY <1>4, <1>6, <1>8 DEF TradesIn, Fills, Shown
<1> QED BY <1>2, <1>9, <1>10

\* Events without a trade.
LEMMA NoTrades ==
  /\ TradesIn(<<>>) = <<>>
  /\ \A o : TradesIn(<<Cancelled(o)>>) = <<>>
<1>1. ASSUME NEW es, NEW S, es \in Seq(S), \A k \in DOMAIN es : es[k].type # "Trade"
      PROVE  TradesIn(es) = <<>>
  <2>1. PICK s : s = <<>>
    OBVIOUS
  <2>2. s \in Seq(S) /\ Len(s) = 0 /\ DOMAIN s = {}
    BY <2>1
  <2>3. es = es \o s
    BY <1>1, <2>1
  <2>4. \A k \in DOMAIN s : s[k].type = "Trade"
    BY <2>2
  <2>5. TradesIn(es) = [n \in 1..Len(s) |-> Shown(s[n])]
    <3>1. EndWith(S, es, s, es)
      BY <1>1, <2>2, <2>3, <2>4 DEF EndWith
    <3> QED BY ONLY <3>1, TradesInEvents
  <2>6. 1..Len(s) = {}
    BY <2>2
  <2>7. [n \in 1..Len(s) |-> Shown(s[n])] = <<>>
    BY <2>6
  <2> QED BY <2>5, <2>7
<1>2. TradesIn(<<>>) = <<>>
  <2>1. <<>> \in Seq({}) /\ \A k \in DOMAIN <<>> : <<>>[k].type # "Trade"
    OBVIOUS
  <2> QED BY ONLY <2>1, <1>1
<1>3. ASSUME NEW o PROVE TradesIn(<<Cancelled(o)>>) = <<>>
  <2>1. PICK e : e = Cancelled(o)
    OBVIOUS
  <2>2. <<e>> \in Seq({e}) /\ \A k \in DOMAIN <<e>> : <<e>>[k] = e
    OBVIOUS
  <2>3. e.type # "Trade"
    BY <2>1 DEF Cancelled
  <2>4. TradesIn(<<e>>) = <<>>
    BY ONLY <2>2, <2>3, <1>1
  <2> QED BY <2>1, <2>4
<1> QED BY <1>2, <1>3

\* What process_order reports of an incoming order o that makes these trades.
Reported(o, trades, es) ==
  /\ Listed(trades) /\ \A k \in DOMAIN trades : trades[k].type = "Trade"
  /\ es = ((IF o.kind = "Replace" THEN <<Replaced(o)>> ELSE <<>>) \o <<Accepted(o)>>) \o trades

\* The trades among it.
LEMMA TradesOfIncoming ==
  ASSUME NEW o, NEW trades, NEW es, Reported(o, trades, es)
  PROVE  TradesIn(es) = [n \in 1..Len(trades) |-> Shown(trades[n])]
<1>1. /\ Listed(trades) /\ \A k \in DOMAIN trades : trades[k].type = "Trade"
      /\ es = ((IF o.kind = "Replace" THEN <<Replaced(o)>> ELSE <<>>) \o <<Accepted(o)>>) \o trades
  BY DEF Reported
<1>2. PICK S : trades \in Seq(S)
  BY <1>1 DEF Listed
<1>3. PICK e, f, T : e = Replaced(o) /\ f = Accepted(o) /\ T = S \cup {e, f}
  OBVIOUS
<1>4. e.type # "Trade" /\ f.type # "Trade"
  BY <1>3 DEF Replaced, Accepted
<1>5. PICK a : a = (IF o.kind = "Replace" THEN <<e>> ELSE <<>>) \o <<f>>
  OBVIOUS
<1>6. a \in Seq(T) /\ \A k \in DOMAIN a : a[k] \in {e, f}
  <2>1. CASE o.kind = "Replace"
    <3>1. PICK x, y : x = <<e>> /\ y = <<f>>
      OBVIOUS
    <3>2. x \in Seq({e, f}) /\ y \in Seq({e, f}) /\ a = x \o y
      BY <1>5, <2>1, <3>1
    <3>3. a \in Seq({e, f})
      BY <3>2
    <3>4. \A k \in DOMAIN a : a[k] \in {e, f}
      BY <3>3
    <3>5. a \in Seq(T)
      BY <1>3, <3>3
    <3> QED BY <3>4, <3>5
  <2>2. CASE o.kind # "Replace"
    <3>1. a = <<f>>
      BY <1>5, <2>2
    <3> QED BY <1>3, <3>1
  <2> QED BY <2>1, <2>2
<1>7. trades \in Seq(T) /\ es = a \o trades /\ \A k \in DOMAIN a : a[k].type # "Trade"
  <2>1. trades \in Seq(T)
    BY <1>2, <1>3
  <2>2. es = a \o trades
    BY <1>1, <1>3, <1>5
  <2> QED BY <1>4, <1>6, <2>1, <2>2
<1>8. \A k \in DOMAIN trades : trades[k].type = "Trade"
  BY <1>1
<1>9. EndWith(T, a, trades, es)
  BY <1>6, <1>7, <1>8 DEF EndWith
<1> QED BY ONLY <1>9, TradesInEvents

-----------------------------------------------------------------------------
(***************************************************************************)
(* One command, as PriceTimeBook executes it.                              *)
(***************************************************************************)
\* The command in slot s.
Com(data, s) ==
  [kind |-> data[s].kind, instrument |-> data[s].instrument, key |-> KeyOf(data[s]),
   target |-> <<data[s].account, data[s].target>>, side |-> data[s].side, price |-> data[s].price,
   quantity |-> data[s].quantity, id |-> data[s].exchangeOrderId, sequence |-> data[s].sequence]

\* Nothing of an accepted command has been traded yet.
Unfilled(data, s) == data[s].remaining = data[s].quantity

\* Its order, as PriceTimeBook makes it.
LEMMA ComOrder ==
  ASSUME NEW data, NEW s, Unfilled(data, s)
  PROVE  Promise!OrderOf(Com(data, s)) = Rec(data, s)
BY DEF Promise!OrderOf, Com, Rec, Unfilled

\* The orders of a book that c names by key.
NamedBy(book, c, key) == {r \in book : r.instrument = c.instrument /\ r.key = key}

\* What the command c makes of a book, and what it trades.
Obeyed(c, book, after, ts) ==
  \/ /\ c.kind = "New"
     /\ ts = Promise!TradesOf(book, Promise!OrderOf(c)) /\ after = Promise!BookAfter(book, Promise!OrderOf(c))
  \/ /\ c.kind = "Replace" /\ NamedBy(book, c, c.target) # {}
     /\ ts = Promise!TradesOf(book \ NamedBy(book, c, c.target), Promise!OrderOf(c))
     /\ after = Promise!BookAfter(book \ NamedBy(book, c, c.target), Promise!OrderOf(c))
  \/ /\ c.kind = "Replace" /\ NamedBy(book, c, c.target) = {}
     /\ ts = <<>> /\ after = book
  \/ /\ c.kind = "Cancel"
     /\ ts = <<>> /\ after = book \ NamedBy(book, c, c.key)

\* The orders of S are all of instrument i.
Native(S, i) == \A r \in S : r.instrument = i

\* The orders of a name in a book of one instrument, beside others.
LEMMA NamedHere ==
  ASSUME NEW S, NEW O, NEW i, Foreign(O, i), Native(S, i),
         NEW c, c.instrument = i, NEW key
  PROVE  /\ (S \cup O) \ NamedBy(S \cup O, c, key) = Unnamed(S, key) \cup O
         /\ NamedBy(S \cup O, c, key) = {r \in S : r.key = key}
BY DEF NamedBy, Unnamed, Foreign, Native

\* The command in idx has become what PriceTimeBook makes of it, in the book of i beside O.
Obeys(p, bs, i, R, O, idx, new, q, ts) ==
  \E after, S : /\ Updated(bs, i, after.book, new) /\ q = after.pool /\ Holds(after, i, S)
                /\ Obeyed(Com(p.data, idx), Recs(p.data, R) \cup O, S \cup O, ts)

\* What the slots of a book hold is of its instrument, and known by its name.
LEMMA BookShows ==
  ASSUME ~KeyReuse, NEW p, NEW book, NEW i, NEW F, NEW R, Whole(p, book, i, F, R)
  PROVE  /\ Native(Recs(p.data, R), i)
         /\ \A key : ContainsOrder(book, key) <=> \E r \in Recs(p.data, R) : r.key = key
<1>1. PICK data, S : data = p.data /\ S = Recs(data, R)
  OBVIOUS
<1>2. /\ \A x \in R : data[x].instrument = i
      /\ \A key \in DOMAIN book.orderMap : book.orderMap[key] \in R /\ KeyOf(data[book.orderMap[key]]) = key
      /\ \A x \in R : KeyOf(data[x]) \in DOMAIN book.orderMap
  BY <1>1 DEF Whole, BookOK, AllKnown
<1>3. \A r \in S : \E x \in R : r = Rec(data, x)
  BY <1>1 DEF Recs
<1>4. \A x \in R : Rec(data, x) \in S
  BY <1>1 DEF Recs
<1>5. \A x : Rec(data, x).instrument = data[x].instrument /\ Rec(data, x).key = KeyOf(data[x])
  BY RecFields
<1>6. ASSUME NEW r \in S PROVE r.instrument = i
  BY <1>2, <1>3, <1>5
<1>7. ASSUME NEW key PROVE ContainsOrder(book, key) <=> \E r \in S : r.key = key
  <2>1. ASSUME ContainsOrder(book, key) PROVE \E r \in S : r.key = key
    <3>1. PICK x \in R : KeyOf(data[x]) = key
      BY <1>2, <2>1 DEF ContainsOrder
    <3> QED BY <1>4, <1>5, <3>1
  <2>2. ASSUME NEW r \in S, r.key = key PROVE ContainsOrder(book, key)
    <3>1. PICK x \in R : r = Rec(data, x)
      BY <1>3
    <3>2. KeyOf(data[x]) = key
      BY <1>5, <2>2, <3>1
    <3> QED BY <1>2, <3>1, <3>2 DEF ContainsOrder
  <2> QED BY <2>1, <2>2
<1> QED BY <1>1, <1>6, <1>7 DEF Native

\* process_order of a cancel.
LEMMA CancelObeys ==
  ASSUME ~KeyReuse, NEW p, NEW book, NEW i, NEW F, NEW R, Whole(p, book, i, F, R),
         NEW idx \in Slot, idx \notin R, idx \notin F, NEW key, ContainsOrder(book, key),
         NEW st, st = CancelOrder([pool |-> p, book |-> book], key),
         NEW after, after = [pool |-> Deallocate(st.pool, idx), book |-> st.book]
  PROVE  Holds(after, i, Unnamed(Recs(p.data, R), key))
<1>1. PICK x : Took(p, i, F, R, key, idx, st, x)
  BY ONLY ~KeyReuse, Whole(p, book, i, F, R), idx \in Slot, idx \notin R, ContainsOrder(book, key),
          st = CancelOrder([pool |-> p, book |-> book], key), CancelTakes
<1>2. PICK q, b, E, T : q = st.pool /\ b = st.book /\ E = F \cup {x} /\ T = R \ {x}
  OBVIOUS
<1>3. x \in R /\ Whole(q, b, i, E, T) /\ Recs(q.data, T) = Unnamed(Recs(p.data, R), key)
  BY <1>1, <1>2 DEF Took, RemovedWhole
<1>4. idx \notin T /\ idx \notin E
  BY <1>2, <1>3
<1>5. after = [pool |-> Deallocate(q, idx), book |-> b]
  BY <1>2
<1>6. Absorbed(q, i, E, T, idx, after, E \cup {idx}, T)
  BY <1>3, <1>4, <1>5, DeallocateAbsorbs
<1>7. Whole(after.pool, after.book, i, E \cup {idx}, T) /\ \A z \in Slot \ (T \cup {idx}) : after.pool.data[z] = q.data[z]
  BY <1>6 DEF Absorbed
<1>8. \A z \in T : after.pool.data[z] = q.data[z]
  <2>1. PoolOK(q, E) /\ T \subseteq Slot
    BY <1>3 DEF Whole, BookOK, LevelsOK
  <2>2. \A z \in Slot \ {idx} : Deallocate(q, idx).data[z] = q.data[z]
    BY ONLY <1>4, <2>1, idx \in Slot, DeallocateGives
  <2>3. after.pool = Deallocate(q, idx)
    BY <1>5
  <2> QED BY ONLY <1>4, <2>1, <2>2, <2>3
<1>9. Recs(after.pool.data, T) = Recs(q.data, T)
  BY ONLY <1>8 DEF Recs, Rec
<1> QED BY <1>3, <1>7, <1>9 DEF Holds

\* What process_order does with a command of any kind is what PriceTimeBook does.
LEMMA ProcessObeys ==
  ASSUME ~KeyReuse, NEW F, NEW R, NEW next, NEW line, EngineOK(pool, books, next, line, F, R),
         line # <<>>, NEW idx, idx = line[1], Process(idx), Unfilled(pool.data, idx),
         NEW i, i = pool.data[idx].instrument, NEW O, Foreign(O, i)
  PROVE  Obeys(pool, books, i, R[i], O, idx, books', pool', TradesIn(events'))
<1>1. PICK o, book, c, S : o = pool.data[idx] /\ book = books[i] /\ c = Com(pool.data, idx) /\ S = Recs(pool.data, R[i])
  OBVIOUS
<1>2. line \in Seq(Slot)
  BY DEF EngineOK, LineOK
<1>3. 1 \in DOMAIN line /\ idx \in Members(line) /\ idx \in Slot
  BY <1>2 DEF Members
<1>4. o.next = NullOrder /\ o.prev = NullOrder /\ i \in Instrument
  BY <1>1, <1>3 DEF EngineOK, LineOK
<1>5. Whole(pool, book, i, F, R[i]) /\ idx \notin R[i] /\ idx \notin F
  BY <1>1, <1>3, <1>4 DEF EngineOK, Parts
<1>6. books = [j \in Instrument |-> books[j]]
  BY DEF EngineOK
<1>7. o.kind \in {"New", "Cancel", "Replace"}
  <2>1. pool.data \in [Slot -> OrderRecord]
    BY <1>5 DEF Whole, PoolOK
  <2>2. o \in OrderRecord
    BY <1>1, <1>3, <2>1
  <2> QED BY <2>2 DEF OrderRecord
<1>8. PICK named : named = <<o.account, IF o.kind = "Cancel" THEN o.clientOrderId ELSE o.target>>
  OBVIOUS
<1>9. \/ o.kind = "New" /\ ProcessIncoming(i, idx)
      \/ o.kind = "Replace" /\ ContainsOrder(book, named) /\ ProcessIncoming(i, idx)
      \/ o.kind = "Cancel" /\ ContainsOrder(book, named) /\ ProcessCancel(i, idx)
      \/ o.kind # "New" /\ ~ContainsOrder(book, named) /\ ProcessMissing(idx)
  BY <1>1, <1>8 DEF Process, BookOf
<1>10. /\ Native(S, i)
      /\ \A key : ContainsOrder(book, key) <=> \E r \in S : r.key = key
  BY ONLY <1>1, <1>5, ~KeyReuse, BookShows
<1>11. c.kind = o.kind /\ c.instrument = i /\ c.key = KeyOf(o) /\ c.target = <<o.account, o.target>>
  BY <1>1 DEF Com
<1>12. \A key : /\ (S \cup O) \ NamedBy(S \cup O, c, key) = Unnamed(S, key) \cup O
                /\ NamedBy(S \cup O, c, key) = {r \in S : r.key = key}
  BY ONLY <1>10, <1>11, Foreign(O, i), NamedHere
<1>13. Promise!OrderOf(c) = Rec(pool.data, idx)
  BY <1>1, ComOrder
<1>14. CASE o.kind # "Cancel" /\ (o.kind = "Replace" => ContainsOrder(book, named)) /\ ProcessIncoming(i, idx)
  <2>1. Arriving(pool, book, i, R[i], idx)
    <3>1. \A y \in R[i] : pool.data[y].sequence < o.sequence
      BY <1>1, <1>3, <1>4 DEF EngineOK, Earlier
    <3>2. o.kind = "Replace" => ContainsOrder(book, <<o.account, o.target>>)
      BY <1>8, <1>14
    <3>3. ~KeyReuse => \A y \in R[i] : KeyOf(pool.data[y]) = KeyOf(o) => o.kind = "Replace" /\ o.target = o.clientOrderId
      BY <1>1, <1>3, <1>14 DEF EngineOK, NamesApart
    <3> QED BY <1>1, <1>4, <3>1, <3>2, <3>3 DEF Arriving
  <2>2. PICK before : before = CancelFirst([pool |-> pool, book |-> book], idx)
    OBVIOUS
  <2>3. PICK run : run = Match([before EXCEPT !.pool.data[idx].kind = "New"], idx)
    OBVIOUS
  <2>4. PICK after : after = RestOrGone([pool |-> run.pool, book |-> run.book], idx)
    OBVIOUS
  <2>5. Arrived(pool, i, R[i], O, idx, run.trades, after)
    BY ONLY <1>3, <1>5, <2>1, <2>2, <2>3, <2>4, ~KeyReuse, Foreign(O, i), IncomingTrades
  <2>6. pool' = after.pool /\ books' = [books EXCEPT ![i] = after.book]
    BY <1>1, <1>14, <2>2, <2>3, <2>4, ZenonT(40) DEF ProcessIncoming, RestOrGone
  <2>7. events' = ((IF o.kind = "Replace" THEN <<Replaced(o)>> ELSE <<>>) \o <<Accepted(o)>>) \o run.trades
    BY <1>1, <1>14, <2>2, <2>3 DEF ProcessIncoming
  <2>8. PICK B, rec : B = Left(pool, R[i], idx) \cup O /\ rec = Rec(pool.data, idx)
    OBVIOUS
  <2>9. PICK A : Traded(B, rec, run.trades) /\ Holds(after, i, A) /\ Promise!BookAfter(B, rec) = A \cup O
    BY <2>5, <2>8 DEF Arrived
  <2>10. TradesIn(events') = Promise!TradesOf(B, rec)
    <3>1. PICK es, s : es = events' /\ s = run.trades
      OBVIOUS
    <3>2. Listed(s) /\ (\A k \in DOMAIN s : s[k].type = "Trade")
          /\ es = ((IF o.kind = "Replace" THEN <<Replaced(o)>> ELSE <<>>) \o <<Accepted(o)>>) \o s
      BY <2>7, <2>9, <3>1 DEF Traded
    <3>3. Reported(o, s, es)
      BY ONLY <3>2 DEF Reported
    <3>4. TradesIn(es) = [n \in 1..Len(s) |-> Shown(s[n])]
      BY ONLY <3>3, TradesOfIncoming
    <3> QED BY <2>9, <3>1, <3>4 DEF Traded
  <2>11. Obeyed(c, S \cup O, A \cup O, TradesIn(events'))
    <3>1. CASE o.kind = "Replace"
      <4>1. named = c.target /\ B = Unnamed(S, named) \cup O
        BY <1>1, <1>8, <1>11, <2>8, <3>1 DEF Left
      <4>2. NamedBy(S \cup O, c, c.target) # {}
        <5>1. PICK r \in S : r.key = c.target
          BY <1>10, <1>14, <3>1, <4>1
        <5> QED BY <1>12, <5>1
      <4>3. (S \cup O) \ NamedBy(S \cup O, c, c.target) = B
        BY <1>12, <4>1
      <4> QED BY <1>11, <1>13, <2>8, <2>9, <2>10, <3>1, <4>2, <4>3 DEF Obeyed
    <3>2. CASE o.kind # "Replace"
      <4>1. c.kind = "New"
        BY <1>11, <1>14, <1>7, <3>2
      <4>2. B = S \cup O
        BY <1>1, <2>8, <3>2 DEF Left
      <4> QED BY <1>13, <2>8, <2>9, <2>10, <4>1, <4>2 DEF Obeyed
    <3> QED BY <3>1, <3>2
  <2> QED BY <1>1, <2>6, <2>9, <2>11 DEF Obeys, Updated
<1>15. CASE o.kind = "Cancel" /\ ContainsOrder(book, named) /\ ProcessCancel(i, idx)
  <2>1. PICK key, st : key = KeyOf(o) /\ st = CancelOrder([pool |-> pool, book |-> book], key)
    OBVIOUS
  <2>2. ContainsOrder(book, key)
    BY <1>8, <1>15, <2>1 DEF KeyOf
  <2>3. PICK after : after = [pool |-> Deallocate(st.pool, idx), book |-> st.book]
    OBVIOUS
  <2>4. Holds(after, i, Unnamed(Recs(pool.data, R[i]), key))
    BY ONLY <1>3, <1>5, <2>1, <2>2, <2>3, ~KeyReuse, CancelObeys
  <2>5. pool' = after.pool /\ books' = [books EXCEPT ![i] = after.book] /\ events' = <<Cancelled(o)>>
    BY <1>1, <1>15, <2>1, <2>3 DEF ProcessCancel
  <2>6. TradesIn(events') = <<>>
    BY <2>5, NoTrades
  <2>7. Obeyed(c, S \cup O, Unnamed(S, key) \cup O, TradesIn(events'))
    BY <1>11, <1>12, <1>15, <2>1, <2>6 DEF Obeyed
  <2> QED BY <1>1, <2>4, <2>5, <2>7 DEF Obeys, Updated
<1>16. CASE o.kind # "New" /\ ~ContainsOrder(book, named) /\ ProcessMissing(idx)
  <2>1. PICK after : after = [pool |-> Deallocate(pool, idx), book |-> book]
    OBVIOUS
  <2>2. Holds(after, i, S)
    BY ONLY <1>1, <1>3, <1>5, <2>1, MissingHolds
  <2>3. pool' = after.pool /\ books' = [books EXCEPT ![i] = after.book] /\ events' = <<>>
    BY <1>1, <1>6, <1>16, <2>1 DEF ProcessMissing
  <2>4. TradesIn(events') = <<>>
    BY <2>3, NoTrades
  <2>5. NamedBy(S \cup O, c, named) = {}
    BY <1>10, <1>12, <1>16
  <2>6. o.kind \in {"Cancel", "Replace"}
    BY <1>16, <1>7
  <2>7. Obeyed(c, S \cup O, S \cup O, TradesIn(events'))
    <3>1. CASE o.kind = "Cancel"
      <4>1. named = c.key
        BY <1>8, <1>11, <3>1 DEF KeyOf
      <4> QED BY <1>11, <2>4, <2>5, <3>1, <4>1 DEF Obeyed
    <3>2. CASE o.kind = "Replace"
      <4>1. named = c.target
        BY <1>8, <1>11, <3>2
      <4> QED BY <1>11, <2>4, <2>5, <3>2, <4>1 DEF Obeyed
    <3> QED BY <2>6, <3>1, <3>2
  <2> QED BY <1>1, <2>2, <2>3, <2>7 DEF Obeys, Updated
<1> QED BY <1>9, <1>14, <1>15, <1>16

-----------------------------------------------------------------------------
(***************************************************************************)
(* The books and the line of the engine, as PriceTimeBook sees them.       *)
(***************************************************************************)
\* What the slots in the lists of the books hold.
AllShown(data, bs) == {Rec(data, s) : s \in UNION {Walk(data, bs[j]) : j \in Instrument}}

\* The books, but for that of i.
Others(data, R, i) == UNION {Recs(data, R[j]) : j \in Instrument \ {i}}

\* Every book is whole.
AllWhole(p, bs, F, R) == \A j \in Instrument : Whole(p, bs[j], j, F, R[j])

\* The slots of M hold the same.
Same(data, new, M) == \A z \in M : new[z] = data[z]

\* The slots of the books in J hold the same, and none of them is in G.
Spared(p, q, J, R, G) == \A j \in J : \A z \in R[j] : q.data[z] = p.data[z] /\ z \notin G

\* The lists of a well-kept book hold its orders.
LEMMA WalkWhole ==
  ASSUME NEW p, NEW book, NEW i, NEW F, NEW R, Whole(p, book, i, F, R)
  PROVE  Walk(p.data, book) = R
<1>1. Records(p.data) /\ LevelsOK(p.data, book.levels, R)
  BY DEF Whole, PoolOK, BookOK, Records
<1> QED BY ONLY <1>1, WalkFinds

\* What the books show is what the one of i holds, and what the others hold.
LEMMA BooksShow ==
  ASSUME NEW p, NEW bs, NEW F, NEW R, AllWhole(p, bs, F, R), NEW i \in Instrument
  PROVE  AllShown(p.data, bs) = Recs(p.data, R[i]) \cup Others(p.data, R, i)
<1>1. PICK data : data = p.data
  OBVIOUS
<1>2. ASSUME NEW j \in Instrument PROVE Walk(data, bs[j]) = R[j]
  BY <1>1, WalkWhole DEF AllWhole
<1>3. ASSUME NEW r \in AllShown(data, bs) PROVE r \in Recs(data, R[i]) \cup Others(data, R, i)
  <2>1. PICK j \in Instrument : \E s \in R[j] : r = Rec(data, s)
    BY <1>2 DEF AllShown
  <2>2. r \in Recs(data, R[j])
    BY <2>1 DEF Recs
  <2> QED BY <2>2 DEF Others
<1>4. ASSUME NEW r \in Recs(data, R[i]) \cup Others(data, R, i) PROVE r \in AllShown(data, bs)
  <2>1. PICK j \in Instrument : r \in Recs(data, R[j])
    BY DEF Others
  <2>2. PICK s \in R[j] : r = Rec(data, s)
    BY <2>1 DEF Recs
  <2>3. s \in Walk(data, bs[j])
    BY <1>2
  <2> QED BY <2>2, <2>3 DEF AllShown
<1> QED BY <1>1, <1>3, <1>4

\* The books show the same while their slots hold the same and none of them is free.
LEMMA SameShown ==
  ASSUME NEW p, NEW q, NEW bs, NEW F, NEW G, NEW R,
         AllWhole(p, bs, F, R), PoolOK(q, G),
         Spared(p, q, Instrument, R, G)
  PROVE  AllShown(q.data, bs) = AllShown(p.data, bs)
<1>1. PICK data, new : data = p.data /\ new = q.data
  OBVIOUS
<1>2. ASSUME NEW j \in Instrument
      PROVE  /\ Walk(data, bs[j]) = R[j] /\ Walk(new, bs[j]) = R[j]
             /\ \A z \in R[j] : Rec(new, z) = Rec(data, z)
  <2>1. PICK book, S : book = bs[j] /\ S = R[j]
    OBVIOUS
  <2>2. Whole(p, book, j, F, S) /\ PoolOK(q, G) /\ (\A z \in S : q.data[z] = p.data[z]) /\ G \cap S = {}
    BY <2>1 DEF AllWhole, Spared
  <2>3. Whole(q, book, j, G, S)
    BY ONLY <2>2, WholeFrame
  <2>4. Walk(p.data, book) = S /\ Walk(q.data, book) = S
    BY ONLY <2>2, <2>3, WalkWhole
  <2> QED BY <1>1, <2>1, <2>2, <2>4 DEF Rec
<1>3. AllShown(new, bs) = AllShown(data, bs)
  BY ONLY <1>2 DEF AllShown
<1> QED BY <1>1, <1>3

\* The book of i has become b, with the slots of T, and the others have stayed as they were.
OneChanges(p, q, bs, F, R, i, b, new, E, T, G) ==
  /\ AllWhole(p, bs, F, R) /\ i \in Instrument /\ Updated(bs, i, b, new) /\ DOMAIN bs = Instrument
  /\ Whole(q, b, i, E, T) /\ PoolOK(q, G) /\ Spared(p, q, Instrument \ {i}, R, G)

\* Only what the book of i shows changes.
LEMMA OneBookShown ==
  ASSUME NEW p, NEW q, NEW bs, NEW F, NEW R, NEW i, NEW b, NEW new, NEW E, NEW T, NEW G,
         OneChanges(p, q, bs, F, R, i, b, new, E, T, G)
  PROVE  AllShown(q.data, new) = Recs(q.data, T) \cup Others(p.data, R, i)
<1>1. /\ AllWhole(p, bs, F, R) /\ i \in Instrument /\ Updated(bs, i, b, new) /\ DOMAIN bs = Instrument
      /\ Whole(q, b, i, E, T) /\ PoolOK(q, G) /\ Spared(p, q, Instrument \ {i}, R, G)
  BY DEF OneChanges
<1>2. PICK data, after : data = p.data /\ after = q.data
  OBVIOUS
<1>3. new[i] = b /\ \A j \in Instrument \ {i} : new[j] = bs[j]
  BY <1>1 DEF Updated
<1>4. Walk(after, b) = T
  BY <1>1, <1>2, WalkWhole
<1>5. ASSUME NEW j \in Instrument \ {i}
      PROVE  Walk(after, bs[j]) = R[j] /\ \A z \in R[j] : Rec(after, z) = Rec(data, z)
  <2>1. PICK book, S : book = bs[j] /\ S = R[j]
    OBVIOUS
  <2>2. Whole(p, book, j, F, S) /\ PoolOK(q, G) /\ (\A z \in S : q.data[z] = p.data[z]) /\ G \cap S = {}
    BY <1>1, <2>1 DEF AllWhole, Spared
  <2>3. Whole(q, book, j, G, S)
    BY ONLY <2>2, WholeFrame
  <2>4. Walk(q.data, book) = S
    BY ONLY <2>3, WalkWhole
  <2> QED BY <1>2, <2>1, <2>2, <2>4 DEF Rec
<1>6. ASSUME NEW r \in AllShown(after, new) PROVE r \in Recs(after, T) \cup Others(data, R, i)
  <2>1. PICK j \in Instrument : \E s \in Walk(after, new[j]) : r = Rec(after, s)
    BY DEF AllShown
  <2>2. PICK s \in Walk(after, new[j]) : r = Rec(after, s)
    BY <2>1
  <2>3. CASE j = i
    BY <1>3, <1>4, <2>2, <2>3 DEF Recs
  <2>4. CASE j # i
    <3>1. s \in R[j] /\ r = Rec(data, s)
      BY <1>3, <1>5, <2>2, <2>4
    <3>2. r \in Recs(data, R[j])
      BY <3>1 DEF Recs
    <3> QED BY <2>4, <3>2 DEF Others
  <2> QED BY <2>3, <2>4
<1>7. ASSUME NEW r \in Recs(after, T) PROVE r \in AllShown(after, new)
  <2>1. PICK s \in T : r = Rec(after, s)
    BY DEF Recs
  <2>2. s \in Walk(after, new[i])
    BY <1>3, <1>4
  <2> QED BY <1>1, <2>1, <2>2 DEF AllShown
<1>8. ASSUME NEW r \in Others(data, R, i) PROVE r \in AllShown(after, new)
  <2>1. PICK j \in Instrument \ {i} : r \in Recs(data, R[j])
    BY DEF Others
  <2>2. PICK s \in R[j] : r = Rec(data, s)
    BY <2>1 DEF Recs
  <2>3. s \in Walk(after, new[j]) /\ r = Rec(after, s)
    BY <1>3, <1>5, <2>2
  <2> QED BY <2>3 DEF AllShown
<1> QED BY <1>2, <1>6, <1>7, <1>8

\* The commands in the slots of a line.
Coms(data, line) == [k \in DOMAIN line |-> Com(data, line[k])]

\* Their shape.
LEMMA ComsShape ==
  ASSUME NEW S, NEW line \in Seq(S), NEW data
  PROVE  /\ \E C : Coms(data, line) \in Seq(C)
         /\ Len(Coms(data, line)) = Len(line) /\ Len(line) \in Nat /\ DOMAIN line = 1..Len(line)
<1>1. PICK l : l = Len(line) /\ l \in Nat /\ DOMAIN line = 1..l
  OBVIOUS
<1>2. PICK f, C : f = Coms(data, line) /\ C = {Com(data, s) : s \in S}
  OBVIOUS
<1>3. f = [k \in 1..l |-> Com(data, line[k])] /\ \A k \in 1..l : Com(data, line[k]) \in C
  BY <1>1, <1>2 DEF Coms
<1>4. f \in Seq(C) /\ Len(f) = l
  BY <1>1, <1>3
<1> QED BY <1>1, <1>2, <1>4

\* Without one of them the others stay.
LEMMA ComsWithout ==
  ASSUME NEW data, NEW new, NEW line \in Seq(Slot), Distinct(line), NEW n \in DOMAIN line,
         Same(data, new, Members(line) \ {line[n]}), NEW rest, rest = Without(line, n)
  PROVE  Coms(new, rest) = Without(Coms(data, line), n)
<1>1. PICK l : l = Len(line) /\ l \in Nat /\ DOMAIN line = 1..l
  OBVIOUS
<1>2. PICK f : f = Coms(data, line) /\ Len(f) = l
  BY <1>1, ComsShape
<1>3. DOMAIN rest = 1..(l - 1) /\ \A k \in 1..(l - 1) : rest[k] = IF k < n THEN line[k] ELSE line[k + 1]
  BY <1>1 DEF Without
<1>4. ASSUME NEW k \in 1..(l - 1) PROVE Com(new, rest[k]) = IF k < n THEN f[k] ELSE f[k + 1]
  <2>1. PICK m \in 1..l : m # n /\ m = IF k < n THEN k ELSE k + 1
    BY <1>1
  <2>2. rest[k] = line[m]
    BY <1>3, <2>1
  <2>3. line[m] \in Members(line) \ {line[n]}
    BY <1>1, <2>1 DEF Distinct, Members
  <2>4. Com(new, rest[k]) = Com(data, line[m])
    BY <2>2, <2>3 DEF Com, Same
  <2>5. f[m] = Com(data, line[m])
    BY <1>1, <1>2 DEF Coms
  <2> QED BY <2>1, <2>4, <2>5
<1>5. Coms(new, rest) = [k \in 1..(l - 1) |-> IF k < n THEN f[k] ELSE f[k + 1]]
  BY <1>3, <1>4 DEF Coms
<1> QED BY <1>2, <1>5 DEF Without

\* Without, as PriceTimeBook says it.
LEMMA WithoutIs ==
  ASSUME NEW S, NEW f \in Seq(S), NEW n \in DOMAIN f
  PROVE  /\ Without(f, n) = Promise!RemoveAt(f, n)
         /\ n = 1 => Without(f, n) = Tail(f)
<1>1. PICK l, g : l = Len(f) /\ l \in Nat /\ n \in 1..l /\ g = Without(f, n) /\ DOMAIN f = 1..l
  OBVIOUS
<1>2. g = [k \in 1..(l - 1) |-> IF k < n THEN f[k] ELSE f[k + 1]]
  BY <1>1 DEF Without
<1>3. PICK a, b : a = SubSeq(f, 1, n - 1) /\ b = SubSeq(f, n + 1, l)
  OBVIOUS
<1>4. /\ a \in Seq(S) /\ Len(a) = n - 1 /\ \A k \in 1..(n - 1) : a[k] = f[k]
      /\ b \in Seq(S) /\ Len(b) = l - n /\ \A k \in 1..(l - n) : b[k] = f[k + n]
  <2>1. a \in Seq(S) /\ Len(a) = n - 1
    BY <1>1, <1>3
  <2>2. \A k \in 1..(n - 1) : a[k] = f[k]
    BY <1>1, <1>3
  <2>3. b \in Seq(S) /\ Len(b) = l - n
    BY <1>1, <1>3
  <2>4. \A k \in 1..(l - n) : b[k] = f[k + n]
    BY <1>1, <1>3
  <2> QED BY <2>1, <2>2, <2>3, <2>4
<1>5. PICK s : s = a \o b
  OBVIOUS
<1>6. /\ s \in Seq(S) /\ Len(s) = l - 1 /\ DOMAIN s = 1..(l - 1)
      /\ \A k \in 1..(l - 1) : s[k] = IF k <= n - 1 THEN a[k] ELSE b[k - (n - 1)]
  BY <1>1, <1>4, <1>5
<1>7. ASSUME NEW k \in 1..(l - 1) PROVE s[k] = g[k]
  <2>1. CASE k < n
    BY <1>1, <1>2, <1>4, <1>6, <2>1, SMTT(20)
  <2>2. CASE ~(k < n)
    <3>1. k - (n - 1) \in 1..(l - n) /\ (k - (n - 1)) + n = k + 1
      BY <1>1, <2>2
    <3>2. s[k] = b[k - (n - 1)]
      BY <1>1, <1>6, <2>2
    <3> QED BY <1>1, <1>2, <1>4, <2>2, <3>1, <3>2
  <2> QED BY <2>1, <2>2
<1>8. s = g
  <2>1. s = [k \in 1..(l - 1) |-> s[k]]
    BY <1>6
  <2> QED BY <1>2, <1>7, <2>1
<1>9. Promise!RemoveAt(f, n) = s
  BY <1>1, <1>3, <1>5 DEF Promise!RemoveAt
<1>10. n = 1 => g = Tail(f)
  <2> SUFFICES ASSUME n = 1 PROVE g = Tail(f)
    OBVIOUS
  <2>1. f # <<>>
    BY <1>1
  <2>2. /\ Tail(f) \in Seq(S) /\ Len(Tail(f)) = l - 1
        /\ \A k \in 1..(l - 1) : Tail(f)[k] = f[k + 1]
    BY ONLY <1>1, <2>1, f \in Seq(S), TailShape
  <2>3. PICK t, m : t = Tail(f) /\ m = l - 1
    OBVIOUS
  <2>4. t \in Seq(S) /\ Len(t) = m /\ m \in Nat /\ \A k \in 1..m : t[k] = f[k + 1]
    BY <1>1, <2>2, <2>3
  <2>5. t = [k \in 1..m |-> f[k + 1]]
    BY ONLY <2>4
  <2>6. g = [k \in 1..m |-> f[k + 1]]
    BY <1>1, <1>2, <2>3
  <2> QED BY <2>3, <2>5, <2>6
<1> QED BY <1>1, <1>8, <1>9, <1>10

\* f is g with c as its last.
Extended(f, g, c) == f # <<>> /\ Promise!Front(f) = g /\ Promise!Last(f) = c

\* One more of them, as PriceTimeBook says it.
LEMMA ComsAppend ==
  ASSUME NEW data, NEW new, NEW line \in Seq(Slot), NEW x \in Slot, NEW longer, longer = Append(line, x),
         Same(data, new, Members(line)), NEW f, f = Coms(new, longer)
  PROVE  Extended(f, Coms(data, line), Com(new, x))
<1>1. PICK l : l = Len(line) /\ l \in Nat /\ DOMAIN line = 1..l
  OBVIOUS
<1>2. /\ longer \in Seq(Slot) /\ Len(longer) = l + 1 /\ DOMAIN longer = 1..(l + 1)
      /\ \A k \in 1..(l + 1) : longer[k] = IF k = l + 1 THEN x ELSE line[k]
  BY <1>1
<1>3. PICK C : f \in Seq(C) /\ Len(f) = l + 1
  BY <1>2, ComsShape
<1>4. \A k \in 1..(l + 1) : f[k] = Com(new, longer[k])
  BY <1>2 DEF Coms
<1>5. f # <<>> /\ f[l + 1] = Com(new, x)
  BY <1>1, <1>2, <1>3, <1>4
<1>6. PICK g : g = SubSeq(f, 1, l)
  OBVIOUS
<1>7. g \in Seq(C) /\ Len(g) = l /\ \A k \in 1..l : g[k] = f[k]
  BY <1>1, <1>3, <1>6
<1>8. ASSUME NEW k \in 1..l PROVE g[k] = Com(data, line[k])
  <2>1. longer[k] = line[k] /\ line[k] \in Members(line)
    BY <1>1, <1>2 DEF Members
  <2>2. Com(new, line[k]) = Com(data, line[k])
    BY <2>1 DEF Com, Same
  <2> QED BY <1>1, <1>4, <1>7, <2>1, <2>2
<1>9. g = Coms(data, line)
  <2>1. g = [k \in 1..l |-> g[k]]
    BY <1>7
  <2> QED BY <1>1, <1>8, <2>1 DEF Coms
<1>10. Promise!Front(f) = g
  <2>1. Len(f) - 1 = l
    BY <1>1, <1>3
  <2> QED BY <1>6, <2>1 DEF Promise!Front
<1>11. Promise!Last(f) = f[l + 1]
  BY <1>3 DEF Promise!Last
<1> QED BY <1>5, <1>9, <1>10, <1>11 DEF Extended

-----------------------------------------------------------------------------
(***************************************************************************)
(* The refinement.                                                         *)
(***************************************************************************)
\* What PriceTimeBook sees of the engine.
Flying == Coms(pool.data, InFlight)
Shelved == AllShown(pool.data, books)

\* It is what the instance says.
LEMMA InstanceSees ==
  /\ [k \in DOMAIN InFlight |-> CommandIn(InFlight[k])] = Flying
  /\ {OrderIn(s) : s \in Resting} = Shelved
<1>1. [k \in DOMAIN InFlight |-> CommandIn(InFlight[k])] = Flying
  BY DEF Flying, Coms, Com, CommandIn
<1>2. \A i : RestingIn(i) = Walk(pool.data, books[i])
  BY DEF RestingIn, AtLevel, LevelQueue, Walk, Members
<1>3. {OrderIn(s) : s \in Resting} = Shelved
  BY <1>2 DEF Shelved, AllShown, Resting, OrderIn, Rec
<1> QED BY <1>1, <1>3

\* It is what the instance says after a step, too.
LEMMA InstanceSeesNext ==
  /\ [k \in DOMAIN InFlight |-> CommandIn(InFlight[k])]' = Flying'
  /\ {OrderIn(s) : s \in Resting}' = Shelved'
<1>1. [k \in DOMAIN InFlight |-> CommandIn(InFlight[k])]' = Flying'
  BY DEF Flying, Coms, Com, CommandIn
<1>2. \A i : RestingIn(i)' = Walk(pool.data, books[i])'
  BY DEF RestingIn, AtLevel, LevelQueue, Walk, Members
<1>3. {OrderIn(s) : s \in Resting}' = Shelved'
  BY <1>2 DEF Shelved, AllShown, Resting, OrderIn, Rec
<1> QED BY <1>1, <1>3

\* A command c joins the line.
Joins(c) ==
  /\ Flying' # <<>> /\ Promise!Front(Flying') = Flying /\ Promise!Last(Flying') = c
  /\ c.sequence = nextSequence /\ nextSequence' = nextSequence + 1 /\ nextSequence \in Nat
  /\ Shelved' = Shelved /\ UNCHANGED events

\* That is an admission.
LEMMA JoiningAdmits ==
  ASSUME NEW c, Joins(c)
  PROVE  Promise!Admit
<1>1. c.sequence = (nextSequence - 1) + 1 /\ nextSequence' - 1 = c.sequence
  BY DEF Joins
<1> QED BY <1>1, InstanceSees, InstanceSeesNext DEF Joins, Promise!Admit

\* The n-th command leaves the line unexecuted.
Leaves(n) ==
  /\ n \in DOMAIN Flying /\ Flying' = Promise!RemoveAt(Flying, n)
  /\ UNCHANGED nextSequence /\ Shelved' = Shelved /\ UNCHANGED events

\* That is to turn it away.
LEMMA LeavingTurnsAway ==
  ASSUME NEW n, Leaves(n)
  PROVE  Promise!TurnAway
BY InstanceSees, InstanceSeesNext DEF Leaves, Promise!TurnAway

\* The first command c leaves the line executed.
Done(c) ==
  /\ Flying # <<>> /\ Flying' = Tail(Flying) /\ Head(Flying) = c /\ UNCHANGED nextSequence
  /\ Obeyed(c, Shelved, Shelved', TradesIn(events'))

\* That is its execution.
LEMMA DoneExecutes ==
  ASSUME NEW c, Done(c)
  PROVE  Promise!Execute
BY InstanceSees, InstanceSeesNext DEF Done, Promise!Execute, Obeyed, NamedBy, Promise!Named, Promise!Arrive

\* Of no command on its way anything has been traded.
AllUnfilled(data, line) == \A x \in Members(line) : Unfilled(data, x)

\* Commands that stay in the line, in slots that stay as they are, stay so.
LEMMA StillUnfilled ==
  ASSUME NEW data, NEW new, NEW line \in Seq(Slot), Distinct(line), AllUnfilled(data, line),
         NEW n \in DOMAIN line, Same(data, new, Members(line) \ {line[n]}),
         NEW rest, rest = Without(line, n)
  PROVE  AllUnfilled(new, rest)
<1>1. Members(rest) \subseteq Members(line) \ {line[n]}
  <2>1. PICK l : l = Len(line) /\ l \in Nat /\ DOMAIN line = 1..l
    OBVIOUS
  <2>2. DOMAIN rest = 1..(l - 1) /\ \A k \in 1..(l - 1) : rest[k] = IF k < n THEN line[k] ELSE line[k + 1]
    BY <2>1 DEF Without
  <2>3. ASSUME NEW k \in 1..(l - 1) PROVE \E m \in 1..l : m # n /\ rest[k] = line[m]
    <3>1. PICK m \in 1..l : m # n /\ m = IF k < n THEN k ELSE k + 1
      BY <2>1
    <3> QED BY <2>2, <3>1
  <2>4. ASSUME NEW x \in Members(rest) PROVE x \in Members(line) \ {line[n]}
    <3>1. PICK k \in 1..(l - 1) : x = rest[k]
      BY <2>2 DEF Members
    <3>2. PICK m \in 1..l : m # n /\ x = line[m]
      BY <2>3, <3>1
    <3> QED BY <2>1, <3>2 DEF Members, Distinct
  <2> QED BY <2>4
<1>2. ASSUME NEW x \in Members(rest) PROVE Unfilled(new, x)
  <2>1. x \in Members(line) /\ new[x] = data[x]
    BY <1>1 DEF Same
  <2> QED BY <2>1 DEF AllUnfilled, Unfilled
<1> QED BY <1>2 DEF AllUnfilled

\* What PriceTimeBook sees of a command that is admitted with the number n and the order id id.
AsAdmitted(command, n, id) ==
  [kind |-> command.kind, instrument |-> command.instrument, key |-> KeyOf(command),
   target |-> <<command.account, command.target>>, side |-> command.side, price |-> command.price,
   quantity |-> command.quantity, id |-> IF command.kind = "Cancel" THEN 0 ELSE id, sequence |-> n]

\* accept_command: the command joins the line.
LEMMA AcceptJoins ==
  ASSUME EngineInv, AllUnfilled(pool.data, InFlight), NEW command \in Command, Admit(command)
  PROVE  Joins(AsAdmitted(command, nextSequence, nextExchangeOrderId)) /\ AllUnfilled(pool.data, InFlight)'
<1>1. PICK F, R : EngineOK(pool, books, nextSequence, InFlight, F, R)
  BY DEF EngineInv
<1>2. PICK id : id = IF command.kind = "Cancel" THEN 0 ELSE nextExchangeOrderId
  OBVIOUS
<1>3. PICK order : order = [command EXCEPT !.exchangeOrderId = id, !.sequence = nextSequence, !.remaining = command.quantity]
  OBVIOUS
<1>4. id \in Nat /\ nextSequence \in Nat
  BY <1>1, <1>2 DEF EngineInv, EngineOK
<1>5. Numbered(command, id, nextSequence, order)
  BY ONLY <1>3, <1>4, command \in Command, CommandIsOrder
<1>18. order \in OrderRecord /\ order.sequence = nextSequence /\ order.remaining = order.quantity
  BY <1>5 DEF Numbered
<1>6. /\ CanAllocate(pool) /\ pool' = Allocate(pool, order) /\ pending' = Append(pending, pool.freeHead)
      /\ nextSequence' = nextSequence + 1 /\ UNCHANGED <<books, queue, events>>
  BY <1>2, <1>3 DEF Admit, CanAdmit, PoolWith
<1>7. PICK line, x, q, longer : line = InFlight /\ x = pool.freeHead /\ q = Allocate(pool, order) /\ longer = Append(line, x)
  OBVIOUS
<1>8. /\ PoolOK(pool, F) /\ AllWhole(pool, books, F, R)
      /\ line \in Seq(Slot) /\ Distinct(line) /\ Members(line) \cap F = {}
  BY <1>1, <1>7 DEF EngineOK, LineOK, Parts, AllWhole
<1>9. x \in F /\ x \in Slot /\ PoolOK(q, F \ {x}) /\ q.data = [pool.data EXCEPT ![x] = order]
  BY <1>6, <1>7, <1>8, <1>18, AllocateTakes
<1>10. (\A z : z # x => q.data[z] = pool.data[z]) /\ q.data[x] = order
  <2>1. pool.data \in [Slot -> OrderRecord]
    BY <1>8 DEF PoolOK
  <2> QED BY <1>9, <2>1
<1>11. InFlight' = longer
  <2>1. queue \in Seq(Slot) /\ pending \in Seq(Slot)
    BY DEF EngineInv
  <2>2. Halves(Slot, queue, pending, queue \o pending)
    BY <2>1, LineHalves
  <2>3. queue \o Append(pending, x) = Append(queue \o pending, x)
    BY <1>9, <2>2 DEF Halves
  <2> QED BY <1>6, <1>7, <2>3 DEF InFlight
<1>12. PICK c : c = Com(q.data, x)
  OBVIOUS
<1>13. /\ Flying' # <<>> /\ Promise!Front(Flying') = Flying /\ Promise!Last(Flying') = c
  <2>1. PICK data, new, f : data = pool.data /\ new = q.data /\ f = Coms(new, longer)
    OBVIOUS
  <2>2. Same(data, new, Members(line))
    BY <1>8, <1>9, <1>10, <2>1 DEF Same
  <2>3. f # <<>> /\ Promise!Front(f) = Coms(data, line) /\ Promise!Last(f) = Com(new, x)
    <3>1. line \in Seq(Slot) /\ x \in Slot /\ longer = Append(line, x) /\ Same(data, new, Members(line)) /\ f = Coms(new, longer)
      BY <1>7, <1>8, <1>9, <2>1, <2>2
    <3>2. Extended(f, Coms(data, line), Com(new, x))
      BY ONLY <3>1, ComsAppend
    <3> QED BY <3>2 DEF Extended
  <2>4. Flying' = f /\ Flying = Coms(data, line)
    BY <1>6, <1>7, <1>11, <2>1 DEF Flying
  <2> QED BY <1>12, <2>1, <2>3, <2>4
<1>14. Shelved' = Shelved
  <2>1. Spared(pool, q, Instrument, R, F \ {x})
    BY <1>8, <1>9, <1>10 DEF AllWhole, Whole, Spared
  <2>2. AllShown(q.data, books) = AllShown(pool.data, books)
    BY ONLY <1>8, <1>9, <2>1, SameShown
  <2> QED BY <1>6, <1>7, <2>2 DEF Shelved
<1>15. Joins(c)
  <2>1. c.sequence = nextSequence
    BY <1>10, <1>12, <1>18 DEF Com
  <2> QED BY <1>4, <1>6, <1>13, <1>14, <2>1 DEF Joins
<1>19. c = AsAdmitted(command, nextSequence, nextExchangeOrderId)
  <2>1. KeyOf(order) = KeyOf(command)
    BY <1>5 DEF Numbered, KeyOf
  <2> QED BY <1>2, <1>5, <1>10, <1>12, <2>1 DEF Com, AsAdmitted, Numbered
<1>16. AllUnfilled(q.data, longer)
  <2>1. Members(longer) \subseteq Members(line) \cup {x}
    BY <1>7, <1>8, <1>9 DEF Members
  <2>2. ASSUME NEW y \in Members(line) PROVE Unfilled(q.data, y)
    <3>1. Unfilled(pool.data, y) /\ q.data[y] = pool.data[y]
      BY <1>7, <1>8, <1>9, <1>10 DEF AllUnfilled
    <3> QED BY <3>1 DEF Unfilled
  <2>3. Unfilled(q.data, x)
    BY <1>10, <1>18 DEF Unfilled
  <2> QED BY <2>1, <2>2, <2>3 DEF AllUnfilled
<1>17. AllUnfilled(pool.data, InFlight)'
  BY <1>6, <1>7, <1>11, <1>16
<1> QED BY <1>15, <1>17, <1>19

\* enqueue_order: the command stays in the line, or leaves it when the queue is full.
LEMMA EnqueueLeaves ==
  ASSUME EngineInv, AllUnfilled(pool.data, InFlight), EnqueueOrder
  PROVE  /\ \/ \E n : Leaves(n)
            \/ Flying' = Flying /\ Shelved' = Shelved /\ UNCHANGED <<nextSequence, events>>
         /\ AllUnfilled(pool.data, InFlight)'
<1>1. PICK F, R : EngineOK(pool, books, nextSequence, InFlight, F, R)
  BY DEF EngineInv
<1>2. queue \in Seq(Slot) /\ pending \in Seq(Slot) /\ pending # <<>>
  BY DEF EngineInv, EnqueueOrder
<1>3. /\ pending' = Tail(pending) /\ UNCHANGED <<books, nextSequence, events>>
      /\ \/ queue' = Append(queue, Head(pending)) /\ UNCHANGED pool
         \/ pool' = Deallocate(pool, Head(pending)) /\ UNCHANGED queue
  BY DEF EnqueueOrder
<1>4. PICK line, n, idx : line = InFlight /\ n = Len(queue) + 1 /\ idx = Head(pending)
  OBVIOUS
<1>5. /\ Append(queue, idx) \o Tail(pending) = line
      /\ n \in DOMAIN line /\ line[n] = idx
      /\ queue \o Tail(pending) = Without(line, n)
      /\ idx \in Slot
  <2>1. Halves(Slot, queue, pending, line)
    BY <1>2, <1>4, LineHalves DEF InFlight
  <2> QED BY <1>2, <1>4, <2>1 DEF Halves
<1>6. CASE queue' = Append(queue, idx) /\ UNCHANGED pool
  <2>1. InFlight' = line
    BY <1>3, <1>5, <1>6 DEF InFlight
  <2>2. Flying' = Flying /\ Shelved' = Shelved
    BY <1>3, <1>4, <1>6, <2>1 DEF Flying, Shelved
  <2>3. AllUnfilled(pool.data, InFlight)'
    BY <1>4, <1>6, <2>1
  <2> QED BY <1>3, <2>2, <2>3
<1>7. CASE pool' = Deallocate(pool, idx) /\ UNCHANGED queue
  <2>1. PICK rest, q, G : rest = Without(line, n) /\ q = Deallocate(pool, idx) /\ G = F \cup {idx}
    OBVIOUS
  <2>2. InFlight' = rest
    BY <1>3, <1>5, <1>7, <2>1 DEF InFlight
  <2>3. /\ PoolOK(pool, F) /\ AllWhole(pool, books, F, R)
        /\ line \in Seq(Slot) /\ Distinct(line) /\ Members(line) \cap F = {}
        /\ \A j \in Instrument : Members(line) \cap R[j] = {}
    BY <1>1, <1>4 DEF EngineOK, LineOK, Parts, AllWhole
  <2>4. idx \in Members(line) /\ idx \notin F
    BY <1>5, <2>3 DEF Members
  <2>5. PoolOK(q, G) /\ \A z \in Slot \ {idx} : q.data[z] = pool.data[z]
    BY ONLY <1>5, <2>1, <2>3, <2>4, DeallocateGives
  <2>6. Same(pool.data, q.data, Members(line) \ {line[n]})
    <3>1. Members(line) \subseteq Slot
      BY <2>3 DEF Members
    <3> QED BY <1>5, <2>5, <3>1 DEF Same
  <2>7. Spared(pool, q, Instrument, R, G)
    <3>1. \A j \in Instrument : R[j] \subseteq Slot /\ R[j] \cap F = {}
      BY <2>3 DEF AllWhole, Whole, BookOK, LevelsOK
    <3> QED BY <2>1, <2>3, <2>4, <2>5, <3>1 DEF Spared
  <2>8. Shelved' = Shelved
    <3>1. AllShown(q.data, books) = AllShown(pool.data, books)
      BY ONLY <2>3, <2>5, <2>7, SameShown
    <3> QED BY <1>3, <1>7, <2>1, <3>1 DEF Shelved
  <2>9. PICK data, new, f : data = pool.data /\ new = q.data /\ f = Coms(data, line)
    OBVIOUS
  <2>10. Coms(new, rest) = Without(f, n)
    <3>1. /\ line \in Seq(Slot) /\ Distinct(line) /\ n \in DOMAIN line
          /\ Same(data, new, Members(line) \ {line[n]}) /\ rest = Without(line, n)
      BY <1>5, <2>1, <2>3, <2>6, <2>9
    <3>2. Coms(new, rest) = Without(Coms(data, line), n)
      BY ONLY <3>1, ComsWithout
    <3> QED BY <2>9, <3>2
  <2>11. n \in DOMAIN f /\ Without(f, n) = Promise!RemoveAt(f, n)
    <3>1. PICK C : f \in Seq(C)
      BY <2>3, <2>9, ComsShape
    <3>2. n \in DOMAIN f
      BY <1>5, <2>9 DEF Coms
    <3> QED BY <3>1, <3>2, WithoutIs
  <2>12. Flying = f /\ Flying' = Coms(new, rest)
    BY <1>4, <1>7, <2>1, <2>2, <2>9 DEF Flying
  <2>13. Leaves(n)
    BY <1>3, <2>8, <2>10, <2>11, <2>12 DEF Leaves
  <2>14. AllUnfilled(new, rest)
    BY ONLY <1>4, <1>5, <2>1, <2>3, <2>6, <2>9, AllUnfilled(pool.data, InFlight), StillUnfilled
  <2>15. AllUnfilled(pool.data, InFlight)'
    BY <1>7, <2>1, <2>2, <2>9, <2>14
  <2> QED BY <2>13, <2>15
<1> QED BY <1>3, <1>4, <1>6, <1>7

\* Another book b of i and another pool, with the slots of E free, and T in that book.
Became(p, bs, i, F, R, O, idx, new, q, ts, b, G, E, T) ==
  /\ Updated(bs, i, b, new) /\ PoolOK(q, G) /\ G \subseteq F \cup R[i] \cup {idx}
  /\ \A z \in Slot \ (R[i] \cup {idx}) : q.data[z] = p.data[z]
  /\ Whole(q, b, i, E, T)
  /\ Obeyed(Com(p.data, idx), Recs(p.data, R[i]) \cup O, Recs(q.data, T) \cup O, ts)

\* What Outcome and Obeys say of the same step of the pool and the books.
LEMMA SameStep ==
  ASSUME NEW p, NEW bs, NEW i, NEW F, NEW R, NEW O, NEW idx, NEW new, NEW q,
         Outcome(p, bs, i, F, R, idx, new, q), NEW ts, Obeys(p, bs, i, R[i], O, idx, new, q, ts),
         DOMAIN bs = Instrument, i \in Instrument
  PROVE  \E b, G, E, T : Became(p, bs, i, F, R, O, idx, new, q, ts, b, G, E, T)
<1>1. PICK a, G, U : Absorbed(p, i, F, R[i], idx, a, G, U) /\ Updated(bs, i, a.book, new) /\ q = a.pool
  BY DEF Outcome
<1>2. PICK after, S : /\ Updated(bs, i, after.book, new) /\ q = after.pool /\ Holds(after, i, S)
                      /\ Obeyed(Com(p.data, idx), Recs(p.data, R[i]) \cup O, S \cup O, ts)
  BY DEF Obeys
<1>3. PICK E, T : Whole(after.pool, after.book, i, E, T) /\ Recs(after.pool.data, T) = S
  BY <1>2 DEF Holds
<1>4. PoolOK(q, G) /\ G \subseteq F \cup R[i] \cup {idx} /\ \A z \in Slot \ (R[i] \cup {idx}) : q.data[z] = p.data[z]
  BY <1>1 DEF Absorbed, Whole
<1>5. PICK b : b = after.book
  OBVIOUS
<1>6. Updated(bs, i, b, new) /\ Whole(q, b, i, E, T) /\ Recs(q.data, T) = S
  BY <1>2, <1>3, <1>5
<1> QED BY <1>2, <1>4, <1>6 DEF Became

\* process_order: the first command is executed.
LEMMA ProcessDone ==
  ASSUME ~KeyReuse, EngineInv, AllUnfilled(pool.data, InFlight), FirstProcessed
  PROVE  (\E c : Done(c)) /\ AllUnfilled(pool.data, InFlight)'
<1>1. PICK F, R : EngineOK(pool, books, nextSequence, InFlight, F, R)
  BY DEF EngineInv
<1>2. PICK line, n, rest : line = InFlight /\ n = 1 /\ rest = Without(line, n)
  OBVIOUS
<1>3. PICK idx, i : idx = line[1] /\ i = pool.data[idx].instrument
  OBVIOUS
<1>4. line # <<>> /\ Process(idx) /\ InFlight' = rest
  BY <1>2, <1>3 DEF FirstProcessed
<1>5. 1 \in DOMAIN line /\ line[1] = idx /\ idx \in Slot
  <2>1. line \in Seq(Slot)
    BY <1>1, <1>2 DEF EngineOK, LineOK
  <2> QED BY <1>3, <1>4, <2>1
<1>6. EngineOK(pool, books, nextSequence, line, F, R) /\ line # <<>> /\ idx = line[1] /\ Process(idx)
  BY <1>1, <1>2, <1>3, <1>4
<1>7. /\ PoolOK(pool, F) /\ AllWhole(pool, books, F, R) /\ DOMAIN books = Instrument
      /\ line \in Seq(Slot) /\ Distinct(line) /\ Members(line) \cap F = {}
      /\ \A j \in Instrument : Members(line) \cap R[j] = {}
      /\ \A x \in Members(line) : pool.data[x].instrument \in Instrument
  BY <1>6 DEF EngineOK, LineOK, Parts, AllWhole
<1>8. idx \in Members(line) /\ i \in Instrument
  BY <1>3, <1>5, <1>7 DEF Members
<1>9. \A j \in Instrument : R[j] \subseteq Slot /\ R[j] \cap F = {} /\ \A z \in R[j] : pool.data[z].instrument = j
  BY <1>7 DEF AllWhole, Whole, BookOK, LevelsOK
<1>10. PICK O : O = Others(pool.data, R, i)
  OBVIOUS
<1>11. Foreign(O, i)
  <2>1. ASSUME NEW r \in O PROVE r.instrument # i
    <3>1. PICK j \in Instrument \ {i} : r \in Recs(pool.data, R[j])
      BY <1>10 DEF Others
    <3>2. PICK s \in R[j] : r = Rec(pool.data, s)
      BY <3>1 DEF Recs
    <3> QED BY <1>9, <3>2, RecFields
  <2> QED BY <2>1 DEF Foreign
<1>12. Unfilled(pool.data, idx)
  BY <1>2, <1>8 DEF AllUnfilled
<1>13. PICK new, q, ts : new = books' /\ q = pool' /\ ts = TradesIn(events')
  OBVIOUS
<1>14. Outcome(pool, books, i, F, R, idx, new, q)
  <2>1. Outcome(pool, books, pool.data[idx].instrument, F, R, idx, books', pool')
    BY ONLY <1>6, ProcessAbsorbs
  <2> QED BY <1>3, <1>13, <2>1
<1>15. Obeys(pool, books, i, R[i], O, idx, new, q, ts)
  <2>1. Obeys(pool, books, i, R[i], O, idx, books', pool', TradesIn(events'))
    BY ONLY <1>3, <1>6, <1>11, <1>12, ~KeyReuse, ProcessObeys
  <2> QED BY <1>13, <2>1
<1>16. PICK b, G, E, T : Became(pool, books, i, F, R, O, idx, new, q, ts, b, G, E, T)
  BY ONLY <1>7, <1>8, <1>14, <1>15, SameStep
<1>17. /\ Updated(books, i, b, new) /\ PoolOK(q, G) /\ G \subseteq F \cup R[i] \cup {idx}
       /\ \A z \in Slot \ (R[i] \cup {idx}) : q.data[z] = pool.data[z]
       /\ Whole(q, b, i, E, T)
       /\ Obeyed(Com(pool.data, idx), Recs(pool.data, R[i]) \cup O, Recs(q.data, T) \cup O, ts)
  BY <1>16 DEF Became
<1>18. Spared(pool, q, Instrument \ {i}, R, G)
  <2>1. ASSUME NEW j \in Instrument \ {i}, NEW z \in R[j] PROVE q.data[z] = pool.data[z] /\ z \notin G
    <3>1. z \in Slot /\ z \notin F /\ z \notin R[i] /\ z # idx
      BY <1>7, <1>8, <1>9
    <3> QED BY <1>17, <3>1
  <2> QED BY <2>1 DEF Spared
<1>19. Shelved = Recs(pool.data, R[i]) \cup O
  BY <1>7, <1>8, <1>10, BooksShow DEF Shelved
<1>20. Shelved' = Recs(q.data, T) \cup O
  <2>1. AllShown(q.data, new) = Recs(q.data, T) \cup Others(pool.data, R, i)
    <3>1. OneChanges(pool, q, books, F, R, i, b, new, E, T, G)
      BY <1>7, <1>8, <1>18, <1>17 DEF OneChanges
    <3> QED BY ONLY <3>1, OneBookShown
  <2> QED BY <1>10, <1>13, <2>1 DEF Shelved
<1>23. Same(pool.data, q.data, Members(line) \ {line[n]})
  <2>1. Members(line) \subseteq Slot
    BY <1>7 DEF Members
  <2> QED BY <1>2, <1>5, <1>7, <1>8, <1>17, <2>1 DEF Same
<1>24. PICK data, after, f : data = pool.data /\ after = q.data /\ f = Coms(data, line)
  OBVIOUS
<1>25. /\ line \in Seq(Slot) /\ Distinct(line) /\ n \in DOMAIN line
       /\ Same(data, after, Members(line) \ {line[n]}) /\ rest = Without(line, n) /\ AllUnfilled(data, line)
  BY <1>2, <1>5, <1>7, <1>23, <1>24
<1>26. Flying = f /\ Flying' = Coms(after, rest)
  BY <1>2, <1>4, <1>13, <1>24 DEF Flying
<1>27. f # <<>> /\ Flying' = Tail(f) /\ Head(f) = Com(pool.data, idx)
  <2>1. PICK C : f \in Seq(C)
    BY <1>7, <1>24, ComsShape
  <2>2. n \in DOMAIN f /\ f[1] = Com(pool.data, idx) /\ f # <<>>
    BY <1>2, <1>5, <1>24 DEF Coms
  <2>3. Coms(after, rest) = Without(Coms(data, line), n)
    BY ONLY <1>25, ComsWithout
  <2>4. Without(f, n) = Tail(f)
    BY ONLY <1>2, <2>1, <2>2, WithoutIs
  <2> QED BY <1>24, <1>26, <2>1, <2>2, <2>3, <2>4
<1>28. Done(Com(pool.data, idx))
  <2>1. Obeyed(Com(pool.data, idx), Shelved, Shelved', TradesIn(events'))
    BY <1>13, <1>19, <1>20, <1>17
  <2>2. UNCHANGED nextSequence
    BY <1>4 DEF Process
  <2> QED BY <1>26, <1>27, <2>1, <2>2 DEF Done
<1>29. AllUnfilled(after, rest)
  BY ONLY <1>25, StillUnfilled
<1>30. AllUnfilled(pool.data, InFlight)'
  BY <1>13, <1>4, <1>24, <1>29
<1> QED BY <1>28, <1>30

\* A command in flight has not been executed.
LineInv == AllUnfilled(pool.data, InFlight)

\* The steps of the engine are steps of PriceTimeBook.
LEMMA StepRefines ==
  ASSUME ~KeyReuse, EngineInv, LineInv, [Next]_vars
  PROVE  LineInv' /\ [Promise!ANext]_(Promise!avars)
<1>1. ASSUME Flying' = Flying, Shelved' = Shelved, UNCHANGED <<nextSequence, events>>
      PROVE  UNCHANGED Promise!avars
  <2>1. TradesIn(events)' = TradesIn(events)
    BY <1>1 DEF TradesIn
  <2> QED BY <1>1, <2>1, InstanceSees, InstanceSeesNext DEF Promise!avars
<1>2. ASSUME NEW command \in Command, Accept(command)
      PROVE  LineInv' /\ Promise!ANext
  BY <1>2, AcceptJoins, JoiningAdmits DEF Accept, LineInv, Promise!ANext
<1>3. CASE EnqueueOrder
  BY <1>1, <1>3, EnqueueLeaves, LeavingTurnsAway DEF LineInv, Promise!ANext
<1>4. CASE ProcessOrder
  BY <1>4, ReceivesFirst, ProcessDone, DoneExecutes DEF LineInv, Promise!ANext
<1>5. CASE UNCHANGED vars
  <2>1. Flying' = Flying /\ Shelved' = Shelved /\ UNCHANGED <<nextSequence, events>> /\ InFlight' = InFlight
    BY <1>5 DEF vars, Flying, Shelved, InFlight
  <2>2. LineInv'
    BY <1>5, <2>1 DEF vars, LineInv
  <2> QED BY <1>1, <2>1, <2>2
<1> QED BY <1>2, <1>3, <1>4, <1>5 DEF Next

\* The engine starts where PriceTimeBook does.
LEMMA InitRefines ==
  ASSUME Init
  PROVE  LineInv /\ Promise!AInit
<1>1. InFlight = <<>>
  BY DEF Init, InFlight
<1>2. LineInv /\ Flying = <<>>
  BY <1>1 DEF LineInv, AllUnfilled, Members, Flying, Coms
<1>3. Shelved = {}
  BY DEF Init, Shelved, AllShown, Walk, EmptyBook, Side, EmptyFunction
<1>4. nextSequence - 1 = 0 /\ TradesIn(events) = <<>>
  BY NoTrades DEF Init
<1> QED BY <1>2, <1>3, <1>4, InstanceSees DEF Promise!AInit

\* For clients that do not reuse an id in flight the engine implements PriceTimeBook:
\* every step of it is an admission, a refusal or an execution there, or changes
\* nothing that PriceTimeBook sees (process_order, match_buy, match_sell).
THEOREM KeepsPromise ==
  ASSUME ~KeyReuse
  PROVE  Spec => KeepsPriceTimePriority
<1>1. Spec => []EngineInv
  BY EngineInvariant
<1>2. Init => LineInv /\ Promise!AInit
  BY InitRefines
<1>3. EngineInv /\ LineInv /\ [Next]_vars => LineInv' /\ [Promise!ANext]_(Promise!avars)
  BY StepRefines
<1>4. Spec => Promise!ASpec
  BY <1>1, <1>2, <1>3, PTL DEF Spec, Promise!ASpec
<1> QED BY <1>4 DEF KeepsPriceTimePriority
=============================================================================
