------------------------------ MODULE FundsProofs ------------------------------
(***************************************************************************)
(* Money and securities, for all accounts, orders, prices and fees: what   *)
(* pre-trade risk reserves is what the resting orders need, the books of   *)
(* the settlement engine are explained by its entries, and neither makes   *)
(* or loses value.  The sums are those of SumLemmas.                       *)
(***************************************************************************)
EXTENDS Ledger, RiskEngine, SumLemmas

(***************************************************************************)
(* The ledger: what the legs of a trade are and what they add up to.       *)
(***************************************************************************)
\* The transfers of the trades there may be.
Moves == [trade : TradeId, debit : Account, credit : Account, asset : Asset, amount : Nat,
          kind : {"TradeCash", "TradeSecurity", "Fee"}]

\* A sum over a longer sequence of transfers.
LEMMA DeltaAppend ==
  ASSUME NEW moves \in Seq(Moves), NEW move \in Moves, NEW a, NEW s
  PROVE  /\ Delta(moves, a, s) \in Int
         /\ Effect(move, a, s) \in Int
         /\ Delta(Append(moves, move), a, s) = Delta(moves, a, s) + Effect(move, a, s)
<1>1. ASSUME NEW m \in Moves PROVE Effect(m, a, s) \in Int
  BY DEF Effect, Moves
<1>2. PICK longer : longer = Append(moves, move)
  OBVIOUS
<1>3. PICK n : n = Len(moves)
  OBVIOUS
<1>4. /\ longer \in Seq(Moves) /\ n \in Nat /\ DOMAIN moves = 1..n /\ DOMAIN longer = 1..(n + 1)
      /\ longer[n + 1] = move /\ \A i \in 1..n : longer[i] = moves[i]
  BY <1>2, <1>3
<1>5. PICK f, g : /\ f = [i \in DOMAIN moves |-> Effect(moves[i], a, s)]
                  /\ g = [i \in DOMAIN longer |-> Effect(longer[i], a, s)]
  OBVIOUS
<1>6. /\ \A i \in 1..n : f[i] \in Int /\ g[i] = f[i]
      /\ \A i \in 1..(n + 1) : g[i] \in Int
      /\ g[n + 1] = Effect(move, a, s)
  <2>1. \A i \in 1..n : moves[i] \in Moves /\ i \in 1..(n + 1)
    BY <1>4
  <2>2. \A i \in 1..(n + 1) : longer[i] \in Moves
    BY <1>4
  <2>3. n + 1 \in 1..(n + 1)
    BY <1>4
  <2> QED BY <1>1, <1>4, <1>5, <2>1, <2>2, <2>3
<1>7. IsFiniteSet(1..n) /\ IsFiniteSet(1..(n + 1)) /\ (1..(n + 1)) \ {n + 1} = 1..n /\ n + 1 \in 1..(n + 1)
  <2>1. 1 \in Int /\ n \in Int /\ n + 1 \in Int
    BY <1>4
  <2>2. IsFiniteSet(1..n) /\ IsFiniteSet(1..(n + 1))
    BY <2>1, FS_Interval
  <2> QED BY <1>4, <2>2
<1>8. Delta(moves, a, s) = SumFunctionOnSet(f, 1..n) /\ Delta(longer, a, s) = SumFunctionOnSet(g, 1..(n + 1))
  BY <1>4, <1>5 DEF Delta, SumFunction
<1>9. SumFunctionOnSet(g, 1..(n + 1)) = g[n + 1] + SumFunctionOnSet(g, 1..n)
  <2>1. PICK S, y : S = 1..(n + 1) /\ y = n + 1
    OBVIOUS
  <2>2. IsFiniteSet(S) /\ y \in S /\ S \ {y} = 1..n /\ \A x \in S : g[x] \in Int
    BY <1>6, <1>7, <2>1
  <2>3. SumFunctionOnSet(g, S) = g[y] + SumFunctionOnSet(g, S \ {y})
    BY <2>2, SumWithout
  <2> QED BY <2>1, <2>2, <2>3
<1>10. SumFunctionOnSet(g, 1..n) = SumFunctionOnSet(f, 1..n)
  BY <1>6, <1>7, SumSame
<1>11. SumFunctionOnSet(f, 1..n) \in Int
  BY <1>6, <1>7, SumType
<1> QED BY <1>1, <1>2, <1>6, <1>8, <1>9, <1>10, <1>11

\* No transfers add nothing.
LEMMA DeltaEmpty == ASSUME NEW a, NEW s PROVE Delta(<<>>, a, s) = 0
<1>1. PICK f : f = [i \in DOMAIN <<>> |-> Effect(<<>>[i], a, s)]
  OBVIOUS
<1>2. DOMAIN f = {}
  BY <1>1
<1> QED BY <1>1, <1>2, SumEmpty DEF Delta, SumFunction

\* A sum of transfers is a number.
LEMMA EntriesSum ==
  ASSUME NEW moves \in Seq(Moves), NEW a, NEW s
  PROVE  Delta(moves, a, s) \in Int
<1>1. CASE moves = <<>>
  BY <1>1, DeltaEmpty
<1>2. CASE moves # <<>>
  <2>1. moves[1] \in Moves
    BY <1>2
  <2> QED BY <2>1, DeltaAppend
<1> QED BY <1>1, <1>2

\* The legs of a trade.
LEMMA LegsAreMoves ==
  ASSUME NEW t \in Trade
  PROVE  /\ Transfers(t) \in Seq(Moves)
         /\ \A i \in DOMAIN Transfers(t) : Transfers(t)[i].trade = t.id
<1> DEFINE Own == {m \in Moves : m.trade = t.id}
           Legs == {<<>>} \cup {<<m>> : m \in Own}
<1>1. ASSUME NEW from \in Account, NEW to \in Account, NEW asset \in Asset, NEW amount \in Nat,
             NEW kind \in {"TradeCash", "TradeSecurity", "Fee"}
      PROVE  Leg(Transfer(t, from, to, asset, amount, kind)) \in Seq(Own)
  <2>1. Transfer(t, from, to, asset, amount, kind) \in Own
    BY DEF Transfer, Moves, Trade
  <2> QED BY <2>1 DEF Leg
<1>2. PICK n : n = t.price * t.quantity
  OBVIOUS
<1>3. n \in Nat /\ t.quantity \in Nat
  <2>1. t.price \in Nat /\ t.quantity \in Nat
    BY LedgerAssumption DEF Trade
  <2> QED BY <1>2, <2>1
<1>4. Fee(n, t.schedule.taker) \in Nat /\ Fee(n, t.schedule.maker) \in Nat
  <2>1. t.schedule \in [maker : Nat, taker : Nat]
    BY LedgerAssumption DEF Trade
  <2>2. \A x, y \in Nat : x * y \in Nat
    OBVIOUS
  <2>3. n * t.schedule.taker \in Nat /\ n * t.schedule.maker \in Nat
    BY <1>3, <2>1, <2>2
  <2>4. \A x \in Nat : x \div 10000 \in Nat
    OBVIOUS
  <2> QED BY <2>3, <2>4 DEF Fee
<1>5. t.buyer \in Account /\ t.seller \in Account /\ t.feeAccount \in Account
      /\ Cash \in Asset /\ Security \in Asset
  BY DEF Trade, Asset
<1>6. PICK l1, l2, l3, l4 :
        /\ l1 = Leg(Transfer(t, t.buyer, t.seller, Cash, n, "TradeCash"))
        /\ l2 = Leg(Transfer(t, t.seller, t.buyer, Security, t.quantity, "TradeSecurity"))
        /\ l3 = Leg(Transfer(t, t.buyer, t.feeAccount, Cash, Fee(n, t.schedule.taker), "Fee"))
        /\ l4 = Leg(Transfer(t, t.seller, t.feeAccount, Cash, Fee(n, t.schedule.maker), "Fee"))
  OBVIOUS
<1>7. l1 \in Seq(Own) /\ l2 \in Seq(Own) /\ l3 \in Seq(Own) /\ l4 \in Seq(Own)
  <2> HIDE DEF Own
  <2> QED BY <1>1, <1>3, <1>4, <1>5, <1>6
<1>8. Transfers(t) = l1 \o l2 \o l3 \o l4
  BY <1>2, <1>6 DEF Transfers
<1>9. Transfers(t) \in Seq(Own)
  <2> HIDE DEF Own
  <2>1. l1 \o l2 \in Seq(Own)
    BY <1>7
  <2>2. l1 \o l2 \o l3 \in Seq(Own)
    BY <1>7, <2>1
  <2>3. l1 \o l2 \o l3 \o l4 \in Seq(Own)
    BY <1>7, <2>2
  <2> QED BY <1>8, <2>3
<1>10. \A i \in DOMAIN Transfers(t) : Transfers(t)[i] \in Own
  <2> HIDE DEF Own
  <2> QED BY <1>9
<1> QED BY <1>9, <1>10

-----------------------------------------------------------------------------
(***************************************************************************)
(* The posting loop.                                                       *)
(***************************************************************************)
IsPosting(p, legs, n) ==
  p = [k \in 0..n |-> IF k = 0 THEN NothingPosted ELSE Post(p[k - 1], legs[k])]

\* The posting loop can be run for any number of turns.
LEMMA PostingExists ==
  ASSUME NEW legs, NEW n \in Nat
  PROVE  \E p : IsPosting(p, legs, n)
<1> DEFINE Some == {k \in Nat : \E p : IsPosting(p, legs, k)}
<1>1. 0 \in Some
  <2>1. PICK p : p = [k \in 0..0 |-> NothingPosted]
    OBVIOUS
  <2>2. p = [k \in 0..0 |-> IF k = 0 THEN NothingPosted ELSE Post(p[k - 1], legs[k])]
    BY <2>1
  <2> QED BY <2>2 DEF IsPosting
<1>2. ASSUME NEW m \in Nat, m \in Some PROVE m + 1 \in Some
  <2>1. PICK p : IsPosting(p, legs, m)
    BY <1>2
  <2>2. PICK q : q = [k \in 0..(m + 1) |-> IF k = 0 THEN NothingPosted ELSE Post(p[k - 1], legs[k])]
    OBVIOUS
  <2>3. ASSUME NEW k \in 0..m PROVE q[k] = p[k]
    <3>1. k \in 0..(m + 1)
      OBVIOUS
    <3> QED BY <2>1, <2>2, <3>1 DEF IsPosting
  <2>4. \A k \in 0..(m + 1) : k # 0 => k - 1 \in 0..m
    OBVIOUS
  <2>5. q = [k \in 0..(m + 1) |-> IF k = 0 THEN NothingPosted ELSE Post(q[k - 1], legs[k])]
    BY <2>2, <2>3, <2>4
  <2>6. \E r : IsPosting(r, legs, m + 1)
    BY <2>5 DEF IsPosting
  <2> QED BY <2>6
<1>3. Nat \subseteq Some
  <2> HIDE DEF Some
  <2> QED BY <1>1, <1>2, Induction
<1> QED BY <1>3

\* What post_batch leaves is what its loop has done after the last turn.
LEMMA PostAllPosts ==
  ASSUME NEW legs, Len(legs) \in Nat
  PROVE  \E p : /\ p[0] = NothingPosted
                /\ \A k \in 1..Len(legs) : p[k] = Post(p[k - 1], legs[k])
                /\ PostAll(legs) = p[Len(legs)]
<1>1. PICK n : n = Len(legs)
  OBVIOUS
<1>2. PICK p : p = CHOOSE q : IsPosting(q, legs, n)
  OBVIOUS
<1>3. IsPosting(p, legs, n)
  BY <1>1, <1>2, PostingExists
<1>4. PostAll(legs) = p[n]
  BY <1>1, <1>2 DEF PostAll, IsPosting
<1>5. /\ p[0] = NothingPosted
      /\ \A k \in 1..n : p[k] = Post(p[k - 1], legs[k])
  <2>1. 0 \in 0..n /\ \A k \in 1..n : k \in 0..n /\ k # 0
    BY <1>1
  <2> QED BY <1>3, <2>1 DEF IsPosting
<1> QED BY <1>1, <1>4, <1>5

Balances == [Account \X Asset -> Int]
PostingStates == [balances : Balances, entries : Seq(Moves), failed : BOOLEAN]

\* One turn of the posting loop either posts its transfer or fails.
LEMMA PostOne ==
  ASSUME NEW p \in PostingStates, NEW move \in Moves
  PROVE  /\ Post(p, move) \in PostingStates
         /\ Post(p, move).failed => Post(p, move).entries = p.entries
         /\ ~Post(p, move).failed =>
              /\ ~p.failed
              /\ Post(p, move).entries = Append(p.entries, move)
              /\ \A a \in Account, s \in Asset :
                   Post(p, move).balances[<<a, s>>] = p.balances[<<a, s>>] + Effect(move, a, s)
<1>1. PICK K : K = Account \X Asset
  OBVIOUS
<1>2. PICK from, to, n : from = <<move.debit, move.asset>> /\ to = <<move.credit, move.asset>> /\ n = move.amount
  OBVIOUS
<1>3. from \in K /\ to \in K /\ n \in Int
  BY <1>1, <1>2 DEF Moves
<1>4. p.balances \in [K -> Int] /\ p.entries \in Seq(Moves) /\ p.failed \in BOOLEAN
  BY <1>1 DEF PostingStates, Balances
<1>5. PICK debited, posted : /\ debited = [p.balances EXCEPT ![from] = @ - n]
                             /\ posted = [debited EXCEPT ![to] = @ + n]
  OBVIOUS
<1>6. debited \in [K -> Int] /\ \A k \in K : debited[k] = p.balances[k] - (IF from = k THEN n ELSE 0)
  BY <1>3, <1>4, <1>5
<1>7. posted \in [K -> Int] /\ \A k \in K : posted[k] = debited[k] + (IF to = k THEN n ELSE 0)
  BY <1>3, <1>5, <1>6
<1>8. Post(p, move) = CASE p.failed               -> p
                        [] ~Fits(debited[from])   -> [p EXCEPT !.failed = TRUE]
                        [] ~Fits(posted[to])    -> [p EXCEPT !.failed = TRUE, !.balances = debited]
                        [] OTHER                  -> [p EXCEPT !.balances = posted, !.entries = Append(@, move)]
  BY <1>2, <1>5 DEF Post
<1>9. CASE p.failed
  <2>1. \/ Post(p, move) = p
        \/ Post(p, move) = [p EXCEPT !.failed = TRUE]
        \/ Post(p, move) = [p EXCEPT !.failed = TRUE, !.balances = debited]
    BY <1>8, <1>9
  <2>2. p = [balances |-> p.balances, entries |-> p.entries, failed |-> p.failed]
    BY DEF PostingStates
  <2> QED BY <1>1, <1>4, <1>6, <1>9, <2>1, <2>2 DEF PostingStates, Balances
<1>10. CASE ~p.failed /\ (~Fits(debited[from]) \/ ~Fits(posted[to]))
  <2>1. \/ Post(p, move) = [p EXCEPT !.failed = TRUE]
        \/ Post(p, move) = [p EXCEPT !.failed = TRUE, !.balances = debited]
    BY <1>8, <1>10
  <2> QED BY <1>1, <1>4, <1>6, <2>1 DEF PostingStates, Balances
<1>11. CASE ~p.failed /\ Fits(debited[from]) /\ Fits(posted[to])
  <2>1. PICK q : q = Post(p, move)
    OBVIOUS
  <2>2. q = [balances |-> posted, entries |-> Append(p.entries, move), failed |-> FALSE]
    <3>1. PICK e : e = Append(p.entries, move)
      OBVIOUS
    <3>2. q = [p EXCEPT !.balances = posted, !.entries = e]
      BY <1>8, <1>11, <2>1, <3>1
    <3>3. p = [balances |-> p.balances, entries |-> p.entries, failed |-> p.failed] /\ p.failed = FALSE
      BY <1>11 DEF PostingStates
    <3>4. q = [balances |-> posted, entries |-> e, failed |-> FALSE]
      BY <3>2, <3>3
    <3> QED BY <3>1, <3>4
  <2>3. q \in PostingStates
    BY <1>1, <1>4, <1>7, <2>2 DEF PostingStates, Balances
  <2>4. ASSUME NEW a \in Account, NEW s \in Asset
        PROVE  q.balances[<<a, s>>] = p.balances[<<a, s>>] + Effect(move, a, s)
    <3>1. <<a, s>> \in K /\ (from = <<a, s>> <=> a = move.debit /\ s = move.asset)
                         /\ (to = <<a, s>> <=> a = move.credit /\ s = move.asset)
      BY <1>1, <1>2
    <3>2. posted[<<a, s>>] = debited[<<a, s>>] + (IF to = <<a, s>> THEN n ELSE 0)
      BY <1>7, <3>1
    <3>3. debited[<<a, s>>] = p.balances[<<a, s>>] - (IF from = <<a, s>> THEN n ELSE 0)
      BY <1>6, <3>1
    <3>4. p.balances[<<a, s>>] \in Int
      BY <1>4, <3>1
    <3>5. Effect(move, a, s) = (IF to = <<a, s>> THEN n ELSE 0) - (IF from = <<a, s>> THEN n ELSE 0)
      BY <1>2, <1>3, <3>1 DEF Effect
    <3> QED BY <1>3, <2>2, <3>2, <3>3, <3>4, <3>5
  <2> QED BY <1>11, <2>1, <2>2, <2>3, <2>4
<1> QED BY <1>9, <1>10, <1>11

\* What the loop has done when it stops.
LEMMA PostAllKeeps ==
  ASSUME balances \in Balances, entries \in Seq(Moves), NEW legs \in Seq(Moves)
  PROVE  LET posted == PostAll(legs)
         IN  /\ posted \in PostingStates
             /\ Len(posted.entries) >= Len(entries)
             /\ \A i \in DOMAIN entries : posted.entries[i] = entries[i]
             /\ \A i \in DOMAIN posted.entries : i > Len(entries) =>
                  \E j \in DOMAIN legs : posted.entries[i] = legs[j]
             /\ ~posted.failed =>
                  /\ Len(posted.entries) = Len(entries) + Len(legs)
                  /\ \A j \in DOMAIN legs : posted.entries[Len(entries) + j] = legs[j]
                  /\ \A a \in Account, s \in Asset :
                       /\ posted.balances[<<a, s>>] = BalanceAfter(legs, <<a, s>>)
                       /\ Delta(posted.entries, a, s) = Delta(entries, a, s) + Delta(legs, a, s)
<1>1. PICK n, m : n = Len(legs) /\ m = Len(entries)
  OBVIOUS
<1>2. n \in Nat /\ m \in Nat /\ DOMAIN legs = 1..n /\ DOMAIN entries = 1..m
  BY <1>1
<1>3. PICK p : p[0] = NothingPosted /\ (\A k \in 1..n : p[k] = Post(p[k - 1], legs[k])) /\ PostAll(legs) = p[n]
  BY <1>1, <1>2, PostAllPosts
<1> DEFINE Done(k) ==
             /\ p[k] \in PostingStates
             /\ Len(p[k].entries) >= m
             /\ \A i \in 1..m : p[k].entries[i] = entries[i]
             /\ \A i \in DOMAIN p[k].entries : i > m => \E j \in 1..n : p[k].entries[i] = legs[j]
             /\ ~p[k].failed =>
                  /\ Len(p[k].entries) = m + k
                  /\ \A j \in 1..k : p[k].entries[m + j] = legs[j]
                  /\ \A a \in Account, s \in Asset :
                       /\ p[k].balances[<<a, s>>] = balances[<<a, s>>] + Delta(SubSeq(legs, 1, k), a, s)
                       /\ Delta(p[k].entries, a, s) = Delta(entries, a, s) + Delta(SubSeq(legs, 1, k), a, s)
           A == {k \in Nat : k <= n => Done(k)}
<1>4. 0 \in A
  <2>1. p[0] = [balances |-> balances, entries |-> entries, failed |-> FALSE]
    BY <1>3 DEF NothingPosted
  <2>2. SubSeq(legs, 1, 0) = <<>>
    OBVIOUS
  <2>3. ASSUME NEW a \in Account, NEW s \in Asset
        PROVE  balances[<<a, s>>] \in Int /\ Delta(entries, a, s) \in Int /\ Delta(<<>>, a, s) = 0
    <3>1. balances[<<a, s>>] \in Int
      BY DEF Balances
    <3>2. Delta(<<>>, a, s) = 0
      BY DeltaEmpty
    <3>3. Delta(entries, a, s) \in Int
      BY EntriesSum
    <3> QED BY <3>1, <3>2, <3>3
  <2>4. Done(0)
    <3>1. p[0] \in PostingStates
      BY <2>1 DEF PostingStates
    <3>2. p[0].entries = entries /\ p[0].balances = balances /\ p[0].failed = FALSE
      BY <2>1
    <3>3. \A i \in DOMAIN entries : i <= m
      BY <1>2
    <3>4. ASSUME NEW a \in Account, NEW s \in Asset
          PROVE  /\ p[0].balances[<<a, s>>] = balances[<<a, s>>] + Delta(SubSeq(legs, 1, 0), a, s)
                 /\ Delta(p[0].entries, a, s) = Delta(entries, a, s) + Delta(SubSeq(legs, 1, 0), a, s)
      <4>1. balances[<<a, s>>] \in Int /\ Delta(entries, a, s) \in Int /\ Delta(SubSeq(legs, 1, 0), a, s) = 0
        BY <2>2, <2>3
      <4> QED BY <3>2, <4>1
    <3> QED BY <1>1, <1>2, <3>1, <3>2, <3>3, <3>4
  <2> QED BY <2>4
<1>5. ASSUME NEW k \in Nat, k \in A PROVE k + 1 \in A
  <2> SUFFICES ASSUME k + 1 <= n PROVE Done(k + 1)
    OBVIOUS
  <2>1. Done(k) /\ k + 1 \in 1..n /\ k \in 0..n
    BY <1>2, <1>5
  <2>2. PICK q, move : q = p[k + 1] /\ move = legs[k + 1]
    OBVIOUS
  <2>3. q = Post(p[k], move)
    <3>1. p[k + 1] = Post(p[(k + 1) - 1], legs[k + 1])
      BY <1>3, <2>1
    <3> QED BY <2>2, <3>1
  <2>4. move \in Moves /\ p[k] \in PostingStates
    BY <1>2, <2>1, <2>2
  <2>5. /\ q \in PostingStates
        /\ q.failed => q.entries = p[k].entries
        /\ ~q.failed => /\ ~p[k].failed
                        /\ q.entries = Append(p[k].entries, move)
                        /\ \A a \in Account, s \in Asset :
                             q.balances[<<a, s>>] = p[k].balances[<<a, s>>] + Effect(move, a, s)
    BY <2>3, <2>4, PostOne
  <2>6. PICK e : e = p[k].entries
    OBVIOUS
  <2>7. /\ e \in Seq(Moves) /\ Len(e) >= m /\ (\A i \in 1..m : e[i] = entries[i])
        /\ \A i \in DOMAIN e : i > m => \E j \in 1..n : e[i] = legs[j]
    BY <2>1, <2>6 DEF PostingStates
  <2>8. CASE q.failed
    BY <2>2, <2>5, <2>6, <2>7, <2>8
  <2>9. CASE ~q.failed
    <3>1. q.entries = Append(e, move) /\ ~p[k].failed
      BY <2>5, <2>6, <2>9
    <3>2. Len(e) = m + k /\ \A j \in 1..k : e[m + j] = legs[j]
      BY <2>1, <2>6, <3>1
    <3>3. Len(q.entries) = m + (k + 1) /\ q.entries[m + k + 1] = move /\ \A i \in 1..(m + k) : q.entries[i] = e[i]
      BY <1>2, <2>7, <3>1, <3>2
    <3>4. \A i \in 1..m : q.entries[i] = entries[i]
      BY <1>2, <2>7, <3>3
    <3>5. \A i \in DOMAIN q.entries : i > m => \E j \in 1..n : q.entries[i] = legs[j]
      <4>1. DOMAIN q.entries = 1..(m + k + 1) /\ DOMAIN e = 1..(m + k)
        BY <1>2, <2>7, <3>1, <3>2
      <4>2. \A i \in 1..(m + k + 1) : i = m + k + 1 \/ i \in 1..(m + k)
        BY <1>2
      <4> QED BY <2>1, <2>2, <2>7, <3>3, <4>1, <4>2
    <3>6. \A j \in 1..(k + 1) : q.entries[m + j] = legs[j]
      <4> SUFFICES ASSUME NEW j \in 1..(k + 1) PROVE q.entries[m + j] = legs[j]
        OBVIOUS
      <4>1. CASE j = k + 1
        BY <1>2, <2>2, <3>3, <4>1
      <4>2. CASE j # k + 1
        <5>1. j \in 1..k /\ m + j \in 1..(m + k)
          BY <1>2, <4>2
        <5> QED BY <3>2, <3>3, <5>1
      <4> QED BY <4>1, <4>2
    <3>7. SubSeq(legs, 1, k + 1) = Append(SubSeq(legs, 1, k), move) /\ SubSeq(legs, 1, k) \in Seq(Moves)
      BY <1>1, <1>2, <2>1, <2>2
    <3>8. ASSUME NEW a \in Account, NEW s \in Asset
          PROVE  /\ q.balances[<<a, s>>] = balances[<<a, s>>] + Delta(SubSeq(legs, 1, k + 1), a, s)
                 /\ Delta(q.entries, a, s) = Delta(entries, a, s) + Delta(SubSeq(legs, 1, k + 1), a, s)
      <4>1. PICK d, x : d = Delta(SubSeq(legs, 1, k), a, s) /\ x = Effect(move, a, s)
        OBVIOUS
      <4>2. d \in Int /\ x \in Int /\ Delta(SubSeq(legs, 1, k + 1), a, s) = d + x
        <5>1. PICK u : u = SubSeq(legs, 1, k)
          OBVIOUS
        <5>2. u \in Seq(Moves) /\ SubSeq(legs, 1, k + 1) = Append(u, move)
          BY <3>7, <5>1
        <5>3. Delta(u, a, s) \in Int /\ Effect(move, a, s) \in Int
              /\ Delta(Append(u, move), a, s) = Delta(u, a, s) + Effect(move, a, s)
          BY <2>4, <5>2, DeltaAppend
        <5> QED BY <4>1, <5>1, <5>2, <5>3
      <4>3. Delta(q.entries, a, s) = Delta(e, a, s) + x
        BY <2>4, <2>7, <3>1, <4>1, DeltaAppend
      <4>4. p[k].balances[<<a, s>>] = balances[<<a, s>>] + d /\ Delta(e, a, s) = Delta(entries, a, s) + d
        BY <2>1, <2>6, <3>1, <4>1
      <4>5. q.balances[<<a, s>>] = p[k].balances[<<a, s>>] + x
        BY <2>5, <2>9, <4>1
      <4>6. balances[<<a, s>>] \in Int
        BY DEF Balances
      <4>7. Delta(entries, a, s) \in Int
        BY <2>4, DeltaAppend
      <4> QED BY <4>2, <4>3, <4>4, <4>5, <4>6, <4>7
    <3> QED BY <1>2, <2>2, <2>5, <3>3, <3>4, <3>5, <3>6, <3>8
  <2> QED BY <2>8, <2>9
<1>6. Nat \subseteq A
  <2> HIDE DEF A
  <2> QED BY <1>4, <1>5, Induction
<1>7. Done(n)
  <2>1. n \in A
    <3> HIDE DEF A
    <3> QED BY <1>2, <1>6
  <2> HIDE DEF Done
  <2> QED BY <1>2, <2>1
<1>8. SubSeq(legs, 1, n) = legs
  BY <1>1
<1>9. \A a \in Account, s \in Asset : BalanceAfter(legs, <<a, s>>) = balances[<<a, s>>] + Delta(legs, a, s)
  BY DEF BalanceAfter
<1>10. PICK posted : posted = PostAll(legs)
  OBVIOUS
<1>11. posted = p[n]
  BY <1>3, <1>10
<1>12. /\ posted \in PostingStates
       /\ Len(posted.entries) >= m
       /\ \A i \in 1..m : posted.entries[i] = entries[i]
       /\ \A i \in DOMAIN posted.entries : i > m => \E j \in 1..n : posted.entries[i] = legs[j]
       /\ ~posted.failed =>
            /\ Len(posted.entries) = m + n
            /\ \A j \in 1..n : posted.entries[m + j] = legs[j]
            /\ \A a \in Account, s \in Asset :
                 /\ posted.balances[<<a, s>>] = balances[<<a, s>>] + Delta(legs, a, s)
                 /\ Delta(posted.entries, a, s) = Delta(entries, a, s) + Delta(legs, a, s)
  BY <1>7, <1>8, <1>11
<1> QED BY ONLY <1>1, <1>2, <1>9, <1>10, <1>12

-----------------------------------------------------------------------------
(***************************************************************************)
(* The invariant of the settlement engine.                                 *)
(***************************************************************************)
Records == [state : {"Settled", "Failed"},
            error : {"SelfTransfer", "ArithmeticOverflow", "InsufficientBalance", NoRecord}]

LedgerTypeOK ==
  /\ balances \in Balances
  /\ entries \in Seq(Moves)
  /\ settlements \in [TradeId -> Records \cup {NoRecord}]
  /\ trades \in [TradeId -> Trade \cup {NoRecord}]
  /\ seeded \in Balances

\* Nothing is posted for a trade that has not been decided.
NothingBeforeRecord == \A id \in TradeId : settlements[id] = NoRecord => Postings(id) = {}

\* The trade of every record is remembered.
TradesRemembered == \A id \in TradeId : settlements[id] # NoRecord => trades[id] \in Trade

LedgerInv == LedgerTypeOK /\ NothingBeforeRecord /\ TradesRemembered /\ EntriesExplainBalances /\ SettledWhole

\* A settlement record is not the absence of one.
LEMMA RecordsAreRecords == NoRecord \notin Records
BY LedgerAssumption DEF Records

\* An empty ledger is sound.
LEMMA LedgerInitial == LedgerInit => LedgerInv
<1> SUFFICES ASSUME LedgerInit PROVE LedgerInv
  OBVIOUS
<1>1. LedgerTypeOK
  BY DEF LedgerInit, LedgerTypeOK, Balances
<1>2. \A id : Postings(id) = {}
  BY DEF LedgerInit, Postings
<1>3. EntriesExplainBalances
  <2> SUFFICES ASSUME NEW a \in Account, NEW s \in Asset
               PROVE  /\ balances[<<a, s>>] = seeded[<<a, s>>] + Delta(entries, a, s)
                      /\ balances[<<a, s>>] >= 0
    BY DEF EntriesExplainBalances
  <2>1. balances[<<a, s>>] = 0 /\ seeded[<<a, s>>] = 0
    BY DEF LedgerInit
  <2>2. Delta(entries, a, s) = 0
    BY DeltaEmpty DEF LedgerInit
  <2> QED BY <2>1, <2>2
<1>4. SettledWhole
  <2>1. \A id \in TradeId : settlements[id] = NoRecord
    BY DEF LedgerInit
  <2> QED BY <1>2, <2>1 DEF SettledWhole, AllLegsOrNone
<1>5. NothingBeforeRecord
  BY <1>2 DEF NothingBeforeRecord
<1>6. TradesRemembered
  BY DEF TradesRemembered, LedgerInit
<1> QED BY <1>1, <1>3, <1>4, <1>5, <1>6 DEF LedgerInv

\* Seeding touches a balance and nothing that was posted.
LEMMA SeedKeeps ==
  ASSUME LedgerInv, NEW a \in Account, NEW s \in Asset, NEW amount \in SeedAmount, Seed(a, s, amount)
  PROVE  LedgerInv'
<1>1. UNCHANGED <<entries, settlements, trades>>
  BY DEF Seed
<1>2. amount \in Nat
  BY LedgerAssumption
<1>3. PICK K, k : K = Account \X Asset /\ k = <<a, s>>
  OBVIOUS
<1>4. k \in K /\ balances \in [K -> Int] /\ seeded \in [K -> Int]
  BY <1>3 DEF LedgerInv, LedgerTypeOK, Balances
<1>5. balances' = [balances EXCEPT ![k] = @ + amount] /\ seeded' = [seeded EXCEPT ![k] = @ + amount]
  BY <1>3 DEF Seed
<1>6. balances' \in [K -> Int] /\ \A j \in K : balances'[j] = balances[j] + IF k = j THEN amount ELSE 0
  BY <1>2, <1>4, <1>5
<1>7. seeded' \in [K -> Int] /\ \A j \in K : seeded'[j] = seeded[j] + IF k = j THEN amount ELSE 0
  BY <1>2, <1>4, <1>5
<1>8. LedgerTypeOK'
  BY <1>1, <1>3, <1>6, <1>7 DEF LedgerInv, LedgerTypeOK, Balances
<1>9. NothingBeforeRecord' /\ TradesRemembered' /\ SettledWhole' /\ NeverOverflowed' = NeverOverflowed
  BY <1>1, ZenonT(40) DEF LedgerInv, NothingBeforeRecord, TradesRemembered, SettledWhole, AllLegsOrNone,
              NeverOverflowed, Postings
<1>10. EntriesExplainBalances'
  <2> SUFFICES ASSUME NeverOverflowed, NEW b \in Account, NEW u \in Asset
               PROVE  /\ balances'[<<b, u>>] = seeded'[<<b, u>>] + Delta(entries', b, u)
                      /\ balances'[<<b, u>>] >= 0
    BY <1>9 DEF EntriesExplainBalances
  <2>1. <<b, u>> \in K
    BY <1>3
  <2>2. balances[<<b, u>>] = seeded[<<b, u>>] + Delta(entries, b, u) /\ balances[<<b, u>>] >= 0
    BY DEF LedgerInv, EntriesExplainBalances
  <2>3. PICK d : d = Delta(entries, b, u)
    OBVIOUS
  <2>4. d \in Int
    <3>1. entries \in Seq(Moves)
      BY DEF LedgerInv, LedgerTypeOK
    <3> QED BY <2>3, <3>1, EntriesSum
  <2>5. entries' = entries
    BY <1>1
  <2>6. PICK j, x, y : j = <<b, u>> /\ x = balances[j] /\ y = seeded[j]
    OBVIOUS
  <2>7. x \in Int /\ y \in Int /\ j \in K /\ x = y + d /\ x >= 0
    BY <1>4, <2>1, <2>2, <2>3, <2>6
  <2>8. balances'[j] = x + (IF k = j THEN amount ELSE 0) /\ seeded'[j] = y + (IF k = j THEN amount ELSE 0)
    BY <1>6, <1>7, <2>6, <2>7
  <2>9. balances'[j] = seeded'[j] + d /\ balances'[j] >= 0
    BY <1>2, <2>4, <2>7, <2>8
  <2> QED BY <2>3, <2>5, <2>6, <2>9
<1> QED BY <1>8, <1>9, <1>10 DEF LedgerInv

\* What is posted of the trades the step does not decide stays, wherever the
\* new entries all belong to the trade it decides.
LEMMA OthersStay ==
  ASSUME entries \in Seq(Moves), entries' \in Seq(Moves), NEW id,
         Len(entries') >= Len(entries),
         \A i \in DOMAIN entries : entries'[i] = entries[i],
         \A i \in DOMAIN entries' : i > Len(entries) => entries'[i].trade = id
  PROVE  \A other \in TradeId \ {id} :
           Postings(other)' = Postings(other) /\ \A n \in Postings(other) : entries'[n] = entries[n]
<1>1. PICK m, n : m = Len(entries) /\ n = Len(entries')
  OBVIOUS
<1>2. m \in Nat /\ n \in Nat /\ m <= n /\ DOMAIN entries = 1..m /\ DOMAIN entries' = 1..n
  BY <1>1
<1>3. ASSUME NEW other \in TradeId \ {id}
      PROVE  Postings(other)' = Postings(other) /\ \A i \in Postings(other) : entries'[i] = entries[i]
  <2>1. \A i \in 1..n : i \in 1..m \/ (i > m /\ entries'[i].trade = id)
    BY <1>1, <1>2
  <2>2. \A i \in 1..m : i \in 1..n /\ entries'[i] = entries[i]
    BY <1>2
  <2>3. Postings(other) = {i \in 1..m : entries[i].trade = other}
    BY <1>2 DEF Postings
  <2>4. Postings(other)' = {i \in 1..n : entries'[i].trade = other}
    BY <1>2 DEF Postings
  <2> QED BY <2>1, <2>2, <2>3, <2>4
<1> QED BY <1>3

\* A trade settles: what the step does to the books.
LEMMA SettleParts ==
  ASSUME LedgerInv, NEW t \in Trade, SettleTrade(t)
  PROVE  /\ t.id \in TradeId /\ settlements[t.id] = NoRecord
         /\ LedgerTypeOK'
         /\ Len(entries') >= Len(entries)
         /\ \A i \in DOMAIN entries : entries'[i] = entries[i]
         /\ \A i \in DOMAIN entries' : i > Len(entries) => entries'[i].trade = t.id
         /\ settlements'[t.id] # NoRecord /\ trades'[t.id] = t
         /\ \A id \in TradeId \ {t.id} : settlements'[id] = settlements[id] /\ trades'[id] = trades[id]
         /\ seeded' = seeded
         /\ \/ settlements'[t.id].error = "ArithmeticOverflow"
            \/ settlements'[t.id].state = "Failed" /\ UNCHANGED <<balances, entries>>
            \/ /\ settlements'[t.id].state = "Settled"
               /\ Refusals(Transfers(t)) = {}
               /\ Len(entries') = Len(entries) + Len(Transfers(t))
               /\ \A j \in DOMAIN Transfers(t) : entries'[Len(entries) + j] = Transfers(t)[j]
               /\ \A a \in Account, s \in Asset :
                    /\ balances'[<<a, s>>] = BalanceAfter(Transfers(t), <<a, s>>)
                    /\ Delta(entries', a, s) = Delta(entries, a, s) + Delta(Transfers(t), a, s)
<1>1. PICK legs, posted : legs = Transfers(t) /\ posted = PostAll(legs)
  OBVIOUS
<1>2. t.id \in TradeId /\ settlements[t.id] = NoRecord
  BY DEF SettleTrade, IsDuplicate, Trade
<1>3. legs \in Seq(Moves) /\ \A i \in DOMAIN legs : legs[i].trade = t.id
  BY <1>1, LegsAreMoves
<1>4. balances \in Balances /\ entries \in Seq(Moves)
  BY DEF LedgerInv, LedgerTypeOK
<1>5. /\ posted \in PostingStates
      /\ Len(posted.entries) >= Len(entries)
      /\ \A i \in DOMAIN entries : posted.entries[i] = entries[i]
      /\ \A i \in DOMAIN posted.entries : i > Len(entries) => \E j \in DOMAIN legs : posted.entries[i] = legs[j]
      /\ ~posted.failed =>
           /\ Len(posted.entries) = Len(entries) + Len(legs)
           /\ \A j \in DOMAIN legs : posted.entries[Len(entries) + j] = legs[j]
           /\ \A a \in Account, s \in Asset :
                /\ posted.balances[<<a, s>>] = BalanceAfter(legs, <<a, s>>)
                /\ Delta(posted.entries, a, s) = Delta(entries, a, s) + Delta(legs, a, s)
  BY <1>1, <1>3, <1>4, PostAllKeeps
<1>6. ASSUME NEW r \in Records, Remember(t, r)
      PROVE  /\ settlements' \in [TradeId -> Records \cup {NoRecord}]
             /\ trades' \in [TradeId -> Trade \cup {NoRecord}]
             /\ settlements'[t.id] = r /\ settlements'[t.id] # NoRecord /\ trades'[t.id] = t
             /\ \A id \in TradeId \ {t.id} : settlements'[id] = settlements[id] /\ trades'[id] = trades[id]
             /\ seeded' = seeded
  BY <1>2, <1>6, RecordsAreRecords DEF Remember, LedgerInv, LedgerTypeOK
<1>7. CASE \E error \in Refusals(legs) :
             /\ Remember(t, SettlementRecord("Failed", error))
             /\ UNCHANGED <<balances, entries>>
  <2>1. PICK error \in Refusals(legs) :
             /\ Remember(t, SettlementRecord("Failed", error))
             /\ UNCHANGED <<balances, entries>>
    BY <1>7
  <2>2. SettlementRecord("Failed", error) \in Records
    <3>1. error \in {"SelfTransfer", "ArithmeticOverflow", "InsufficientBalance"}
      BY <2>1 DEF Refusals
    <3> QED BY <3>1 DEF Records, SettlementRecord
  <2>3. settlements'[t.id].state = "Failed"
    BY <1>6, <2>1, <2>2 DEF SettlementRecord
  <2>4. PICK r : r = SettlementRecord("Failed", error)
    OBVIOUS
  <2>5. /\ settlements' \in [TradeId -> Records \cup {NoRecord}]
        /\ trades' \in [TradeId -> Trade \cup {NoRecord}]
        /\ settlements'[t.id] # NoRecord /\ trades'[t.id] = t
        /\ \A id \in TradeId \ {t.id} : settlements'[id] = settlements[id] /\ trades'[id] = trades[id]
        /\ seeded' = seeded
    BY <1>6, <2>1, <2>2
  <2>6. LedgerTypeOK'
    BY <2>1, <2>5 DEF LedgerInv, LedgerTypeOK
  <2>7. \A i \in DOMAIN entries' : ~(i > Len(entries))
    BY <1>4, <2>1
  <2>8. Len(entries') >= Len(entries) /\ \A i \in DOMAIN entries : entries'[i] = entries[i]
    BY <1>4, <2>1
  <2> QED BY <1>2, <2>1, <2>3, <2>5, <2>6, <2>7, <2>8
<1>8. CASE /\ Refusals(legs) = {}
           /\ balances' = posted.balances
           /\ entries' = posted.entries
           /\ Remember(t, IF posted.failed THEN SettlementRecord("Failed", "ArithmeticOverflow")
                          ELSE SettlementRecord("Settled", NoRecord))
  <2>1. PICK r : r = IF posted.failed THEN SettlementRecord("Failed", "ArithmeticOverflow")
                     ELSE SettlementRecord("Settled", NoRecord)
    OBVIOUS
  <2>2. r \in Records /\ r.state \in {"Settled", "Failed"}
        /\ (posted.failed => r.error = "ArithmeticOverflow") /\ (~posted.failed => r.state = "Settled")
    BY <2>1 DEF Records, SettlementRecord
  <2>3. /\ settlements' \in [TradeId -> Records \cup {NoRecord}]
        /\ trades' \in [TradeId -> Trade \cup {NoRecord}]
        /\ settlements'[t.id] = r /\ settlements'[t.id] # NoRecord /\ trades'[t.id] = t
        /\ \A id \in TradeId \ {t.id} : settlements'[id] = settlements[id] /\ trades'[id] = trades[id]
        /\ seeded' = seeded
    BY <1>6, <1>8, <2>1, <2>2
  <2>4. balances' \in Balances /\ entries' \in Seq(Moves)
    BY <1>5, <1>8 DEF PostingStates
  <2>5. LedgerTypeOK'
    BY <2>3, <2>4 DEF LedgerInv, LedgerTypeOK
  <2>6. \A i \in DOMAIN entries' : i > Len(entries) => entries'[i].trade = t.id
    BY <1>3, <1>5, <1>8
  <2>7. Len(entries') >= Len(entries) /\ \A i \in DOMAIN entries : entries'[i] = entries[i]
    BY <1>5, <1>8
  <2>8. CASE posted.failed
    BY <1>2, <2>2, <2>3, <2>5, <2>6, <2>7, <2>8
  <2>9. CASE ~posted.failed
    <3>1. /\ settlements'[t.id].state = "Settled"
          /\ Refusals(Transfers(t)) = {}
          /\ Len(entries') = Len(entries) + Len(Transfers(t))
          /\ \A j \in DOMAIN Transfers(t) : entries'[Len(entries) + j] = Transfers(t)[j]
          /\ \A a \in Account, s \in Asset :
               /\ balances'[<<a, s>>] = BalanceAfter(Transfers(t), <<a, s>>)
               /\ Delta(entries', a, s) = Delta(entries, a, s) + Delta(Transfers(t), a, s)
      BY <1>1, <1>5, <1>8, <2>2, <2>3, <2>9
    <3> QED BY <1>2, <2>3, <2>5, <2>6, <2>7, <3>1
  <2> QED BY <2>8, <2>9
<1> QED BY <1>1, <1>7, <1>8 DEF SettleTrade

\* A batch that no check refuses leaves no balance negative.
LEMMA NotRefused ==
  ASSUME NEW legs, Refusals(legs) = {}, NEW a \in Account, NEW s \in Asset
  PROVE  BalanceAfter(legs, <<a, s>>) >= 0
<1>1. PICK k : k = <<a, s>>
  OBVIOUS
<1>2. k \in Account \X Asset
  BY <1>1
<1>3. /\ "ArithmeticOverflow" \notin Refusals(legs) /\ "InsufficientBalance" \notin Refusals(legs)
      /\ "SelfTransfer" \notin Refusals(legs)
  OBVIOUS
<1>4. ~\E i \in DOMAIN legs : legs[i].debit = legs[i].credit
  BY <1>3 DEF Refusals
<1>5. Fits(BalanceAfter(legs, k)) /\ ~(BalanceAfter(legs, k) < 0)
  BY <1>2, <1>3, <1>4 DEF Refusals
<1>6. BalanceAfter(legs, k) \in Int
  BY <1>5, LedgerAssumption DEF Fits
<1> QED BY <1>1, <1>5, <1>6

\* Settling a trade keeps the books: a batch that is posted whole adds its net
\* effect to every balance, and its legs lie together at the end of the entries.
LEMMA SettleKeeps ==
  ASSUME LedgerInv, NEW t \in Trade, SettleTrade(t)
  PROVE  LedgerInv'
<1>0. /\ LedgerTypeOK /\ NothingBeforeRecord /\ TradesRemembered /\ EntriesExplainBalances /\ SettledWhole
  BY DEF LedgerInv
<1>1. PICK id, legs, m : id = t.id /\ legs = Transfers(t) /\ m = Len(entries)
  OBVIOUS
<1>2. /\ id \in TradeId /\ settlements[id] = NoRecord
      /\ LedgerTypeOK'
      /\ Len(entries') >= m
      /\ \A i \in DOMAIN entries : entries'[i] = entries[i]
      /\ \A i \in DOMAIN entries' : i > m => entries'[i].trade = id
      /\ settlements'[id] # NoRecord /\ trades'[id] = t
      /\ \A other \in TradeId \ {id} : settlements'[other] = settlements[other] /\ trades'[other] = trades[other]
      /\ seeded' = seeded
  BY <1>1, SettleParts
<1>3. \/ settlements'[id].error = "ArithmeticOverflow"
      \/ settlements'[id].state = "Failed" /\ UNCHANGED <<balances, entries>>
      \/ /\ settlements'[id].state = "Settled"
         /\ Refusals(legs) = {}
         /\ Len(entries') = m + Len(legs)
         /\ \A j \in DOMAIN legs : entries'[m + j] = legs[j]
         /\ \A a \in Account, s \in Asset :
              /\ balances'[<<a, s>>] = BalanceAfter(legs, <<a, s>>)
              /\ Delta(entries', a, s) = Delta(entries, a, s) + Delta(legs, a, s)
  <2>1. PICK r : r = settlements'[t.id]
    OBVIOUS
  <2>2. \/ r.error = "ArithmeticOverflow"
        \/ r.state = "Failed" /\ UNCHANGED <<balances, entries>>
        \/ /\ r.state = "Settled"
           /\ Refusals(Transfers(t)) = {}
           /\ Len(entries') = Len(entries) + Len(Transfers(t))
           /\ \A j \in DOMAIN Transfers(t) : entries'[Len(entries) + j] = Transfers(t)[j]
           /\ \A a \in Account, s \in Asset :
                /\ balances'[<<a, s>>] = BalanceAfter(Transfers(t), <<a, s>>)
                /\ Delta(entries', a, s) = Delta(entries, a, s) + Delta(Transfers(t), a, s)
    BY <2>1, SettleParts
  <2> QED BY ONLY <1>1, <2>1, <2>2
<1>4. entries \in Seq(Moves) /\ entries' \in Seq(Moves) /\ legs \in Seq(Moves) /\ m \in Nat
      /\ DOMAIN entries = 1..m
  BY <1>0, <1>1, <1>2, LegsAreMoves DEF LedgerTypeOK
<1>5. \A other \in TradeId \ {id} :
        Postings(other)' = Postings(other) /\ \A n \in Postings(other) : entries'[n] = entries[n]
  BY <1>1, <1>2, <1>4, OthersStay
<1>6. NothingBeforeRecord'
  BY <1>0, <1>2, <1>5 DEF NothingBeforeRecord
<1>7. ASSUME NeverOverflowed' PROVE NeverOverflowed /\ settlements'[id].error # "ArithmeticOverflow"
  <2>1. settlements'[id].error # "ArithmeticOverflow"
    BY <1>2, <1>7 DEF NeverOverflowed
  <2>2. \A other \in TradeId : settlements[other] # NoRecord => settlements[other].error # "ArithmeticOverflow"
    BY <1>2, <1>7 DEF NeverOverflowed
  <2> QED BY <2>1, <2>2 DEF NeverOverflowed
<1>8. EntriesExplainBalances'
  <2> SUFFICES ASSUME NeverOverflowed', NEW a \in Account, NEW s \in Asset
               PROVE  /\ balances'[<<a, s>>] = seeded'[<<a, s>>] + Delta(entries', a, s)
                      /\ balances'[<<a, s>>] >= 0
    BY DEF EntriesExplainBalances
  <2>1. balances[<<a, s>>] = seeded[<<a, s>>] + Delta(entries, a, s) /\ balances[<<a, s>>] >= 0
    BY <1>0, <1>7 DEF EntriesExplainBalances
  <2>2. CASE UNCHANGED <<balances, entries>>
    BY <1>2, <2>1, <2>2
  <2>3. CASE /\ Refusals(legs) = {}
             /\ balances'[<<a, s>>] = BalanceAfter(legs, <<a, s>>)
             /\ Delta(entries', a, s) = Delta(entries, a, s) + Delta(legs, a, s)
    <3>1. balances'[<<a, s>>] >= 0
      BY <2>3, NotRefused
    <3>2. BalanceAfter(legs, <<a, s>>) = balances[<<a, s>>] + Delta(legs, a, s)
      BY DEF BalanceAfter
    <3>3. PICK x, y, d, e : /\ x = balances[<<a, s>>] /\ y = seeded[<<a, s>>]
                            /\ d = Delta(entries, a, s) /\ e = Delta(legs, a, s)
      OBVIOUS
    <3>4. x \in Int /\ y \in Int /\ d \in Int /\ e \in Int
      <4>1. balances[<<a, s>>] \in Int /\ seeded[<<a, s>>] \in Int
        BY <1>0 DEF LedgerTypeOK, Balances
      <4> QED BY <1>4, <3>3, <4>1, EntriesSum
    <3>5. x = y + d
      BY <2>1, <3>3
    <3>6. balances'[<<a, s>>] = x + e /\ Delta(entries', a, s) = d + e /\ seeded'[<<a, s>>] = y
      BY <1>2, <2>3, <3>2, <3>3
    <3> QED BY <3>1, <3>4, <3>5, <3>6
  <2> QED BY <1>3, <1>7, <2>2, <2>3
<1>9. SettledWhole'
  <2> SUFFICES ASSUME NeverOverflowed', NEW other \in TradeId PROVE AllLegsOrNone(other)'
    BY DEF SettledWhole
  <2>1. AllLegsOrNone(other)
    BY <1>0, <1>7 DEF SettledWhole
  <2>2. CASE other # id
    <3>1. Postings(other)' = Postings(other) /\ (\A n \in Postings(other) : entries'[n] = entries[n])
          /\ settlements'[other] = settlements[other] /\ trades'[other] = trades[other]
      BY <1>2, <1>5, <2>2
    <3>2. CASE settlements[other] # NoRecord /\ settlements[other].state = "Settled"
      <4>1. PICK own : own = Transfers(trades[other])
        OBVIOUS
      <4>2. PICK n \in 0..Len(entries) :
              Postings(other) = n + 1..n + Len(own) /\ \A i \in DOMAIN own : entries[n + i] = own[i]
        BY <2>1, <3>2, <4>1 DEF AllLegsOrNone
      <4>3. own = Transfers(trades'[other])
        BY <3>1, <4>1
      <4>4. n \in 0..Len(entries')
        <5>1. Len(entries') \in Nat /\ Len(entries') >= Len(entries)
          BY <1>1, <1>2, <1>4
        <5> QED BY <1>1, <1>4, <5>1
      <4>5. \A i \in DOMAIN own : n + i \in Postings(other)
        <5>1. own \in Seq(Moves)
          <6>1. trades[other] \in Trade
            BY <1>0, <3>2 DEF TradesRemembered
          <6> QED BY <4>1, <6>1, LegsAreMoves
        <5>2. DOMAIN own = 1..Len(own) /\ Len(own) \in Nat /\ n \in Nat
          BY <1>1, <1>4, <5>1
        <5> QED BY <4>2, <5>2
      <4>6. \A i \in DOMAIN own : entries'[n + i] = own[i]
        BY <3>1, <4>2, <4>5
      <4>7. Postings(other)' = n + 1..n + Len(own)
        BY <3>1, <4>2
      <4>8. settlements'[other] # NoRecord /\ settlements'[other].state = "Settled"
        BY <3>1, <3>2
      <4> QED BY <4>3, <4>4, <4>6, <4>7, <4>8 DEF AllLegsOrNone
    <3>3. CASE ~(settlements[other] # NoRecord /\ settlements[other].state = "Settled")
      BY <2>1, <3>1, <3>3 DEF AllLegsOrNone
    <3> QED BY <3>2, <3>3
  <2>3. CASE other = id
    <3>1. Postings(id) = {}
      BY <1>0, <1>2 DEF NothingBeforeRecord
    <3>2. CASE settlements'[id].state = "Failed" /\ UNCHANGED entries
      <4>1. Postings(id)' = {}
        BY <3>1, <3>2 DEF Postings
      <4> QED BY <2>3, <3>2, <4>1 DEF AllLegsOrNone
    <3>3. CASE /\ settlements'[id].state = "Settled"
               /\ Len(entries') = m + Len(legs)
               /\ \A j \in DOMAIN legs : entries'[m + j] = legs[j]
      <4>1. PICK n : n = Len(legs)
        OBVIOUS
      <4>2. n \in Nat /\ DOMAIN legs = 1..n /\ DOMAIN entries' = 1..(m + n)
        BY <1>4, <3>3, <4>1
      <4>3. \A i \in 1..m : entries'[i].trade # id
        BY <1>2, <1>4, <3>1 DEF Postings
      <4>4. \A i \in 1..(m + n) : i \in 1..m \/ (i > m /\ i \in m + 1..m + n)
        BY <1>4, <4>2
      <4>5. \A i \in 1..(m + n) : i > m => entries'[i].trade = id
        BY <1>2, <4>2
      <4>6. Postings(id)' = m + 1..m + n
        <5>1. Postings(id)' = {i \in 1..(m + n) : entries'[i].trade = id}
          BY <4>2 DEF Postings
        <5>2. \A i \in m + 1..m + n : i \in 1..(m + n) /\ i > m
          BY <1>4, <4>2
        <5> QED BY <4>3, <4>4, <4>5, <5>1, <5>2
      <4>7. m \in 0..Len(entries')
        BY <1>4, <3>3, <4>1, <4>2
      <4>8. Transfers(trades'[id]) = legs
        BY <1>1, <1>2
      <4> QED BY <1>2, <2>3, <3>3, <4>1, <4>6, <4>7, <4>8 DEF AllLegsOrNone
    <3> QED BY <1>3, <1>7, <3>2, <3>3
  <2> QED BY <2>2, <2>3
<1>10. TradesRemembered'
  BY <1>0, <1>2 DEF TradesRemembered
<1> QED BY <1>2, <1>6, <1>8, <1>9, <1>10 DEF LedgerInv

\* A step that changes nothing keeps the books.
LEMMA LedgerStill == LedgerInv /\ UNCHANGED ledgerVars => LedgerInv'
<1> SUFFICES ASSUME LedgerInv, UNCHANGED <<balances, entries, settlements, trades, seeded>> PROVE LedgerInv'
  BY DEF ledgerVars
<1>1. LedgerTypeOK' /\ NothingBeforeRecord' /\ TradesRemembered'
  BY DEF LedgerInv, LedgerTypeOK, NothingBeforeRecord, TradesRemembered, Postings
<1>2. EntriesExplainBalances'
  BY DEF LedgerInv, EntriesExplainBalances, NeverOverflowed
<1>3. SettledWhole'
  BY ZenonT(40) DEF LedgerInv, SettledWhole, NeverOverflowed, AllLegsOrNone, Postings
<1> QED BY <1>1, <1>2, <1>3 DEF LedgerInv

\* Every step of the settlement engine keeps its invariant.
LEMMA LedgerInductive == LedgerInv /\ [LedgerNext]_ledgerVars => LedgerInv'
BY SeedKeeps, SettleKeeps, LedgerStill DEF LedgerNext

\* The invariant holds in every state.
LEMMA LedgerInvariant == LedgerSpec => []LedgerInv
BY LedgerInitial, LedgerInductive, PTL DEF LedgerSpec

\* While no batch has stopped on an overflow, the entries replayed over the
\* seedings give every balance, and none is negative (post_batch).
THEOREM BooksBalance == LedgerSpec => []EntriesExplainBalances
<1>1. LedgerInv => EntriesExplainBalances
  BY DEF LedgerInv
<1> QED BY <1>1, LedgerInvariant, PTL

\* While no batch has stopped on an overflow, a settled trade has all its legs
\* in the entries, one after the other, and any other trade has none (settle_trade).
THEOREM DeliveryVersusPayment == LedgerSpec => []SettledWhole
<1>1. LedgerInv => SettledWhole
  BY DEF LedgerInv
<1> QED BY <1>1, LedgerInvariant, PTL

\* What settle_trade has recorded of a trade, and posted for it, never changes,
\* overflow or not.
THEOREM SettledOnce == LedgerSpec => SettlementFinal
<1>1. ASSUME LedgerInv, [LedgerNext]_ledgerVars, NEW id \in TradeId, settlements[id] # NoRecord
      PROVE  /\ settlements'[id] = settlements[id]
             /\ Postings(id)' = Postings(id)
             /\ \A n \in Postings(id) : entries'[n] = entries[n]
  <2>1. CASE entries' = entries /\ settlements' = settlements
    BY <2>1 DEF Postings
  <2>2. ASSUME NEW t \in Trade, SettleTrade(t)
        PROVE  /\ settlements'[id] = settlements[id]
               /\ Postings(id)' = Postings(id)
               /\ \A n \in Postings(id) : entries'[n] = entries[n]
    <3>1. id # t.id /\ settlements'[id] = settlements[id]
      BY <1>1, <2>2, SettleParts
    <3>2. entries \in Seq(Moves) /\ entries' \in Seq(Moves)
      BY <1>1, <2>2, SettleParts DEF LedgerInv, LedgerTypeOK
    <3>3. /\ Len(entries') >= Len(entries)
          /\ \A i \in DOMAIN entries : entries'[i] = entries[i]
          /\ \A i \in DOMAIN entries' : i > Len(entries) => entries'[i].trade = t.id
      BY <1>1, <2>2, SettleParts
    <3> QED BY <3>1, <3>2, <3>3, OthersStay
  <2>3. (\E a \in Account, s \in Asset, amount \in SeedAmount : Seed(a, s, amount)) \/ UNCHANGED ledgerVars
        => entries' = entries /\ settlements' = settlements
    BY DEF Seed, ledgerVars
  <2> QED BY <1>1, <2>1, <2>2, <2>3 DEF LedgerNext
<1>2. LedgerInv /\ [LedgerNext]_ledgerVars =>
        [\A id \in TradeId : settlements[id] # NoRecord =>
           /\ settlements'[id] = settlements[id]
           /\ Postings(id)' = Postings(id)
           /\ \A n \in Postings(id) : entries'[n] = entries[n]]_ledgerVars
  BY <1>1
<1> QED BY <1>2, LedgerInvariant, PTL DEF LedgerSpec, SettlementFinal

-----------------------------------------------------------------------------
(***************************************************************************)
(* Pre-trade risk: what one order needs, and what an account has promised to*)
(* all its orders.                                                         *)
(***************************************************************************)
\* A resting order and what is reserved for it.
ReservedOrder == [side : Side, price : Nat, quantity : Nat, value : Nat]

RiskBook ==
  [cash : [AccountId -> Int], heldCash : [AccountId -> Int],
   position : [AccountId \X Instrument -> Int],
   heldPosition : [AccountId \X Instrument -> Int],
   orders : [Key -> ReservedOrder \cup {Nil}]]

\* The value of a resting buy order is what it still needs.
ValuesExact(b) ==
  \A key \in Key : b.orders[key] # Nil /\ b.orders[key].side = "Buy" =>
    b.orders[key].value = b.orders[key].price * b.orders[key].quantity

BookSound(b) == b \in RiskBook /\ ValuesExact(b) /\ PromisedOnce(b)

\* There are finitely many orders, of everybody and of each account and line.
LEMMA KeysFinite ==
  /\ IsFiniteSet(Key) /\ IsFiniteSet(AccountId)
  /\ \A a : IsFiniteSet({key \in Key : Owner(key) = a})
  /\ \A ln : IsFiniteSet({key \in Key : Line(key) = ln})
<1>1. IsFiniteSet(AccountId \X Instrument \X ClientOrder)
  <2>1. IsFiniteSet(AccountId \X Instrument)
    BY RiskAssumption, FS_Product
  <2>2. PICK f \in [(AccountId \X Instrument) \X ClientOrder -> Key] :
          f = [x \in (AccountId \X Instrument) \X ClientOrder |-> <<x[1][1], x[1][2], x[2]>>]
    BY DEF Key
  <2>3. \A key \in Key : \E x \in (AccountId \X Instrument) \X ClientOrder : f[x] = key
    <3> SUFFICES ASSUME NEW key \in Key
                 PROVE  \E x \in (AccountId \X Instrument) \X ClientOrder : f[x] = key
      OBVIOUS
    <3>1. <<<<key[1], key[2]>>, key[3]>> \in (AccountId \X Instrument) \X ClientOrder
      BY DEF Key
    <3>2. f[<<<<key[1], key[2]>>, key[3]>>] = key
      BY <2>2, <3>1 DEF Key
    <3> QED BY <3>1, <3>2
  <2>4. f \in Surjection((AccountId \X Instrument) \X ClientOrder, Key)
    BY <2>2, <2>3 DEF Surjection
  <2>5. IsFiniteSet((AccountId \X Instrument) \X ClientOrder)
    BY <2>1, RiskAssumption, FS_Product
  <2> QED BY <2>4, <2>5, FS_Surjection DEF Key
<1> QED BY <1>1, RiskAssumption, FS_Subset DEF Key

\* What an order needs is a natural number, and no order needs nothing.
LEMMA ForTypes ==
  ASSUME NEW order \in ReservedOrder \cup {Nil}
  PROVE  CashFor(order) \in Nat /\ UnitsFor(order) \in Nat
<1>1. CASE order \in ReservedOrder
  <2>1. order.price \in Nat /\ order.quantity \in Nat
    BY <1>1 DEF ReservedOrder
  <2>2. order.price * order.quantity \in Nat
    BY <2>1
  <2> QED BY <2>1, <2>2 DEF CashFor, UnitsFor
<1>2. CASE order = Nil
  BY <1>2 DEF CashFor, UnitsFor
<1> QED BY <1>1, <1>2

\* What is promised when one order changes.
LEMMA CashPromisedChanges ==
  ASSUME NEW b \in RiskBook, NEW c \in RiskBook, NEW key \in Key,
         NEW order \in ReservedOrder \cup {Nil},
         c.orders = [b.orders EXCEPT ![key] = order], NEW a \in AccountId
  PROVE  CashPromised(c, a) = CashPromised(b, a)
           + IF Owner(key) = a THEN CashFor(order) - CashFor(b.orders[key]) ELSE 0
<1>1. PICK S : S = {k \in Key : Owner(k) = a}
  OBVIOUS
<1>2. PICK f : f = [k \in S |-> CashFor(b.orders[k])]
  OBVIOUS
<1>3. PICK g : g = [k \in S |-> CashFor(c.orders[k])]
  OBVIOUS
<1>4. CashPromised(b, a) = SumFunctionOnSet(f, S) /\ CashPromised(c, a) = SumFunctionOnSet(g, S)
  BY <1>1, <1>2, <1>3 DEF CashPromised, SumFunction
<1>5. IsFiniteSet(S)
  BY <1>1, KeysFinite
<1>6. \A k \in Key : b.orders[k] \in ReservedOrder \cup {Nil} /\ c.orders[k] \in ReservedOrder \cup {Nil}
  BY DEF RiskBook
<1>7. \A k \in S : f[k] \in Int /\ g[k] \in Int
  BY <1>1, <1>2, <1>3, <1>6, ForTypes
<1>8. \A k \in Key : c.orders[k] = IF k = key THEN order ELSE b.orders[k]
  BY DEF RiskBook
<1>9. CASE Owner(key) = a
  <2>1. key \in S
    BY <1>1, <1>9
  <2>2. \A k \in S \ {key} : g[k] = f[k]
    BY <1>1, <1>2, <1>3, <1>8
  <2>3. SumFunctionOnSet(g, S) = SumFunctionOnSet(f, S) - f[key] + g[key]
    BY <1>5, <1>7, <2>1, <2>2, SumChanged
  <2>4. f[key] = CashFor(b.orders[key]) /\ g[key] = CashFor(order)
    BY <1>1, <1>2, <1>3, <1>8, <2>1
  <2>5. SumFunctionOnSet(f, S) \in Int
    BY <1>5, <1>7, SumType
  <2> QED BY <1>4, <1>7, <1>9, <2>1, <2>3, <2>4, <2>5
<1>10. CASE Owner(key) # a
  <2>1. \A k \in S : f[k] = g[k]
    BY <1>1, <1>2, <1>3, <1>8, <1>10
  <2>2. SumFunctionOnSet(f, S) = SumFunctionOnSet(g, S)
    BY <1>5, <2>1, SumSame
  <2>3. SumFunctionOnSet(f, S) \in Int
    BY <1>5, <1>7, SumType
  <2> QED BY <1>4, <1>10, <2>2, <2>3
<1> QED BY <1>9, <1>10

\* The units promised when one order changes.
LEMMA UnitsPromisedChanges ==
  ASSUME NEW b \in RiskBook, NEW c \in RiskBook, NEW key \in Key,
         NEW order \in ReservedOrder \cup {Nil},
         c.orders = [b.orders EXCEPT ![key] = order], NEW ln \in AccountId \X Instrument
  PROVE  UnitsPromised(c, ln) = UnitsPromised(b, ln)
           + IF Line(key) = ln THEN UnitsFor(order) - UnitsFor(b.orders[key]) ELSE 0
<1>1. PICK S : S = {k \in Key : Line(k) = ln}
  OBVIOUS
<1>2. PICK f : f = [k \in S |-> UnitsFor(b.orders[k])]
  OBVIOUS
<1>3. PICK g : g = [k \in S |-> UnitsFor(c.orders[k])]
  OBVIOUS
<1>4. UnitsPromised(b, ln) = SumFunctionOnSet(f, S) /\ UnitsPromised(c, ln) = SumFunctionOnSet(g, S)
  BY <1>1, <1>2, <1>3 DEF UnitsPromised, SumFunction
<1>5. IsFiniteSet(S)
  BY <1>1, KeysFinite
<1>6. \A k \in Key : b.orders[k] \in ReservedOrder \cup {Nil} /\ c.orders[k] \in ReservedOrder \cup {Nil}
  BY DEF RiskBook
<1>7. \A k \in S : f[k] \in Int /\ g[k] \in Int
  BY <1>1, <1>2, <1>3, <1>6, ForTypes
<1>8. \A k \in Key : c.orders[k] = IF k = key THEN order ELSE b.orders[k]
  BY DEF RiskBook
<1>9. CASE Line(key) = ln
  <2>1. key \in S
    BY <1>1, <1>9
  <2>2. \A k \in S \ {key} : g[k] = f[k]
    BY <1>1, <1>2, <1>3, <1>8
  <2>3. SumFunctionOnSet(g, S) = SumFunctionOnSet(f, S) - f[key] + g[key]
    BY <1>5, <1>7, <2>1, <2>2, SumChanged
  <2>4. f[key] = UnitsFor(b.orders[key]) /\ g[key] = UnitsFor(order)
    BY <1>1, <1>2, <1>3, <1>8, <2>1
  <2>5. SumFunctionOnSet(f, S) \in Int
    BY <1>5, <1>7, SumType
  <2> QED BY <1>4, <1>7, <1>9, <2>1, <2>3, <2>4, <2>5
<1>10. CASE Line(key) # ln
  <2>1. \A k \in S : f[k] = g[k]
    BY <1>1, <1>2, <1>3, <1>8, <1>10
  <2>2. SumFunctionOnSet(f, S) = SumFunctionOnSet(g, S)
    BY <1>5, <2>1, SumSame
  <2>3. SumFunctionOnSet(f, S) \in Int
    BY <1>5, <1>7, SumType
  <2> QED BY <1>4, <1>10, <2>2, <2>3
<1> QED BY <1>9, <1>10

\* The promise of one order is part of what is promised.
LEMMA PromiseIsPart ==
  ASSUME NEW b \in RiskBook, NEW key \in Key
  PROVE  /\ CashFor(b.orders[key]) <= CashPromised(b, Owner(key))
         /\ UnitsFor(b.orders[key]) <= UnitsPromised(b, Line(key))
         /\ CashPromised(b, Owner(key)) \in Nat /\ UnitsPromised(b, Line(key)) \in Nat
<1>1. PICK S : S = {k \in Key : Owner(k) = Owner(key)}
  OBVIOUS
<1>2. PICK f : f = [k \in S |-> CashFor(b.orders[k])]
  OBVIOUS
<1>3. PICK T : T = {k \in Key : Line(k) = Line(key)}
  OBVIOUS
<1>4. PICK g : g = [k \in T |-> UnitsFor(b.orders[k])]
  OBVIOUS
<1>5. /\ CashPromised(b, Owner(key)) = SumFunctionOnSet(f, S)
      /\ UnitsPromised(b, Line(key)) = SumFunctionOnSet(g, T)
  BY <1>1, <1>2, <1>3, <1>4 DEF CashPromised, UnitsPromised, SumFunction
<1>6. IsFiniteSet(S) /\ IsFiniteSet(T)
  BY <1>1, <1>3, KeysFinite
<1>7. \A k \in Key : b.orders[k] \in ReservedOrder \cup {Nil}
  BY DEF RiskBook
<1>8. (\A k \in S : f[k] \in Nat) /\ (\A k \in T : g[k] \in Nat)
  BY <1>1, <1>2, <1>3, <1>4, <1>7, ForTypes
<1>9. key \in S /\ key \in T
  BY <1>1, <1>3
<1>10. SumFunctionOnSet(f, S) \in Nat /\ f[key] <= SumFunctionOnSet(f, S)
  BY <1>6, <1>8, <1>9, SumBounds
<1>11. SumFunctionOnSet(g, T) \in Nat /\ g[key] <= SumFunctionOnSet(g, T)
  BY <1>6, <1>8, <1>9, SumBounds
<1> QED BY <1>2, <1>4, <1>5, <1>9, <1>10, <1>11

\* The parts of an order's name.
LEMMA KeyParts ==
  ASSUME NEW key \in Key
  PROVE  Owner(key) \in AccountId /\ Line(key) \in AccountId \X Instrument
BY DEF Key, Owner, Line

\* A reservation that reserve grants keeps the book sound.
LEMMA ReserveKeeps ==
  ASSUME NEW b, BookSound(b), NEW key \in Key, NEW side \in Side,
         NEW price \in Nat, NEW quantity \in Nat,
         b.orders[key] = Nil, HasFunds(b, key, side, price, quantity), quantity > 0
  PROVE  LET c == WithReservation(b, key, side, price, quantity)
         IN  BookSound(c) /\ c.cash = b.cash /\ c.position = b.position
<1>1. PICK order : order = Reservation(side, price, quantity, price * quantity)
  OBVIOUS
<1>2. PICK c : c = WithReservation(b, key, side, price, quantity)
  OBVIOUS
<1>0. b \in RiskBook /\ Owner(key) \in AccountId /\ Line(key) \in AccountId \X Instrument
  BY KeyParts DEF BookSound
<1>3. price * quantity \in Nat
  OBVIOUS
<1>4. order \in ReservedOrder /\ order # Nil
  BY <1>1, <1>3, RiskAssumption DEF Reservation, ReservedOrder, Side
<1>5. CASE side = "Buy"
  <2>1. c = [b EXCEPT !.orders = [b.orders EXCEPT ![key] = order],
                      !.heldCash = [b.heldCash EXCEPT ![Owner(key)] = @ + order.value]]
    BY <1>0, <1>1, <1>2, <1>5 DEF WithReservation, RiskBook
  <2>2. order.value = price * quantity /\ CashFor(order) = price * quantity /\ UnitsFor(order) = 0
    BY <1>1, <1>4, <1>5 DEF Reservation, CashFor, UnitsFor
  <2>3. c \in RiskBook /\ c.orders = [b.orders EXCEPT ![key] = order]
    <3>1. [b.heldCash EXCEPT ![Owner(key)] = @ + order.value] \in [AccountId -> Int]
      BY <1>0, <1>3, <1>4, <2>1, <2>2 DEF RiskBook
    <3>2. [b.orders EXCEPT ![key] = order] \in [Key -> ReservedOrder \cup {Nil}]
      BY <1>0, <1>3, <1>4, <2>1, <2>2 DEF RiskBook
    <3> QED BY <1>0, <2>1, <3>1, <3>2 DEF RiskBook
  <2>4. CashFor(b.orders[key]) = 0 /\ UnitsFor(b.orders[key]) = 0
    BY DEF CashFor, UnitsFor
  <2>5. ValuesExact(c)
    BY <1>0, <1>1, <2>3, <2>2 DEF BookSound, ValuesExact, RiskBook, Reservation
  <2>6. \A a \in AccountId : c.heldCash[a] = CashPromised(c, a) /\ c.heldCash[a] <= c.cash[a]
    <3> SUFFICES ASSUME NEW a \in AccountId
                 PROVE  c.heldCash[a] = CashPromised(c, a) /\ c.heldCash[a] <= c.cash[a]
      OBVIOUS
    <3>1. CashPromised(c, a) = CashPromised(b, a) + IF Owner(key) = a THEN price * quantity ELSE 0
      BY <1>0, <1>3, <1>4, <2>2, <2>3, <2>4, CashPromisedChanges
    <3>2. b.heldCash[a] = CashPromised(b, a) /\ b.heldCash[a] <= b.cash[a] /\ b.heldCash[a] \in Int /\ b.cash[a] \in Int
      BY <1>0 DEF BookSound, PromisedOnce, RiskBook
    <3>3. c.cash = b.cash /\ c.heldCash[a] = IF Owner(key) = a THEN b.heldCash[a] + price * quantity ELSE b.heldCash[a]
      BY <1>0, <2>1, <2>2 DEF RiskBook
    <3>4. Owner(key) = a => b.cash[a] - b.heldCash[a] >= price * quantity
      BY <1>5 DEF HasFunds, AvailableCash
    <3> QED BY <1>3, <3>1, <3>2, <3>3, <3>4
  <2>7. \A ln \in AccountId \X Instrument :
          c.heldPosition[ln] = UnitsPromised(c, ln) /\ c.heldPosition[ln] <= c.position[ln]
    <3> SUFFICES ASSUME NEW ln \in AccountId \X Instrument
                 PROVE  c.heldPosition[ln] = UnitsPromised(c, ln) /\ c.heldPosition[ln] <= c.position[ln]
      OBVIOUS
    <3>1. UnitsPromised(c, ln) = UnitsPromised(b, ln) + 0
      BY <1>0, <1>4, <2>2, <2>3, <2>4, UnitsPromisedChanges
    <3>2. b.heldPosition[ln] = UnitsPromised(b, ln) /\ b.heldPosition[ln] <= b.position[ln] /\ b.heldPosition[ln] \in Int
      BY <1>0 DEF BookSound, PromisedOnce, RiskBook
    <3>3. c.position = b.position /\ c.heldPosition = b.heldPosition
      BY <2>1
    <3> QED BY <3>1, <3>2, <3>3
  <2>8. c.cash = b.cash /\ c.position = b.position
    BY <2>1
  <2> QED BY <1>2, <2>3, <2>5, <2>6, <2>7, <2>8 DEF BookSound, PromisedOnce
<1>6. CASE side = "Sell"
  <2>1. c = [b EXCEPT !.orders = [b.orders EXCEPT ![key] = order],
                      !.heldPosition = [b.heldPosition EXCEPT ![Line(key)] = @ + quantity]]
    BY <1>0, <1>1, <1>2, <1>6 DEF WithReservation, RiskBook
  <2>2. CashFor(order) = 0 /\ UnitsFor(order) = quantity
    BY <1>1, <1>4, <1>6 DEF Reservation, CashFor, UnitsFor
  <2>3. c \in RiskBook /\ c.orders = [b.orders EXCEPT ![key] = order]
    <3>1. [b.heldPosition EXCEPT ![Line(key)] = @ + quantity] \in [AccountId \X Instrument -> Int]
      BY <1>0, <1>4, <2>1 DEF RiskBook
    <3>2. [b.orders EXCEPT ![key] = order] \in [Key -> ReservedOrder \cup {Nil}]
      BY <1>0, <1>4, <2>1 DEF RiskBook
    <3> QED BY <1>0, <2>1, <3>1, <3>2 DEF RiskBook
  <2>4. CashFor(b.orders[key]) = 0 /\ UnitsFor(b.orders[key]) = 0
    BY DEF CashFor, UnitsFor
  <2>5. ValuesExact(c)
    BY <1>0, <1>1, <2>3, <2>2 DEF BookSound, ValuesExact, RiskBook, Reservation
  <2>6. \A a \in AccountId : c.heldCash[a] = CashPromised(c, a) /\ c.heldCash[a] <= c.cash[a]
    <3> SUFFICES ASSUME NEW a \in AccountId
                 PROVE  c.heldCash[a] = CashPromised(c, a) /\ c.heldCash[a] <= c.cash[a]
      OBVIOUS
    <3>1. CashPromised(c, a) = CashPromised(b, a) + 0
      BY <1>0, <1>4, <2>2, <2>3, <2>4, CashPromisedChanges
    <3>2. b.heldCash[a] = CashPromised(b, a) /\ b.heldCash[a] <= b.cash[a] /\ b.heldCash[a] \in Int
      BY <1>0 DEF BookSound, PromisedOnce, RiskBook
    <3>3. c.cash = b.cash /\ c.heldCash = b.heldCash
      BY <2>1
    <3> QED BY <3>1, <3>2, <3>3
  <2>7. \A ln \in AccountId \X Instrument :
          c.heldPosition[ln] = UnitsPromised(c, ln) /\ c.heldPosition[ln] <= c.position[ln]
    <3> SUFFICES ASSUME NEW ln \in AccountId \X Instrument
                 PROVE  c.heldPosition[ln] = UnitsPromised(c, ln) /\ c.heldPosition[ln] <= c.position[ln]
      OBVIOUS
    <3>1. UnitsPromised(c, ln) = UnitsPromised(b, ln) + IF Line(key) = ln THEN quantity ELSE 0
      BY <1>0, <1>4, <2>2, <2>3, <2>4, UnitsPromisedChanges
    <3>2. b.heldPosition[ln] = UnitsPromised(b, ln) /\ b.heldPosition[ln] <= b.position[ln] /\ b.heldPosition[ln] \in Int
          /\ b.position[ln] \in Int
      BY <1>0 DEF BookSound, PromisedOnce, RiskBook
    <3>3. c.position = b.position /\ c.heldPosition[ln] = IF Line(key) = ln THEN b.heldPosition[ln] + quantity ELSE b.heldPosition[ln]
      BY <1>0, <2>1 DEF RiskBook
    <3>4. Line(key) = ln => b.position[ln] - b.heldPosition[ln] >= quantity
      BY <1>6, <3>2 DEF HasFunds, AvailablePosition
    <3> QED BY <3>1, <3>2, <3>3, <3>4
  <2>8. c.cash = b.cash /\ c.position = b.position
    BY <2>1
  <2> QED BY <1>2, <2>3, <2>5, <2>6, <2>7, <2>8 DEF BookSound, PromisedOnce
<1> QED BY <1>5, <1>6 DEF Side

\* cancel_reservation keeps a sound book sound: no release underflows.
LEMMA CancelKeeps ==
  ASSUME NEW b, BookSound(b), NEW key \in Key, b.orders[key] # Nil
  PROVE  LET c == WithoutReservation(b, key)
         IN  BookSound(c) /\ c.orders[key] = Nil /\ c.cash = b.cash /\ c.position = b.position
<1>1. PICK order : order = b.orders[key]
  OBVIOUS
<1>2. PICK c : c = WithoutReservation(b, key)
  OBVIOUS
<1>0. b \in RiskBook /\ Owner(key) \in AccountId /\ Line(key) \in AccountId \X Instrument
  BY KeyParts DEF BookSound
<1>4. order \in ReservedOrder
  BY <1>0, <1>1 DEF RiskBook
<1>3. CashFor(Nil) = 0 /\ UnitsFor(Nil) = 0
  BY DEF CashFor, UnitsFor
<1>5. CASE order.side = "Buy"
  <2>1. c = [b EXCEPT !.orders = [b.orders EXCEPT ![key] = Nil],
                      !.heldCash = [b.heldCash EXCEPT ![Owner(key)] = @ - order.value]]
    BY <1>0, <1>1, <1>2, <1>5 DEF WithoutReservation, RiskBook
  <2>2. order.value = CashFor(order) /\ UnitsFor(order) = 0 /\ order.value \in Int
    BY <1>1, <1>4, <1>5 DEF BookSound, ValuesExact, CashFor, UnitsFor, ReservedOrder
  <2>3. c \in RiskBook /\ c.orders = [b.orders EXCEPT ![key] = Nil]
    <3>1. [b.heldCash EXCEPT ![Owner(key)] = @ - order.value] \in [AccountId -> Int]
      BY <1>0, <2>1, <2>2 DEF RiskBook
    <3>2. [b.orders EXCEPT ![key] = Nil] \in [Key -> ReservedOrder \cup {Nil}]
      BY <1>0, <2>1, <2>2 DEF RiskBook
    <3> QED BY <1>0, <2>1, <3>1, <3>2 DEF RiskBook
  <2>5. ValuesExact(c) /\ c.orders[key] = Nil
    BY <1>0, <1>1, <2>3, <2>2 DEF BookSound, ValuesExact, RiskBook
  <2>6. \A a \in AccountId : c.heldCash[a] = CashPromised(c, a) /\ c.heldCash[a] <= c.cash[a]
    <3> SUFFICES ASSUME NEW a \in AccountId
                 PROVE  c.heldCash[a] = CashPromised(c, a) /\ c.heldCash[a] <= c.cash[a]
      OBVIOUS
    <3>0. order.value \in Nat
      BY <1>4 DEF ReservedOrder
    <3>1. CashPromised(c, a) = CashPromised(b, a) + IF Owner(key) = a THEN 0 - order.value ELSE 0
      BY <1>0, <1>1, <1>3, <2>2, <2>3, CashPromisedChanges
    <3>2. b.heldCash[a] = CashPromised(b, a) /\ b.heldCash[a] <= b.cash[a] /\ b.heldCash[a] \in Int /\ b.cash[a] \in Int
      BY <1>0 DEF BookSound, PromisedOnce, RiskBook
    <3>3. c.cash = b.cash /\ c.heldCash[a] = IF Owner(key) = a THEN b.heldCash[a] - order.value ELSE b.heldCash[a]
      BY <1>0, <2>1 DEF RiskBook
    <3> QED BY <3>0, <3>1, <3>2, <3>3
  <2>7. \A ln \in AccountId \X Instrument :
          c.heldPosition[ln] = UnitsPromised(c, ln) /\ c.heldPosition[ln] <= c.position[ln]
    <3> SUFFICES ASSUME NEW ln \in AccountId \X Instrument
                 PROVE  c.heldPosition[ln] = UnitsPromised(c, ln) /\ c.heldPosition[ln] <= c.position[ln]
      OBVIOUS
    <3>1. UnitsPromised(c, ln) = UnitsPromised(b, ln) + 0
      BY <1>0, <1>1, <1>3, <2>2, <2>3, UnitsPromisedChanges
    <3>2. b.heldPosition[ln] = UnitsPromised(b, ln) /\ b.heldPosition[ln] <= b.position[ln] /\ b.heldPosition[ln] \in Int
      BY <1>0 DEF BookSound, PromisedOnce, RiskBook
    <3>3. c.position = b.position /\ c.heldPosition = b.heldPosition
      BY <2>1
    <3> QED BY <3>1, <3>2, <3>3
  <2>8. c.cash = b.cash /\ c.position = b.position
    BY <2>1
  <2> QED BY <1>2, <2>3, <2>5, <2>6, <2>7, <2>8 DEF BookSound, PromisedOnce
<1>6. CASE order.side = "Sell"
  <2>0. CashFor(order) = 0 /\ UnitsFor(order) = order.quantity /\ order.quantity \in Nat
    BY <1>1, <1>4, <1>6 DEF CashFor, UnitsFor, ReservedOrder
  <2>2. b.heldPosition[Line(key)] >= order.quantity
    BY <1>0, <1>1, <2>0, PromiseIsPart DEF BookSound, PromisedOnce
  <2>1. c = [b EXCEPT !.orders = [b.orders EXCEPT ![key] = Nil],
                      !.heldPosition = [b.heldPosition EXCEPT ![Line(key)] = @ - order.quantity]]
    BY <1>0, <1>1, <1>2, <1>6, <2>2 DEF WithoutReservation, RiskBook
  <2>3. c \in RiskBook /\ c.orders = [b.orders EXCEPT ![key] = Nil]
    <3>1. [b.heldPosition EXCEPT ![Line(key)] = @ - order.quantity] \in [AccountId \X Instrument -> Int]
      BY <1>0, <2>0, <2>1 DEF RiskBook
    <3>2. [b.orders EXCEPT ![key] = Nil] \in [Key -> ReservedOrder \cup {Nil}]
      BY <1>0, <2>0, <2>1 DEF RiskBook
    <3> QED BY <1>0, <2>1, <3>1, <3>2 DEF RiskBook
  <2>5. ValuesExact(c) /\ c.orders[key] = Nil
    BY <1>0, <1>1, <2>3 DEF BookSound, ValuesExact, RiskBook
  <2>6. \A a \in AccountId : c.heldCash[a] = CashPromised(c, a) /\ c.heldCash[a] <= c.cash[a]
    <3> SUFFICES ASSUME NEW a \in AccountId
                 PROVE  c.heldCash[a] = CashPromised(c, a) /\ c.heldCash[a] <= c.cash[a]
      OBVIOUS
    <3>1. CashPromised(c, a) = CashPromised(b, a) + 0
      BY <1>0, <1>1, <1>3, <2>0, <2>3, CashPromisedChanges
    <3>2. b.heldCash[a] = CashPromised(b, a) /\ b.heldCash[a] <= b.cash[a] /\ b.heldCash[a] \in Int
      BY <1>0 DEF BookSound, PromisedOnce, RiskBook
    <3>3. c.cash = b.cash /\ c.heldCash = b.heldCash
      BY <2>1
    <3> QED BY <3>1, <3>2, <3>3
  <2>7. \A ln \in AccountId \X Instrument :
          c.heldPosition[ln] = UnitsPromised(c, ln) /\ c.heldPosition[ln] <= c.position[ln]
    <3> SUFFICES ASSUME NEW ln \in AccountId \X Instrument
                 PROVE  c.heldPosition[ln] = UnitsPromised(c, ln) /\ c.heldPosition[ln] <= c.position[ln]
      OBVIOUS
    <3>1. UnitsPromised(c, ln) = UnitsPromised(b, ln) + IF Line(key) = ln THEN 0 - order.quantity ELSE 0
      BY <1>0, <1>1, <1>3, <2>0, <2>3, UnitsPromisedChanges
    <3>2. b.heldPosition[ln] = UnitsPromised(b, ln) /\ b.heldPosition[ln] <= b.position[ln] /\ b.heldPosition[ln] \in Int
          /\ b.position[ln] \in Int
      BY <1>0 DEF BookSound, PromisedOnce, RiskBook
    <3>3. c.position = b.position /\ c.heldPosition[ln] = IF Line(key) = ln THEN b.heldPosition[ln] - order.quantity ELSE b.heldPosition[ln]
      BY <1>0, <2>1 DEF RiskBook
    <3> QED BY <2>0, <3>1, <3>2, <3>3
  <2>8. c.cash = b.cash /\ c.position = b.position
    BY <2>1
  <2> QED BY <1>2, <2>3, <2>5, <2>6, <2>7, <2>8 DEF BookSound, PromisedOnce
<1> QED BY <1>1, <1>4, <1>5, <1>6 DEF ReservedOrder, Side

\* What a fill leaves of an order.
LEMMA RestTypes ==
  ASSUME NEW order \in ReservedOrder, NEW q \in Nat, q <= order.quantity, NEW value \in Nat,
         NEW f, f.quantity = q
  PROVE  /\ Rest(order, f, value) \in ReservedOrder \cup {Nil}
         /\ order.quantity = q => Rest(order, f, value) = Nil
         /\ order.quantity # q =>
              /\ Rest(order, f, value) # Nil
              /\ Rest(order, f, value).side = order.side
              /\ Rest(order, f, value).price = order.price
              /\ Rest(order, f, value).quantity = order.quantity - q
              /\ Rest(order, f, value).value = value
<1>1. CASE order.quantity = q
  BY <1>1 DEF Rest
<1>2. CASE order.quantity # q
  <2>1. Rest(order, f, value) =
          [side |-> order.side, price |-> order.price, quantity |-> order.quantity - q, value |-> value]
    BY <1>2 DEF Rest, ReservedOrder
  <2>2. order.quantity - q \in Nat
    BY <1>2 DEF ReservedOrder
  <2>3. Rest(order, f, value) \in ReservedOrder
    BY <2>1, <2>2 DEF ReservedOrder
  <2> QED BY <1>2, <2>1, <2>3, RiskAssumption DEF ReservedOrder, Side
<1> QED BY <1>1, <1>2

\* A function that grows at one place.
LEMMA PlusAt ==
  ASSUME NEW S, NEW g \in [S -> Int], NEW x \in S, NEW d \in Int
  PROVE  /\ [g EXCEPT ![x] = @ + d] \in [S -> Int]
         /\ \A y \in S : [g EXCEPT ![x] = @ + d][y] = g[y] + IF x = y THEN d ELSE 0
OBVIOUS

\* A function that shrinks at one place.
LEMMA MinusAt ==
  ASSUME NEW S, NEW g \in [S -> Int], NEW x \in S, NEW d \in Int
  PROVE  /\ [g EXCEPT ![x] = @ - d] \in [S -> Int]
         /\ \A y \in S : [g EXCEPT ![x] = @ - d][y] = g[y] - IF x = y THEN d ELSE 0
OBVIOUS

\* What a matching engine reports of two reserved orders.
IsFill(b, f) ==
  /\ f.buy \in Key /\ f.sell \in Key /\ f.buy[2] = f.sell[2]
  /\ b.orders[f.buy] # Nil /\ b.orders[f.buy].side = "Buy"
  /\ b.orders[f.sell] # Nil /\ b.orders[f.sell].side = "Sell"
  /\ f.price \in Nat /\ f.price <= b.orders[f.buy].price
  /\ f.quantity \in Nat /\ f.quantity >= 1
  /\ f.quantity <= b.orders[f.buy].quantity /\ f.quantity <= b.orders[f.sell].quantity

\* What a fill costs, and what it leaves of both orders.
LEMMA FillParts ==
  ASSUME NEW b, BookSound(b), NEW f, IsFill(b, f)
  PROVE  /\ Notional(f) \in Nat /\ ReservedBuy(b, f) \in Nat /\ Notional(f) <= ReservedBuy(b, f)
         /\ RestOfBuy(b, f) \in ReservedOrder \cup {Nil}
         /\ RestOfSell(b, f) \in ReservedOrder \cup {Nil}
         /\ RestOfBuy(b, f) # Nil => RestOfBuy(b, f).side = "Buy"
              /\ RestOfBuy(b, f).value = RestOfBuy(b, f).price * RestOfBuy(b, f).quantity
         /\ RestOfSell(b, f) # Nil => RestOfSell(b, f).side = "Sell"
         /\ CashFor(RestOfBuy(b, f)) = CashFor(b.orders[f.buy]) - ReservedBuy(b, f)
         /\ UnitsFor(RestOfSell(b, f)) = UnitsFor(b.orders[f.sell]) - f.quantity
         /\ UnitsFor(RestOfBuy(b, f)) = 0 /\ UnitsFor(b.orders[f.buy]) = 0
         /\ CashFor(RestOfSell(b, f)) = 0 /\ CashFor(b.orders[f.sell]) = 0
<1>1. PICK o : o = b.orders[f.buy]
  OBVIOUS
<1>2. PICK s : s = b.orders[f.sell]
  OBVIOUS
<1>3. PICK q : q = f.quantity
  OBVIOUS
<1>4. o \in ReservedOrder /\ s \in ReservedOrder /\ q \in Nat /\ q >= 1 /\ q <= o.quantity /\ q <= s.quantity
      /\ o.side = "Buy" /\ s.side = "Sell" /\ f.price \in Nat /\ f.price <= o.price /\ o # Nil /\ s # Nil
  BY <1>1, <1>2, <1>3 DEF IsFill, BookSound, RiskBook
<1>5. o.price \in Nat /\ o.quantity \in Nat /\ s.quantity \in Nat
  BY <1>4 DEF ReservedOrder
<1>6. o.price * q \in Nat /\ f.price * q \in Nat /\ f.price * q <= o.price * q
  <2>1. \A x, y, z \in Nat : x <= y => x * z \in Nat /\ y * z \in Nat /\ x * z <= y * z
    OBVIOUS
  <2> QED BY <1>4, <1>5, <2>1
<1>7. /\ o.quantity - q \in Nat /\ o.price * (o.quantity - q) \in Nat
      /\ o.price * (o.quantity - q) = o.price * o.quantity - o.price * q
      /\ o.price * o.quantity \in Nat
  <2>1. \A x, y, z \in Nat : x >= z => x - z \in Nat /\ y * (x - z) \in Nat /\ y * x \in Nat
                                       /\ y * (x - z) = y * x - y * z
    OBVIOUS
  <2> QED BY <1>4, <1>5, <2>1
<1>8. Notional(f) = f.price * q /\ ReservedBuy(b, f) = o.price * q
  BY <1>1, <1>3 DEF Notional, ReservedBuy
<1>9. PICK ro : ro = Rest(o, f, o.price * (o.quantity - q))
  OBVIOUS
<1>10. PICK rs : rs = Rest(s, f, s.quantity - q)
  OBVIOUS
<1>11. RestOfBuy(b, f) = ro /\ RestOfSell(b, f) = rs
  BY <1>1, <1>2, <1>3, <1>9, <1>10 DEF RestOfBuy, RestOfSell
<1>12. s.quantity - q \in Nat
  BY <1>4, <1>5
<1>13. /\ ro \in ReservedOrder \cup {Nil}
       /\ o.quantity = q => ro = Nil
       /\ o.quantity # q => ro # Nil /\ ro.side = "Buy" /\ ro.price = o.price
                            /\ ro.quantity = o.quantity - q /\ ro.value = o.price * (o.quantity - q)
  BY <1>3, <1>4, <1>7, <1>9, RestTypes
<1>14. /\ rs \in ReservedOrder \cup {Nil}
       /\ s.quantity = q => rs = Nil
       /\ s.quantity # q => rs # Nil /\ rs.side = "Sell" /\ rs.quantity = s.quantity - q
  BY <1>3, <1>4, <1>12, <1>10, RestTypes
<1>15. CashFor(o) = o.price * o.quantity /\ UnitsFor(o) = 0 /\ UnitsFor(s) = s.quantity /\ CashFor(s) = 0
  BY <1>4 DEF CashFor, UnitsFor
<1>16. CashFor(ro) = o.price * o.quantity - o.price * q /\ UnitsFor(ro) = 0
  <2>1. CASE o.quantity = q
    BY <1>6, <1>13, <2>1 DEF CashFor, UnitsFor
  <2>2. CASE o.quantity # q
    BY <1>7, <1>13, <2>2 DEF CashFor, UnitsFor
  <2> QED BY <2>1, <2>2
<1>17. UnitsFor(rs) = s.quantity - q /\ CashFor(rs) = 0
  <2>1. CASE s.quantity = q
    BY <1>5, <1>14, <2>1 DEF CashFor, UnitsFor
  <2>2. CASE s.quantity # q
    BY <1>14, <2>2 DEF CashFor, UnitsFor
  <2> QED BY <2>1, <2>2
<1> QED BY <1>1, <1>2, <1>3, <1>6, <1>8, <1>11, <1>13, <1>14, <1>15, <1>16, <1>17

\* The book after a fill that went all the way.
LEMMA FillKeeps ==
  ASSUME NEW b, BookSound(b), NEW f, IsFill(b, f)
  PROVE  LET c == ReservationsReduced(SellerDelivers(BuyerPays(b, f), f), f)
         IN  /\ BookSound(c)
             /\ c.cash = [[b.cash EXCEPT ![Owner(f.buy)] = @ - Notional(f)]
                            EXCEPT ![Owner(f.sell)] = @ + Notional(f)]
             /\ c.position = [[b.position EXCEPT ![Line(f.buy)] = @ + f.quantity]
                                EXCEPT ![Line(f.sell)] = @ - f.quantity]
<1>0. b \in RiskBook
  BY DEF BookSound
<1>1. PICK B, S, Lb, Ls, n, r, q, ro, rs :
        /\ B = Owner(f.buy) /\ S = Owner(f.sell) /\ Lb = Line(f.buy) /\ Ls = Line(f.sell)
        /\ n = Notional(f) /\ r = ReservedBuy(b, f) /\ q = f.quantity
        /\ ro = RestOfBuy(b, f) /\ rs = RestOfSell(b, f)
  OBVIOUS
<1>2. B \in AccountId /\ S \in AccountId /\ Lb \in AccountId \X Instrument /\ Ls \in AccountId \X Instrument
      /\ f.buy \in Key /\ f.sell \in Key /\ f.buy # f.sell
  BY <1>1, KeyParts DEF IsFill
<1>3. /\ n \in Nat /\ r \in Nat /\ n <= r /\ q \in Nat
      /\ ro \in ReservedOrder \cup {Nil} /\ rs \in ReservedOrder \cup {Nil}
      /\ ro # Nil => ro.side = "Buy" /\ ro.value = ro.price * ro.quantity
      /\ rs # Nil => rs.side = "Sell"
      /\ CashFor(ro) = CashFor(b.orders[f.buy]) - r
      /\ UnitsFor(rs) = UnitsFor(b.orders[f.sell]) - q
      /\ UnitsFor(ro) = 0 /\ UnitsFor(b.orders[f.buy]) = 0
      /\ CashFor(rs) = 0 /\ CashFor(b.orders[f.sell]) = 0
  <2>1. f.quantity \in Nat
    BY DEF IsFill
  <2> QED BY <1>1, <2>1, FillParts, Zenon
<1>4. PICK paid, cash, heldCash, received, position, heldPosition, once, orders :
        /\ paid = [b.cash EXCEPT ![B] = @ - n]
        /\ cash = [paid EXCEPT ![S] = @ + n]
        /\ heldCash = [b.heldCash EXCEPT ![B] = @ - r]
        /\ received = [b.position EXCEPT ![Lb] = @ + q]
        /\ position = [received EXCEPT ![Ls] = @ - q]
        /\ heldPosition = [b.heldPosition EXCEPT ![Ls] = @ - q]
        /\ once = [b.orders EXCEPT ![f.buy] = ro]
        /\ orders = [once EXCEPT ![f.sell] = rs]
  OBVIOUS
<1>5. PICK c : c = ReservationsReduced(SellerDelivers(BuyerPays(b, f), f), f)
  OBVIOUS
<1>6. c = [cash |-> cash, heldCash |-> heldCash, position |-> position,
           heldPosition |-> heldPosition, orders |-> orders]
  <2>1. PICK p : p = BuyerPays(b, f)
    OBVIOUS
  <2>2. p = [cash |-> paid, heldCash |-> heldCash,
             position |-> received,
             heldPosition |-> b.heldPosition, orders |-> b.orders]
    BY <1>0, <1>1, <1>4, <2>1 DEF BuyerPays, RiskBook
  <2>3. PICK d : d = SellerDelivers(p, f)
    OBVIOUS
  <2>4. d = [cash |-> cash, heldCash |-> heldCash, position |-> position,
             heldPosition |-> heldPosition, orders |-> b.orders]
    BY <1>1, <1>4, <2>2, <2>3 DEF SellerDelivers
  <2>5. RestOfBuy(d, f) = ro /\ RestOfSell(d, f) = rs
    BY <1>1, <2>4 DEF RestOfBuy, RestOfSell
  <2>6. c = [d EXCEPT !.orders[f.buy] = ro, !.orders[f.sell] = rs]
    BY <1>5, <2>1, <2>3, <2>5 DEF ReservationsReduced
  <2> QED BY <1>4, <2>4, <2>6
<1>7. /\ \A a \in AccountId : b.cash[a] \in Int /\ b.heldCash[a] \in Int
      /\ \A ln \in AccountId \X Instrument : b.position[ln] \in Int /\ b.heldPosition[ln] \in Int
      /\ DOMAIN b.cash = AccountId /\ DOMAIN b.heldCash = AccountId
      /\ DOMAIN b.position = AccountId \X Instrument /\ DOMAIN b.heldPosition = AccountId \X Instrument
      /\ DOMAIN b.orders = Key
  BY <1>0 DEF RiskBook
<1>8. /\ cash \in [AccountId -> Int] /\ heldCash \in [AccountId -> Int]
      /\ \A a \in AccountId : cash[a] = b.cash[a] - (IF B = a THEN n ELSE 0) + (IF S = a THEN n ELSE 0)
  <2>1. n \in Int /\ r \in Int /\ b.cash \in [AccountId -> Int] /\ b.heldCash \in [AccountId -> Int]
    BY <1>0, <1>3 DEF RiskBook
  <2>2. paid \in [AccountId -> Int] /\ \A a \in AccountId : paid[a] = b.cash[a] - (IF B = a THEN n ELSE 0)
    BY <1>2, <1>4, <2>1, MinusAt
  <2>3. cash \in [AccountId -> Int] /\ \A a \in AccountId : cash[a] = paid[a] + (IF S = a THEN n ELSE 0)
    BY <1>2, <1>4, <2>1, <2>2, PlusAt
  <2>4. heldCash \in [AccountId -> Int]
    BY <1>2, <1>4, <2>1, MinusAt
  <2> QED BY <2>2, <2>3, <2>4
<1>9. /\ position \in [AccountId \X Instrument -> Int]
      /\ heldPosition \in [AccountId \X Instrument -> Int]
      /\ \A ln \in AccountId \X Instrument :
           position[ln] = b.position[ln] + (IF Lb = ln THEN q ELSE 0) - (IF Ls = ln THEN q ELSE 0)
  <2>0. PICK L : L = AccountId \X Instrument
    OBVIOUS
  <2>1. q \in Int /\ b.position \in [L -> Int] /\ b.heldPosition \in [L -> Int] /\ Lb \in L /\ Ls \in L
    BY <1>0, <1>2, <1>3, <2>0 DEF RiskBook
  <2>2. received \in [L -> Int] /\ \A ln \in L : received[ln] = b.position[ln] + (IF Lb = ln THEN q ELSE 0)
    BY <1>4, <2>1, PlusAt
  <2>3. position \in [L -> Int] /\ \A ln \in L : position[ln] = received[ln] - (IF Ls = ln THEN q ELSE 0)
    BY <1>4, <2>1, <2>2, MinusAt
  <2>4. heldPosition \in [L -> Int]
    BY <1>4, <2>1, MinusAt
  <2>5. \A ln \in L :
          position[ln] = b.position[ln] + (IF Lb = ln THEN q ELSE 0) - (IF Ls = ln THEN q ELSE 0)
    <3> SUFFICES ASSUME NEW ln \in L
                 PROVE  position[ln] = b.position[ln] + (IF Lb = ln THEN q ELSE 0) - (IF Ls = ln THEN q ELSE 0)
      OBVIOUS
    <3>1. position[ln] = received[ln] - (IF Ls = ln THEN q ELSE 0)
      BY <2>3
    <3>2. received[ln] = b.position[ln] + (IF Lb = ln THEN q ELSE 0)
      BY <2>2
    <3>3. b.position[ln] \in Int /\ q \in Int
      BY <2>1
    <3> QED BY <3>1, <3>2, <3>3
  <2> QED BY ONLY <2>0, <2>3, <2>4, <2>5
<1>10. once \in [Key -> ReservedOrder \cup {Nil}] /\ orders \in [Key -> ReservedOrder \cup {Nil}]
  BY <1>0, <1>2, <1>3, <1>4 DEF RiskBook
<1>11. c \in RiskBook
  BY <1>6, <1>8, <1>9, <1>10 DEF RiskBook
<1>12. PICK m : m = [b EXCEPT !.orders = once]
  OBVIOUS
<1>13. m \in RiskBook /\ m.orders = [b.orders EXCEPT ![f.buy] = ro] /\ c.orders = [m.orders EXCEPT ![f.sell] = rs]
       /\ m.orders[f.sell] = b.orders[f.sell]
  BY <1>0, <1>2, <1>4, <1>6, <1>10, <1>12 DEF RiskBook
<1>14. ValuesExact(c)
  <2> SUFFICES ASSUME NEW k \in Key, c.orders[k] # Nil, c.orders[k].side = "Buy"
               PROVE  c.orders[k].value = c.orders[k].price * c.orders[k].quantity
    BY DEF ValuesExact
  <2>1. c.orders[k] = IF k = f.sell THEN rs ELSE IF k = f.buy THEN ro ELSE b.orders[k]
    BY <1>2, <1>4, <1>6, <1>7, <1>10
  <2> QED BY <1>3, <2>1 DEF BookSound, ValuesExact
<1>15. \A a \in AccountId : c.heldCash[a] = CashPromised(c, a) /\ c.heldCash[a] <= c.cash[a]
  <2> SUFFICES ASSUME NEW a \in AccountId
               PROVE  c.heldCash[a] = CashPromised(c, a) /\ c.heldCash[a] <= c.cash[a]
    OBVIOUS
  <2>1. CashPromised(m, a) = CashPromised(b, a)
          + IF B = a THEN CashFor(ro) - CashFor(b.orders[f.buy]) ELSE 0
    BY <1>0, <1>1, <1>2, <1>3, <1>13, CashPromisedChanges
  <2>2. CashPromised(c, a) = CashPromised(m, a)
          + IF S = a THEN CashFor(rs) - CashFor(m.orders[f.sell]) ELSE 0
    <3>1. m \in RiskBook /\ c \in RiskBook /\ c.orders = [m.orders EXCEPT ![f.sell] = rs]
      BY <1>11, <1>13
    <3>2. f.sell \in Key /\ rs \in ReservedOrder \cup {Nil} /\ S = Owner(f.sell)
      BY <1>1, <1>2, <1>3
    <3> QED BY <3>1, <3>2, CashPromisedChanges
  <2>3. CashFor(b.orders[f.buy]) \in Nat
    BY <1>0, <1>2, ForTypes DEF RiskBook
  <2>4. b.heldCash[a] = CashPromised(b, a) /\ b.heldCash[a] <= b.cash[a]
    BY DEF BookSound, PromisedOnce
  <2>5. c.heldCash[a] = IF B = a THEN b.heldCash[a] - r ELSE b.heldCash[a]
    BY <1>2, <1>4, <1>6, <1>7
  <2>6. c.cash[a] = b.cash[a] - (IF B = a THEN n ELSE 0) + (IF S = a THEN n ELSE 0)
    BY <1>6, <1>8
  <2> QED BY <1>3, <1>7, <1>13, <2>1, <2>2, <2>3, <2>4, <2>5, <2>6
<1>16. \A ln \in AccountId \X Instrument :
         c.heldPosition[ln] = UnitsPromised(c, ln) /\ c.heldPosition[ln] <= c.position[ln]
  <2> SUFFICES ASSUME NEW ln \in AccountId \X Instrument
               PROVE  c.heldPosition[ln] = UnitsPromised(c, ln) /\ c.heldPosition[ln] <= c.position[ln]
    OBVIOUS
  <2>1. UnitsPromised(m, ln) = UnitsPromised(b, ln)
          + IF Lb = ln THEN UnitsFor(ro) - UnitsFor(b.orders[f.buy]) ELSE 0
    BY <1>0, <1>1, <1>2, <1>3, <1>13, UnitsPromisedChanges
  <2>2. UnitsPromised(c, ln) = UnitsPromised(m, ln)
          + IF Ls = ln THEN UnitsFor(rs) - UnitsFor(m.orders[f.sell]) ELSE 0
    <3>1. m \in RiskBook /\ c \in RiskBook /\ c.orders = [m.orders EXCEPT ![f.sell] = rs]
      BY <1>11, <1>13
    <3>2. f.sell \in Key /\ rs \in ReservedOrder \cup {Nil} /\ Ls = Line(f.sell)
      BY <1>1, <1>2, <1>3
    <3> QED BY <3>1, <3>2, UnitsPromisedChanges
  <2>3. UnitsFor(b.orders[f.sell]) \in Nat
    BY <1>0, <1>2, ForTypes DEF RiskBook
  <2>4. b.heldPosition[ln] = UnitsPromised(b, ln) /\ b.heldPosition[ln] <= b.position[ln]
    BY DEF BookSound, PromisedOnce
  <2>5. c.heldPosition[ln] = IF Ls = ln THEN b.heldPosition[ln] - q ELSE b.heldPosition[ln]
    BY <1>2, <1>4, <1>6, <1>7
  <2>6. c.position[ln] = b.position[ln] + (IF Lb = ln THEN q ELSE 0) - (IF Ls = ln THEN q ELSE 0)
    BY <1>6, <1>9
  <2> QED BY <1>3, <1>7, <1>13, <2>1, <2>2, <2>3, <2>4, <2>5, <2>6
<1>17. BookSound(c)
  BY <1>11, <1>14, <1>15, <1>16 DEF BookSound, PromisedOnce
<1>18. /\ c.cash = [[b.cash EXCEPT ![Owner(f.buy)] = @ - Notional(f)]
                     EXCEPT ![Owner(f.sell)] = @ + Notional(f)]
       /\ c.position = [[b.position EXCEPT ![Line(f.buy)] = @ + f.quantity]
                         EXCEPT ![Line(f.sell)] = @ - f.quantity]
  BY <1>1, <1>4, <1>6
<1> QED BY <1>5, <1>17, <1>18

RiskTypeOK ==
  /\ funded \in Int /\ credited \in [Instrument -> Int] /\ torn \in BOOLEAN

\* The invariant: until a fill stops half-way, what is reserved is what the
\* resting orders need, is held, and nothing was made or lost.
RiskInv == RiskTypeOK /\ (~torn => BookSound(book) /\ Conserved)

\* No account, no order: the book is sound.
LEMMA RiskInitial == RiskInit => RiskInv
<1> SUFFICES ASSUME RiskInit PROVE RiskInv
  OBVIOUS
<1>1. book \in RiskBook
  BY DEF RiskInit, RiskBook
<1>2. \A key \in Key : book.orders[key] = Nil
  BY DEF RiskInit
<1>3. CashFor(Nil) = 0 /\ UnitsFor(Nil) = 0
  BY DEF CashFor, UnitsFor
<1>4. ASSUME NEW a \in AccountId PROVE CashPromised(book, a) = 0
  <2>1. PICK S : S = {key \in Key : Owner(key) = a}
    OBVIOUS
  <2>2. PICK f : f = [key \in S |-> CashFor(book.orders[key])]
    OBVIOUS
  <2>3. \A x \in S : f[x] = 0
    BY <1>2, <1>3, <2>1, <2>2
  <2>4. SumFunctionOnSet(f, S) = 0
    BY <2>1, <2>3, KeysFinite, SumZero
  <2> QED BY <2>1, <2>2, <2>4 DEF CashPromised, SumFunction
<1>5. ASSUME NEW ln \in AccountId \X Instrument PROVE UnitsPromised(book, ln) = 0
  <2>1. PICK S : S = {key \in Key : Line(key) = ln}
    OBVIOUS
  <2>2. PICK f : f = [key \in S |-> UnitsFor(book.orders[key])]
    OBVIOUS
  <2>3. \A x \in S : f[x] = 0
    BY <1>2, <1>3, <2>1, <2>2
  <2>4. SumFunctionOnSet(f, S) = 0
    BY <2>1, <2>3, KeysFinite, SumZero
  <2> QED BY <2>1, <2>2, <2>4 DEF UnitsPromised, SumFunction
<1>6. BookSound(book)
  BY <1>1, <1>2, <1>4, <1>5 DEF BookSound, ValuesExact, PromisedOnce, RiskInit
<1>7. Conserved
  <2>1. SumFunction(book.cash) = 0
    <3>1. DOMAIN book.cash = AccountId /\ \A a \in AccountId : book.cash[a] = 0
      BY DEF RiskInit
    <3> QED BY <3>1, KeysFinite, SumZero DEF SumFunction
  <2>2. ASSUME NEW i \in Instrument
        PROVE  SumFunction([a \in AccountId |-> book.position[<<a, i>>]]) = 0
    <3>1. PICK f : f = [a \in AccountId |-> book.position[<<a, i>>]]
      OBVIOUS
    <3>2. DOMAIN f = AccountId /\ \A a \in AccountId : f[a] = 0
      BY <3>1 DEF RiskInit
    <3>3. SumFunction(f) = 0
      BY <3>2, KeysFinite, SumZero DEF SumFunction
    <3> QED BY <3>1, <3>3
  <2> QED BY <2>1, <2>2 DEF Conserved, RiskInit
<1>8. RiskTypeOK
  <2>1. credited \in [Instrument -> Int]
    BY DEF RiskInit
  <2>2. funded \in Int
    BY DEF RiskInit
  <2>3. torn \in BOOLEAN
    BY Zenon DEF RiskInit
  <2> QED BY <2>1, <2>2, <2>3, Zenon DEF RiskTypeOK
<1> QED BY <1>6, <1>7, <1>8 DEF RiskInv

\* A step that leaves what accounts hold alone.
LEMMA ConservedStays ==
  ASSUME Conserved, book'.cash = book.cash, book'.position = book.position,
         UNCHANGED <<funded, credited>>
  PROVE  Conserved'
BY DEF Conserved

\* admit keeps the invariant.
LEMMA AdmitKeeps == RiskInv /\ Admit => RiskInv'
<1> SUFFICES ASSUME RiskInv, Admit, ~torn PROVE BookSound(book') /\ Conserved' /\ RiskTypeOK' /\ torn' = torn
  BY DEF RiskInv, Admit, AdmitNew, AdmitCancel, AdmitReplace, RiskTypeOK
<1>1. BookSound(book) /\ Conserved
  BY DEF RiskInv
<1>2. UNCHANGED <<funded, credited, torn>>
  BY DEF Admit, AdmitNew, AdmitCancel, AdmitReplace
<1>3. BookSound(book') /\ book'.cash = book.cash /\ book'.position = book.position
  <2>1. ASSUME NEW key \in Key, NEW side \in Side, NEW p \in Price, NEW q \in Quantity, AdmitNew(key, side, p, q)
        PROVE  BookSound(book') /\ book'.cash = book.cash /\ book'.position = book.position
    BY <1>1, <2>1, ReserveKeeps, RiskAssumption DEF AdmitNew, Reservable
  <2>2. ASSUME NEW key \in Key, AdmitCancel(key)
        PROVE  BookSound(book') /\ book'.cash = book.cash /\ book'.position = book.position
    BY <1>1, <2>2, CancelKeeps DEF AdmitCancel
  <2>3. ASSUME NEW key \in Key, NEW newKey \in Key, NEW side \in Side, NEW p \in Price, NEW q \in Quantity,
               AdmitReplace(key, newKey, side, p, q)
        PROVE  BookSound(book') /\ book'.cash = book.cash /\ book'.position = book.position
    <3>1. PICK c : c = WithoutReservation(book, key)
      OBVIOUS
    <3>2. BookSound(c) /\ c.cash = book.cash /\ c.position = book.position
      BY <1>1, <2>3, <3>1, CancelKeeps DEF AdmitReplace
    <3>3. book' = IF Reservable(c, newKey, side, p, q) THEN WithReservation(c, newKey, side, p, q) ELSE c
      BY <2>3, <3>1 DEF AdmitReplace
    <3>4. CASE Reservable(c, newKey, side, p, q)
      BY <3>2, <3>3, <3>4, ReserveKeeps, RiskAssumption DEF Reservable
    <3> QED BY <3>2, <3>3, <3>4
  <2> QED BY <2>1, <2>2, <2>3 DEF Admit
<1> QED BY <1>1, <1>2, <1>3, ConservedStays DEF RiskTypeOK, RiskInv

\* The value of one key of a sum grows.
LEMMA SumGrown ==
  ASSUME NEW S, IsFiniteSet(S), NEW g \in [S -> Int], NEW x \in S, NEW d \in Int,
         NEW h \in [S -> Int], \A z \in S : h[z] = g[z] + IF x = z THEN d ELSE 0
  PROVE  SumFunction(h) = SumFunction(g) + d
<1>1. \A z \in S : g[z] \in Int /\ h[z] \in Int
  OBVIOUS
<1>2. \A z \in S \ {x} : h[z] = g[z]
  OBVIOUS
<1>3. SumFunctionOnSet(h, S) = SumFunctionOnSet(g, S) - g[x] + h[x]
  BY <1>1, <1>2, SumChanged
<1>4. SumFunctionOnSet(g, S) \in Int
  BY <1>1, SumType
<1>5. h[x] = g[x] + d /\ DOMAIN h = S /\ DOMAIN g = S
  OBVIOUS
<1> QED BY <1>1, <1>3, <1>4, <1>5 DEF SumFunction

\* A book whose reservations stay while its accounts get more.
LEMMA RicherBook ==
  ASSUME NEW b, BookSound(b), NEW c \in RiskBook, c.heldCash = b.heldCash,
         c.heldPosition = b.heldPosition, c.orders = b.orders,
         \A a \in AccountId : c.cash[a] >= b.cash[a],
         \A ln \in AccountId \X Instrument : c.position[ln] >= b.position[ln]
  PROVE  BookSound(c)
<1>1. /\ \A a \in AccountId : b.heldCash[a] = CashPromised(b, a) /\ b.heldCash[a] <= b.cash[a]
      /\ \A ln \in AccountId \X Instrument :
           b.heldPosition[ln] = UnitsPromised(b, ln) /\ b.heldPosition[ln] <= b.position[ln]
  BY DEF BookSound, PromisedOnce
<1>2. /\ \A a \in AccountId : b.heldCash[a] \in Int /\ b.cash[a] \in Int /\ c.cash[a] \in Int
      /\ \A ln \in AccountId \X Instrument :
           b.heldPosition[ln] \in Int /\ b.position[ln] \in Int /\ c.position[ln] \in Int
  BY DEF BookSound, RiskBook
<1>3. (\A a : CashPromised(c, a) = CashPromised(b, a)) /\ (\A ln : UnitsPromised(c, ln) = UnitsPromised(b, ln))
  BY DEF CashPromised, UnitsPromised
<1>4. \A a \in AccountId : c.heldCash[a] <= c.cash[a]
  BY <1>1, <1>2
<1>5. \A ln \in AccountId \X Instrument : c.heldPosition[ln] <= c.position[ln]
  BY <1>1, <1>2
<1>6. PromisedOnce(c)
  BY <1>1, <1>3, <1>4, <1>5 DEF PromisedOnce
<1>7. ValuesExact(c)
  BY DEF BookSound, ValuesExact
<1> QED BY <1>6, <1>7 DEF BookSound

\* fund adds to an account what it adds to the cash there is.
LEMMA FundKeeps ==
  ASSUME NEW a \in AccountId, NEW amount \in Amount, Fund(a, amount), RiskTypeOK, BookSound(book), Conserved
  PROVE  BookSound(book') /\ Conserved'
<1>1. amount \in Nat /\ book \in RiskBook
  BY RiskAssumption DEF BookSound
<1>2. PICK cash : cash = [book.cash EXCEPT ![a] = @ + amount]
  OBVIOUS
<1>3. book.cash \in [AccountId -> Int]
  BY <1>1 DEF RiskBook
<1>4. cash \in [AccountId -> Int]
      /\ \A z \in AccountId : cash[z] = book.cash[z] + IF a = z THEN amount ELSE 0
  BY <1>1, <1>2, <1>3, PlusAt
<1>5. book' = [cash |-> cash, heldCash |-> book.heldCash, position |-> book.position,
               heldPosition |-> book.heldPosition, orders |-> book.orders]
  BY <1>1, <1>2 DEF Fund, RiskBook
<1>6. book' \in RiskBook
  BY <1>1, <1>4, <1>5 DEF RiskBook
<1>7. BookSound(book')
  <2>1. \A z \in AccountId : book'.cash[z] >= book.cash[z]
    BY <1>1, <1>3, <1>4, <1>5
  <2>2. \A ln \in AccountId \X Instrument : book'.position[ln] >= book.position[ln]
    BY <1>1, <1>5 DEF RiskBook
  <2>3. book'.heldCash = book.heldCash /\ book'.heldPosition = book.heldPosition /\ book'.orders = book.orders
    BY <1>5
  <2> QED BY <1>6, <2>1, <2>2, <2>3, RicherBook
<1>8. SumFunction(cash) = SumFunction(book.cash) + amount
  <2>1. IsFiniteSet(AccountId) /\ amount \in Int
    BY <1>1, KeysFinite
  <2>2. PICK before : before = book.cash
    OBVIOUS
  <2>3. cash \in [AccountId -> Int] /\ before \in [AccountId -> Int] /\ a \in AccountId
    BY <1>3, <1>4, <2>2
  <2>4. \A z \in AccountId : cash[z] = before[z] + IF a = z THEN amount ELSE 0
    BY <1>4, <2>2
  <2>5. SumFunction(cash) = SumFunction(before) + amount
    BY ONLY <2>1, <2>3, <2>4, SumGrown
  <2> QED BY <2>2, <2>5
<1> QED BY <1>5, <1>7, <1>8 DEF Conserved, Fund

\* What accounts hold of one instrument, when one line changes.
LEMMA HeldOf ==
  ASSUME NEW p \in [AccountId \X Instrument -> Int], NEW i \in Instrument
  PROVE  [a \in AccountId |-> p[<<a, i>>]] \in [AccountId -> Int]
OBVIOUS

\* credit_position adds to a line what it adds to the units there are.
LEMMA CreditKeeps ==
  ASSUME NEW a \in AccountId, NEW i \in Instrument, NEW amount \in Amount, CreditPosition(a, i, amount),
         RiskTypeOK, BookSound(book), Conserved
  PROVE  BookSound(book') /\ Conserved' /\ RiskTypeOK'
<1>1. amount \in Nat /\ book \in RiskBook /\ <<a, i>> \in AccountId \X Instrument
  BY RiskAssumption DEF BookSound
<1>2. PICK position : position = [book.position EXCEPT ![<<a, i>>] = @ + amount]
  OBVIOUS
<1>3. PICK L : L = AccountId \X Instrument
  OBVIOUS
<1>4. book.position \in [L -> Int]
  BY <1>1, <1>3 DEF RiskBook
<1>5. position \in [L -> Int]
      /\ \A z \in L : position[z] = book.position[z] + IF <<a, i>> = z THEN amount ELSE 0
  <2>1. PICK ln : ln = <<a, i>>
    OBVIOUS
  <2>2. amount \in Int /\ ln \in L
    BY <1>1, <1>3, <2>1
  <2>3. position = [book.position EXCEPT ![ln] = @ + amount]
    BY <1>2, <2>1
  <2>4. position \in [L -> Int] /\ \A z \in L : position[z] = book.position[z] + IF ln = z THEN amount ELSE 0
    BY ONLY <1>4, <2>2, <2>3, PlusAt
  <2> QED BY <2>1, <2>4
<1>6. book' = [cash |-> book.cash, heldCash |-> book.heldCash, position |-> position,
               heldPosition |-> book.heldPosition, orders |-> book.orders]
  BY <1>1, <1>2 DEF CreditPosition, RiskBook
<1>7. book' \in RiskBook
  BY <1>1, <1>3, <1>5, <1>6 DEF RiskBook
<1>8. BookSound(book')
  <2>1. \A z \in AccountId : book'.cash[z] >= book.cash[z]
    BY <1>1, <1>6 DEF RiskBook
  <2>2. \A z \in L : book.position[z] \in Int
    BY <1>4
  <2>3. \A z \in L : book'.position[z] >= book.position[z]
    BY <1>1, <1>5, <1>6, <2>2
  <2>4. book'.heldCash = book.heldCash /\ book'.heldPosition = book.heldPosition /\ book'.orders = book.orders
    BY <1>6
  <2> QED BY <1>3, <1>7, <2>1, <2>3, <2>4, RicherBook
<1>9. ASSUME NEW j \in Instrument
      PROVE  SumFunction([z \in AccountId |-> position[<<z, j>>]]) = credited'[j]
  <2>1. PICK g, h : g = [z \in AccountId |-> book.position[<<z, j>>]] /\ h = [z \in AccountId |-> position[<<z, j>>]]
    OBVIOUS
  <2>2. g \in [AccountId -> Int] /\ h \in [AccountId -> Int]
    BY <1>3, <1>4, <1>5, <2>1, HeldOf
  <2>3. PICK d : d = IF i = j THEN amount ELSE 0
    OBVIOUS
  <2>4. d \in Int
    BY <1>1, <2>3
  <2>5. \A z \in AccountId : h[z] = g[z] + IF a = z THEN d ELSE 0
    <3> SUFFICES ASSUME NEW z \in AccountId PROVE h[z] = g[z] + IF a = z THEN d ELSE 0
      OBVIOUS
    <3>1. <<z, j>> \in L /\ (<<a, i>> = <<z, j>> <=> a = z /\ i = j)
      BY <1>3
    <3>2. position[<<z, j>>] = book.position[<<z, j>>] + IF <<a, i>> = <<z, j>> THEN amount ELSE 0
      BY <1>5, <3>1
    <3>3. h[z] = position[<<z, j>>] /\ g[z] = book.position[<<z, j>>]
      BY <2>1
    <3> QED BY <2>3, <3>1, <3>2, <3>3
  <2>6. SumFunction(h) = SumFunction(g) + d
    BY <2>2, <2>4, <2>5, KeysFinite, SumGrown
  <2>7. SumFunction(g) = credited[j]
    BY <2>1 DEF Conserved
  <2>8. credited'[j] = credited[j] + d
    BY <1>1, <2>3 DEF RiskTypeOK, CreditPosition
  <2> QED BY <2>1, <2>6, <2>7, <2>8
<1>10. Conserved'
  <2>1. SumFunction(book'.cash) = funded'
    BY <1>6 DEF Conserved, CreditPosition
  <2>2. book'.position = position
    BY <1>6
  <2> QED BY <1>9, <2>1, <2>2 DEF Conserved
<1>11. RiskTypeOK'
  BY <1>1 DEF RiskTypeOK, CreditPosition
<1> QED BY <1>8, <1>10, <1>11

\* Creating, freezing, limiting and funding accounts keep the invariant.
LEMMA ConfigureKeeps == RiskInv /\ Configure => RiskInv'
<1> SUFFICES ASSUME RiskInv, NEW a \in AccountId,
                    \/ CreateAccount(a)
                    \/ \E s \in Inactive \cup {"Active"} : SetStatus(a, s)
                    \/ \E l \in Limits : SetLimits(a, l)
                    \/ \E amount \in Amount : Fund(a, amount)
                    \/ \E amount \in Amount, i \in Instrument : CreditPosition(a, i, amount)
             PROVE  RiskInv'
  BY DEF Configure
<1>1. CASE \/ CreateAccount(a)
           \/ \E s \in Inactive \cup {"Active"} : SetStatus(a, s)
           \/ \E l \in Limits : SetLimits(a, l)
  <2>1. UNCHANGED <<book, funded, credited, torn>>
    BY <1>1 DEF CreateAccount, SetStatus, SetLimits
  <2> QED BY <2>1 DEF RiskInv, RiskTypeOK, Conserved
<1>2. ASSUME NEW amount \in Amount, Fund(a, amount) PROVE RiskInv'
  <2>1. RiskTypeOK'
    BY <1>2, RiskAssumption DEF RiskInv, RiskTypeOK, Fund
  <2>2. torn' = torn
    BY <1>2 DEF Fund
  <2> QED BY <1>2, <2>1, <2>2, FundKeeps DEF RiskInv
<1>3. ASSUME NEW amount \in Amount, NEW i \in Instrument, CreditPosition(a, i, amount) PROVE RiskInv'
  <2>1. torn' = torn
    BY <1>3 DEF CreditPosition
  <2>2. RiskTypeOK'
    BY <1>3, RiskAssumption DEF RiskInv, RiskTypeOK, CreditPosition
  <2> QED BY <1>3, <2>1, <2>2, CreditKeeps DEF RiskInv
<1> QED BY <1>1, <1>2, <1>3

\* What the matching engine reports are fills of the two orders.
LEMMA FillsAreFills ==
  ASSUME BookSound(book), NEW buy \in Key, NEW sell \in Key, NEW f \in Fills(buy, sell)
  PROVE  IsFill(book, f)
<1>1. PICK b, s : b = book.orders[buy] /\ s = book.orders[sell]
  OBVIOUS
<1>2. /\ b # Nil /\ s # Nil /\ buy[2] = sell[2]
      /\ b.side = "Buy" /\ s.side = "Sell" /\ s.price <= b.price
      /\ \E p \in {b.price, s.price}, q \in 1..Min({b.quantity, s.quantity}) :
           f = [buy |-> buy, sell |-> sell, price |-> p, quantity |-> q]
  BY <1>1 DEF Fills
<1>3. b \in ReservedOrder /\ s \in ReservedOrder
  BY <1>1, <1>2 DEF BookSound, RiskBook
<1>4. b.price \in Nat /\ b.quantity \in Nat /\ s.price \in Nat /\ s.quantity \in Nat
  BY <1>3 DEF ReservedOrder
<1>5. PICK p \in {b.price, s.price}, q \in 1..Min({b.quantity, s.quantity}) :
        f = [buy |-> buy, sell |-> sell, price |-> p, quantity |-> q]
  BY <1>2
<1>6. /\ Min({b.quantity, s.quantity}) \in {b.quantity, s.quantity}
      /\ Min({b.quantity, s.quantity}) <= b.quantity /\ Min({b.quantity, s.quantity}) <= s.quantity
  <2>1. \A x, y \in Nat : Min({x, y}) \in {x, y} /\ Min({x, y}) <= x /\ Min({x, y}) <= y
    <3> SUFFICES ASSUME NEW x \in Nat, NEW y \in Nat
                 PROVE  Min({x, y}) \in {x, y} /\ Min({x, y}) <= x /\ Min({x, y}) <= y
      OBVIOUS
    <3>1. \E z \in {x, y} : \A w \in {x, y} : w >= z
      <4>1. CASE x <= y
        BY <4>1
      <4>2. CASE y <= x
        BY <4>2
      <4> QED BY <4>1, <4>2
    <3>2. Min({x, y}) \in {x, y} /\ \A w \in {x, y} : w >= Min({x, y})
      BY <3>1 DEF Min
    <3> QED BY <3>2
  <2> QED BY <1>4, <2>1
<1>7. f.buy = buy /\ f.sell = sell /\ f.price = p /\ f.quantity = q
  BY <1>5
<1>8. q \in Nat /\ q >= 1 /\ q <= b.quantity /\ q <= s.quantity
  BY <1>4, <1>6
<1>9. p \in Nat /\ p <= b.price
  BY <1>2, <1>4
<1> QED BY <1>1, <1>2, <1>7, <1>8, <1>9 DEF IsFill

\* apply_fill keeps the invariant, when it goes all the way.
LEMMA FillStep ==
  ASSUME RiskInv, NEW buy \in Key, NEW sell \in Key, NEW f \in Fills(buy, sell), ApplyFill(f)
  PROVE  RiskInv'
<1>1. RiskTypeOK'
  BY DEF RiskInv, RiskTypeOK, ApplyFill
<1>2. SUFFICES ASSUME ~torn' PROVE BookSound(book') /\ Conserved'
  BY <1>1 DEF RiskInv
<1>3. ~torn /\ book' = ReservationsReduced(SellerDelivers(BuyerPays(book, f), f), f)
  BY <1>2 DEF ApplyFill, RiskInv, RiskTypeOK
<1>4. BookSound(book) /\ Conserved /\ IsFill(book, f)
  BY <1>3, FillsAreFills DEF RiskInv
<1>5. UNCHANGED <<funded, credited>>
  BY DEF ApplyFill
<1>6. BookSound(book')
  BY <1>3, <1>4, FillKeeps
<1>7. /\ book'.cash = [[book.cash EXCEPT ![Owner(f.buy)] = @ - Notional(f)]
                         EXCEPT ![Owner(f.sell)] = @ + Notional(f)]
      /\ book'.position = [[book.position EXCEPT ![Line(f.buy)] = @ + f.quantity]
                             EXCEPT ![Line(f.sell)] = @ - f.quantity]
  BY <1>3, <1>4, FillKeeps
<1>8. PICK B, S, n, q : B = Owner(f.buy) /\ S = Owner(f.sell) /\ n = Notional(f) /\ q = f.quantity
  OBVIOUS
<1>9. B \in AccountId /\ S \in AccountId /\ n \in Int /\ q \in Int /\ f.buy \in Key /\ f.sell \in Key
  <2>1. n \in Nat
    BY <1>4, <1>8, FillParts
  <2> QED BY <1>4, <1>8, <2>1, KeyParts DEF IsFill
<1>10. SumFunction(book'.cash) = SumFunction(book.cash)
  <2>1. PICK g, m, h : g = book.cash /\ m = [g EXCEPT ![B] = @ - n] /\ h = [m EXCEPT ![S] = @ + n]
    OBVIOUS
  <2>2. g \in [AccountId -> Int]
    BY <1>4, <2>1 DEF BookSound, RiskBook
  <2>3. m \in [AccountId -> Int] /\ \A z \in AccountId : m[z] = g[z] - (IF B = z THEN n ELSE 0)
    BY <1>9, <2>1, <2>2, MinusAt
  <2>4. h \in [AccountId -> Int] /\ \A z \in AccountId : h[z] = m[z] + (IF S = z THEN n ELSE 0)
    BY <1>9, <2>1, <2>3, PlusAt
  <2>6. SumFunction(h) = SumFunction(g)
    <3>1. IsFiniteSet(AccountId) /\ B \in AccountId /\ S \in AccountId /\ n \in Int
      BY <1>9, KeysFinite
    <3>4. PICK e : e = -n
      OBVIOUS
    <3>5. e \in Int /\ \A z \in AccountId : m[z] = g[z] + IF B = z THEN e ELSE 0
      BY <2>2, <2>3, <3>1, <3>4
    <3>6. SumFunction(m) = SumFunction(g) + e
      BY ONLY <2>2, <2>3, <3>1, <3>5, SumGrown
    <3>7. SumFunction(h) = SumFunction(m) + n
      BY ONLY <3>1, <2>3, <2>4, SumGrown
    <3>8. SumFunction(g) \in Int
      <4>1. DOMAIN g = AccountId /\ \A z \in AccountId : g[z] \in Int
        BY <2>2
      <4> QED BY <4>1, KeysFinite, SumType DEF SumFunction
    <3> QED BY <3>1, <3>4, <3>6, <3>7, <3>8
  <2>7. h = book'.cash
    BY <1>7, <1>8, <2>1
  <2> QED BY <2>1, <2>6, <2>7
<1>11. ASSUME NEW i \in Instrument
       PROVE  SumFunction([a \in AccountId |-> book'.position[<<a, i>>]]) = credited'[i]
  <2>0. PICK L : L = AccountId \X Instrument
    OBVIOUS
  <2>1. PICK p, m, h : p = book.position /\ m = [p EXCEPT ![Line(f.buy)] = @ + q] /\ h = [m EXCEPT ![Line(f.sell)] = @ - q]
    OBVIOUS
  <2>2. Line(f.buy) = <<B, f.buy[2]>> /\ Line(f.sell) = <<S, f.buy[2]>>
        /\ Line(f.buy) \in L /\ Line(f.sell) \in L
    <3>1. f.buy[2] = f.sell[2]
      BY <1>4 DEF IsFill
    <3> QED BY <1>8, <1>9, <2>0, <3>1, KeyParts DEF Line, Owner
  <2>3. p \in [L -> Int]
    BY <1>4, <2>0, <2>1 DEF BookSound, RiskBook
  <2>4. m \in [L -> Int] /\ \A z \in L : m[z] = p[z] + (IF Line(f.buy) = z THEN q ELSE 0)
    <3>1. PICK ln : ln = Line(f.buy)
      OBVIOUS
    <3>2. ln \in L /\ q \in Int /\ m = [p EXCEPT ![ln] = @ + q]
      BY <1>9, <2>1, <2>2, <3>1
    <3>3. m \in [L -> Int] /\ \A z \in L : m[z] = p[z] + (IF ln = z THEN q ELSE 0)
      BY ONLY <2>3, <3>2, PlusAt
    <3> QED BY <3>1, <3>3
  <2>5. h \in [L -> Int] /\ \A z \in L : h[z] = m[z] - (IF Line(f.sell) = z THEN q ELSE 0)
    <3>1. PICK ln : ln = Line(f.sell)
      OBVIOUS
    <3>2. ln \in L /\ q \in Int /\ h = [m EXCEPT ![ln] = @ - q]
      BY <1>9, <2>1, <2>2, <3>1
    <3>3. h \in [L -> Int] /\ \A z \in L : h[z] = m[z] - (IF ln = z THEN q ELSE 0)
      BY ONLY <2>4, <3>2, MinusAt
    <3> QED BY <3>1, <3>3
  <2>6. PICK pi, mi, hi, d : /\ pi = [a \in AccountId |-> p[<<a, i>>]] /\ mi = [a \in AccountId |-> m[<<a, i>>]]
                             /\ hi = [a \in AccountId |-> h[<<a, i>>]]
                         /\ d = IF f.buy[2] = i THEN q ELSE 0
    OBVIOUS
  <2>7. pi \in [AccountId -> Int] /\ mi \in [AccountId -> Int] /\ hi \in [AccountId -> Int] /\ d \in Int
    BY <1>9, <2>0, <2>3, <2>4, <2>5, <2>6, HeldOf
  <2>8. /\ \A z \in AccountId : mi[z] = pi[z] + IF B = z THEN d ELSE 0
        /\ \A z \in AccountId : hi[z] = mi[z] - IF S = z THEN d ELSE 0
    <3> SUFFICES ASSUME NEW z \in AccountId
                 PROVE  /\ mi[z] = pi[z] + IF B = z THEN d ELSE 0
                        /\ hi[z] = mi[z] - IF S = z THEN d ELSE 0
      OBVIOUS
    <3>1. <<z, i>> \in L /\ (Line(f.buy) = <<z, i>> <=> B = z /\ f.buy[2] = i)
                         /\ (Line(f.sell) = <<z, i>> <=> S = z /\ f.buy[2] = i)
      BY <2>0, <2>2
    <3>2. h[<<z, i>>] = m[<<z, i>>] - (IF Line(f.sell) = <<z, i>> THEN q ELSE 0)
      BY <2>5, <3>1
    <3>3. m[<<z, i>>] = p[<<z, i>>] + (IF Line(f.buy) = <<z, i>> THEN q ELSE 0)
      BY <2>4, <3>1
    <3>4. hi[z] = h[<<z, i>>] /\ mi[z] = m[<<z, i>>] /\ pi[z] = p[<<z, i>>]
      BY <2>6
    <3> QED BY <2>6, <3>1, <3>2, <3>3, <3>4
  <2>9. SumFunction(hi) = SumFunction(pi)
    <3>1. SumFunction(mi) = SumFunction(pi) + d
      <4>1. \A z \in AccountId : mi[z] = pi[z] + IF B = z THEN d ELSE 0
        BY <2>8
      <4>2. d \in Int /\ B \in AccountId /\ IsFiniteSet(AccountId)
        BY <1>9, <2>7, KeysFinite
      <4>3. pi \in [AccountId -> Int] /\ mi \in [AccountId -> Int]
        BY <2>7
      <4> QED BY ONLY <4>1, <4>2, <4>3, SumGrown, SMTT(20)
    <3>2. SumFunction(hi) = SumFunction(mi) + (-d)
      <4>1. PICK e : e = -d
        OBVIOUS
      <4>2. \A z \in AccountId : hi[z] = mi[z] + IF S = z THEN e ELSE 0
        BY <2>7, <2>8, <4>1
      <4>3. e \in Int /\ IsFiniteSet(AccountId) /\ S \in AccountId
        BY <1>9, <2>7, <4>1, KeysFinite
      <4>4. mi \in [AccountId -> Int] /\ hi \in [AccountId -> Int]
        BY <2>7
      <4>5. SumFunction(hi) = SumFunction(mi) + e
        BY ONLY <4>2, <4>3, <4>4, SumGrown, SMTT(20)
      <4> QED BY <4>1, <4>5
    <3>3. SumFunction(pi) \in Int
      <4>1. DOMAIN pi = AccountId /\ \A z \in AccountId : pi[z] \in Int
        BY <2>7
      <4> QED BY <4>1, KeysFinite, SumType DEF SumFunction
    <3> QED BY <2>7, <3>1, <3>2, <3>3
  <2>10. h = book'.position
    BY <1>7, <1>8, <2>1
  <2>11. SumFunction(pi) = credited[i]
    BY <1>4, <2>1, <2>6 DEF Conserved
  <2> QED BY <1>5, <2>6, <2>9, <2>10, <2>11
<1>12. Conserved'
  BY <1>4, <1>5, <1>10, <1>11 DEF Conserved
<1> QED BY <1>6, <1>12

\* Every step of the risk engine keeps its invariant.
LEMMA RiskInductive == RiskInv /\ [RiskNext]_riskVars => RiskInv'
<1> SUFFICES ASSUME RiskInv, [RiskNext]_riskVars PROVE RiskInv'
  OBVIOUS
<1>1. CASE RiskNext
  BY <1>1, ConfigureKeeps, AdmitKeeps, FillStep DEF RiskNext
<1>2. CASE UNCHANGED riskVars
  <2>1. UNCHANGED <<book, funded, credited, torn>>
    BY <1>2 DEF riskVars
  <2> QED BY <2>1 DEF RiskInv, RiskTypeOK, Conserved
<1> QED BY <1>1, <1>2

\* Nothing is promised twice: until a fill stops half-way, what is reserved of
\* each account is what its resting orders still need, and the account holds it
\* (reserve, cancel_reservation, apply_fill).
THEOREM PromisedOnceOnly == RiskSpec => []HoldsMatchOrders
<1>1. RiskInv => HoldsMatchOrders
  BY DEF RiskInv, HoldsMatchOrders, BookSound
<1> QED BY <1>1, RiskInitial, RiskInductive, PTL DEF RiskSpec

\* Until a fill stops half-way, the accounts together hold the cash and the
\* units that were paid in, whatever was traded between them (apply_fill).
THEOREM ValueConserved == RiskSpec => []ConservedUnlessTorn
<1>1. RiskInv => ConservedUnlessTorn
  BY DEF RiskInv, ConservedUnlessTorn
<1> QED BY <1>1, RiskInitial, RiskInductive, PTL DEF RiskSpec
===============================================================================
