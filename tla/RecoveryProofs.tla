---------------------------- MODULE RecoveryProofs ---------------------------
(***************************************************************************)
(* For every set of clients, prices and quantities, every size of the pool *)
(* and every number of crashes: the command journal records what the       *)
(* engine admits, and replaying it brings the engine back.                 *)
(*                                                                         *)
(* That each admitted command has its record is a matter of counting: the  *)
(* records that no failed append left are as many as the engine has        *)
(* numbered, and the one of a command in flight is found by its number.    *)
(*                                                                         *)
(* That the engine comes back is said by the history of the journal: the   *)
(* book B[n] that PriceTimeBook makes of the first n commands, and the     *)
(* next order id I[n].  RefinementProofs shows that the engine makes of    *)
(* each command what PriceTimeBook says, so before the crash and after it  *)
(* the engine stands in the same history, whatever slots it uses.  And     *)
(* what accept_command checks, with nothing in flight, can be told from    *)
(* B[n] alone: recovery refuses no command that was accepted there.        *)
(***************************************************************************)
EXTENDS RefinementProofs, DurableEngine

-----------------------------------------------------------------------------
(***************************************************************************)
(* The engine behind the journal is an engine.                             *)
(***************************************************************************)
\* What is written into free slots is nobody's.
LEMMA EngineFrame ==
  ASSUME NEW p, NEW q, NEW bs, NEW next, NEW line, NEW F, NEW R, EngineOK(p, bs, next, line, F, R),
         PoolOK(q, F), \A z \in Slot \ F : q.data[z] = p.data[z]
  PROVE  /\ EngineOK(q, bs, next, line, F, R)
         /\ AllShown(q.data, bs) = AllShown(p.data, bs)
         /\ Same(p.data, q.data, Members(line))
<1>1. PICK data, new, M : data = p.data /\ new = q.data /\ M = Members(line)
  OBVIOUS
<1>2. /\ PoolOK(p, F) /\ next \in Nat /\ DOMAIN bs = Instrument /\ DOMAIN R = Instrument
      /\ bs = [j \in Instrument |-> bs[j]] /\ AllWhole(p, bs, F, R)
      /\ LineOK(data, line, next) /\ Parts(F, M, R) /\ Earlier(data, M, R, next)
      /\ ~KeyReuse => NamesApart(data, M, R)
  BY <1>1 DEF EngineOK, AllWhole
<1>3. M \subseteq Slot \ F
  BY <1>1, <1>2 DEF LineOK, Members, Parts
<1>4. \A j \in Instrument : R[j] \subseteq Slot \ F
  BY <1>2 DEF AllWhole, Whole, BookOK, LevelsOK
<1>5. (\A z \in M : new[z] = data[z]) /\ \A j \in Instrument : \A z \in R[j] : new[z] = data[z]
  BY <1>1, <1>3, <1>4
<1>6. AllWhole(q, bs, F, R)
  <2> SUFFICES ASSUME NEW j \in Instrument PROVE Whole(q, bs[j], j, F, R[j])
    BY DEF AllWhole
  <2>1. PICK book, S : book = bs[j] /\ S = R[j]
    OBVIOUS
  <2>2. Whole(p, book, j, F, S) /\ PoolOK(q, F) /\ (\A z \in S : q.data[z] = p.data[z]) /\ F \cap S = {}
    BY <1>1, <1>2, <1>4, <1>5, <2>1 DEF AllWhole
  <2>3. Whole(q, book, j, F, S)
    BY ONLY <2>2, WholeFrame
  <2> QED BY <2>1, <2>3
<1>7. LineOK(new, line, next)
  <2>1. line \in Seq(Slot) /\ \A k \in DOMAIN line : line[k] \in M
    BY <1>1, <1>2 DEF LineOK, Members
  <2> QED BY <1>1, <1>2, <1>5, <2>1 DEF LineOK
<1>8. Earlier(new, M, R, next)
  BY <1>2, <1>5 DEF Earlier
<1>9. ~KeyReuse => NamesApart(new, M, R)
  <2> SUFFICES ASSUME ~KeyReuse PROVE NamesApart(new, M, R)
    OBVIOUS
  <2>1. \A x \in M : data[x].instrument \in Instrument
    BY <1>1, <1>2 DEF LineOK
  <2> QED BY <1>2, <1>5, <2>1 DEF NamesApart
<1>10. EngineOK(q, bs, next, line, F, R)
  BY <1>1, <1>2, <1>6, <1>7, <1>8, <1>9 DEF EngineOK, AllWhole
<1>11. AllShown(q.data, bs) = AllShown(p.data, bs)
  <2>1. Spared(p, q, Instrument, R, F)
    BY <1>1, <1>4, <1>5 DEF Spared
  <2> QED BY ONLY <1>2, <2>1, PoolOK(q, F), SameShown
<1>12. Same(data, new, M)
  BY <1>5 DEF Same
<1> QED BY <1>1, <1>10, <1>11, <1>12

\* What the engine shows of itself stays as it was.
Unseen ==
  /\ Flying' = Flying /\ Shelved' = Shelved /\ (LineInv => LineInv')
  /\ UNCHANGED <<nextSequence, nextExchangeOrderId, pending, queue>>

\* accept_durable gives back the slot it had taken when the append fails.
LEMMA FailUnseen ==
  ASSUME EngineInv, NEW command \in Command, AppendFails(command)
  PROVE  EngineInv' /\ Unseen /\ Same(pool.data, pool'.data, Members(InFlight))
<1>1. PICK F, R : EngineOK(pool, books, nextSequence, InFlight, F, R)
  BY DEF EngineInv
<1>2. PICK id : id = IF command.kind = "Cancel" THEN 0 ELSE nextExchangeOrderId
  OBVIOUS
<1>3. PICK order : order = [command EXCEPT !.exchangeOrderId = id, !.sequence = nextSequence, !.remaining = command.quantity]
  OBVIOUS
<1>4. id \in Nat /\ nextSequence \in Nat
  BY <1>1, <1>2 DEF EngineInv, EngineOK
<1>5. order \in OrderRecord
  <2>1. Numbered(command, id, nextSequence, order)
    BY ONLY <1>3, <1>4, command \in Command, CommandIsOrder
  <2> QED BY <2>1 DEF Numbered
<1>6. PICK x, p : x = pool.freeHead /\ p = Allocate(pool, order)
  OBVIOUS
<1>7. CanAllocate(pool) /\ pool' = Deallocate(p, x)
  BY <1>2, <1>3, <1>6 DEF AppendFails, CanAdmit, PoolWith
<1>8. UNCHANGED <<books, nextSequence, nextExchangeOrderId, pending, queue, events>>
  BY DEF AppendFails
<1>9. x \in F /\ x \in Slot /\ PoolOK(p, F \ {x}) /\ p.data = [pool.data EXCEPT ![x] = order]
  BY <1>1, <1>5, <1>6, <1>7, AllocateTakes DEF EngineOK
<1>10. PICK q, line, G : q = pool' /\ line = InFlight /\ G = F \ {x}
  OBVIOUS
<1>11. PoolOK(q, G \cup {x}) /\ \A y \in Slot \ {x} : q.data[y] = p.data[y]
  <2>1. PoolOK(p, G) /\ x \in Slot /\ x \notin G /\ q = Deallocate(p, x)
    BY <1>7, <1>9, <1>10
  <2>2. PoolOK(Deallocate(p, x), G \cup {x}) /\ \A y \in Slot \ {x} : Deallocate(p, x).data[y] = p.data[y]
    BY ONLY <2>1, DeallocateGives
  <2> QED BY ONLY <2>1, <2>2
<1>12. PoolOK(q, F) /\ \A y \in Slot \ F : q.data[y] = pool.data[y]
  <2>1. G \cup {x} = F
    BY <1>9, <1>10
  <2>2. \A y \in Slot \ {x} : p.data[y] = pool.data[y]
    <3>1. pool.data \in [Slot -> OrderRecord]
      BY <1>1 DEF EngineOK, PoolOK
    <3> QED BY <1>9, <3>1
  <2> QED BY <1>9, <1>11, <2>1, <2>2
<1>13. /\ EngineOK(q, books, nextSequence, line, F, R)
       /\ AllShown(q.data, books) = AllShown(pool.data, books)
       /\ Same(pool.data, q.data, Members(line))
  <2>1. EngineOK(pool, books, nextSequence, line, F, R)
    BY <1>1, <1>10
  <2> QED BY ONLY <1>12, <2>1, EngineFrame
<1>14. InFlight' = line
  BY <1>8, <1>10 DEF InFlight
<1>15. EngineInv'
  <2>1. EngineOK(pool', books', nextSequence', InFlight', F, R)
    BY <1>8, <1>10, <1>13, <1>14
  <2>2. queue' \in Seq(Slot) /\ pending' \in Seq(Slot) /\ nextExchangeOrderId' \in Nat
    BY <1>8 DEF EngineInv
  <2> QED BY <2>1, <2>2 DEF EngineInv
<1>16. \A s \in Members(line) : pool'.data[s] = pool.data[s]
  BY <1>10, <1>13 DEF Same
<1>17. Flying' = Flying
  <2>1. \A k \in DOMAIN line : Com(pool'.data, line[k]) = Com(pool.data, line[k])
    BY <1>16 DEF Com, Members
  <2> QED BY <1>10, <1>14, <2>1 DEF Flying, Coms
<1>18. Shelved' = Shelved
  BY <1>8, <1>10, <1>13 DEF Shelved
<1>19. ASSUME LineInv PROVE LineInv'
  <2>1. \A s \in Members(line) : Unfilled(pool'.data, s)
    BY <1>10, <1>16, <1>19 DEF LineInv, AllUnfilled, Unfilled
  <2> QED BY <1>14, <2>1 DEF LineInv, AllUnfilled
<1> QED BY <1>8, <1>10, <1>13, <1>15, <1>17, <1>18, <1>19 DEF Unseen

\* The process starts again with an empty engine.
LEMMA InitAgain == Init' => EngineInv'
BY InitEngine, PTL

\* Whatever was in flight is forgotten.
LEMMA DyingForgets ==
  ASSUME NEW idle, Die(idle)
  PROVE  /\ EngineInv' /\ LineInv' /\ queue' = <<>> /\ pending' = <<>>
         /\ Shelved' = {} /\ Flying' = <<>>
<1>1. Init'
  BY DEF Die, Init
<1>2. queue' = <<>> /\ pending' = <<>> /\ books' = [i \in Instrument |-> EmptyBook]
  BY DEF Die
<1>3. InFlight' = <<>>
  BY <1>2 DEF InFlight
<1>4. LineInv' /\ Flying' = <<>>
  BY <1>3 DEF LineInv, AllUnfilled, Members, Flying, Coms
<1>5. Shelved' = {}
  BY <1>2 DEF Shelved, AllShown, Walk, EmptyBook, Side, EmptyFunction
<1> QED BY <1>1, <1>2, <1>4, <1>5, InitAgain

\* The caller processes the first of the slots it was given.
LEMMA CallerServesFirst ==
  ASSUME EngineInv, queue = <<>>, ProcessAccepted
  PROVE  FirstProcessed /\ InFlight = pending /\ InFlight' = pending'
<1>1. pending \in Seq(Slot) /\ pending # <<>>
  BY DEF EngineInv, ProcessAccepted
<1>2. pending' = Tail(pending) /\ queue' = <<>> /\ Process(Head(pending))
  BY DEF ProcessAccepted
<1>3. Tail(pending) \in Seq(Slot) /\ Head(pending) = pending[1] /\ 1 \in DOMAIN pending
  BY <1>1
<1>4. Tail(pending) = Without(pending, 1)
  BY <1>1, <1>3, WithoutIs
<1>5. InFlight = pending /\ InFlight' = pending'
  BY <1>1, <1>2, <1>3 DEF InFlight
<1> QED BY <1>1, <1>2, <1>3, <1>4, <1>5 DEF FirstProcessed

\* What waits behind the first command keeps its place and its slot.
LEMMA OthersStay ==
  ASSUME EngineInv, FirstProcessed
  PROVE  /\ Members(InFlight') \subseteq Members(InFlight) \ {InFlight[1]}
         /\ Same(pool.data, pool'.data, Members(InFlight) \ {InFlight[1]})
<1>1. PICK F, R : EngineOK(pool, books, nextSequence, InFlight, F, R)
  BY DEF EngineInv
<1>2. PICK line, n, rest : line = InFlight /\ n = 1 /\ rest = Without(line, n)
  OBVIOUS
<1>3. PICK idx, i : idx = line[1] /\ i = pool.data[idx].instrument
  OBVIOUS
<1>4. line # <<>> /\ Process(idx) /\ InFlight' = rest
  BY <1>2, <1>3 DEF FirstProcessed
<1>5. line \in Seq(Slot) /\ Distinct(line) /\ LineOK(pool.data, line, nextSequence) /\ Parts(F, Members(line), R)
  BY <1>1, <1>2 DEF EngineOK, LineOK
<1>6. n \in DOMAIN line /\ idx \in Members(line)
  BY <1>2, <1>3, <1>4, <1>5 DEF Members
<1>7. Members(rest) = Members(line) \ {line[n]}
  <2>1. Members(Without(line, n)) = Members(line) \ {line[n]}
    BY ONLY <1>5, <1>6, WithoutShape
  <2> QED BY <1>2, <2>1
<1>8. Outcome(pool, books, i, F, R, idx, books', pool')
  <2>1. EngineOK(pool, books, nextSequence, line, F, R) /\ line # <<>> /\ idx = line[1] /\ Process(idx)
    BY <1>1, <1>2, <1>3, <1>4
  <2> QED BY ONLY <1>3, <2>1, ProcessAbsorbs
<1>9. \A z \in Slot \ (R[i] \cup {idx}) : pool'.data[z] = pool.data[z]
  BY <1>8 DEF Outcome, Absorbed
<1>10. i \in Instrument
  BY <1>3, <1>5, <1>6 DEF LineOK
<1>11. Members(line) \subseteq Slot /\ Members(line) \cap R[i] = {}
  BY <1>5, <1>10 DEF Members, Parts
<1>12. Same(pool.data, pool'.data, Members(line) \ {idx})
  BY <1>9, <1>11 DEF Same
<1> QED BY <1>2, <1>3, <1>4, <1>7, <1>12

\* A command that is admitted joins those in flight, with its number.
Queues(command, x) ==
  /\ Members(pending') \subseteq Members(pending) \cup {x} /\ x \notin Members(pending)
  /\ pool'.data[x].kind = command.kind /\ KeyOf(pool'.data[x]) = KeyOf(command)
  /\ pool'.data[x].sequence = nextSequence /\ nextSequence' = nextSequence + 1 /\ nextSequence \in Nat
  /\ Same(pool.data, pool'.data, Members(pending))

\* accept_command takes the first free slot for it.
LEMMA AdmittedQueues ==
  ASSUME EngineInv, queue = <<>>, NEW command \in Command, Admit(command)
  PROVE  \E x : Queues(command, x)
<1>1. PICK F, R : EngineOK(pool, books, nextSequence, InFlight, F, R)
  BY DEF EngineInv
<1>2. PICK id : id = IF command.kind = "Cancel" THEN 0 ELSE nextExchangeOrderId
  OBVIOUS
<1>3. PICK order : order = [command EXCEPT !.exchangeOrderId = id, !.sequence = nextSequence, !.remaining = command.quantity]
  OBVIOUS
<1>4. id \in Nat /\ nextSequence \in Nat
  BY <1>1, <1>2 DEF EngineInv, EngineOK
<1>5. Numbered(command, id, nextSequence, order)
  BY ONLY <1>3, <1>4, command \in Command, CommandIsOrder
<1>6. PICK x, line, q : x = pool.freeHead /\ line = pending /\ q = Allocate(pool, order)
  OBVIOUS
<1>7. CanAllocate(pool) /\ pool' = q /\ pending' = Append(line, x) /\ nextSequence' = nextSequence + 1
  BY <1>2, <1>3, <1>6 DEF Admit, CanAdmit, PoolWith
<1>8. line \in Seq(Slot) /\ InFlight = line
  BY <1>6 DEF EngineInv, InFlight
<1>9. PoolOK(pool, F) /\ Members(line) \cap F = {}
  BY <1>1, <1>8 DEF EngineOK, Parts
<1>10. x \in F /\ x \in Slot /\ q.data = [pool.data EXCEPT ![x] = order]
  BY <1>5, <1>6, <1>7, <1>9, AllocateTakes DEF Numbered
<1>11. q.data[x] = order /\ \A z : z # x => q.data[z] = pool.data[z]
  <2>1. pool.data \in [Slot -> OrderRecord]
    BY <1>9 DEF PoolOK
  <2> QED BY <1>10, <2>1
<1>12. x \notin Members(line)
  BY <1>9, <1>10
<1>13. Members(Append(line, x)) \subseteq Members(line) \cup {x}
  BY <1>8, <1>10 DEF Members
<1>14. Same(pool.data, q.data, Members(line))
  BY <1>11, <1>12 DEF Same
<1>15. order.kind = command.kind /\ KeyOf(order) = KeyOf(command) /\ order.sequence = nextSequence
  BY <1>5 DEF Numbered, KeyOf
<1> QED BY <1>4, <1>6, <1>7, <1>11, <1>12, <1>13, <1>14, <1>15 DEF Queues

-----------------------------------------------------------------------------
(***************************************************************************)
(* The records of the journal.                                             *)
(***************************************************************************)
\* How many records up to place p are not in l.
RankIn(l, p) == Cardinality((1..p) \ l)

\* Of two of them the later one has the greater rank.
LEMMA RankGrows ==
  ASSUME NEW l, NEW p \in Nat, NEW q \in Nat, p < q, q \notin l
  PROVE  RankIn(l, p) < RankIn(l, q)
<1>1. PICK A, B : A = (1..p) \ l /\ B = (1..q) \ l
  OBVIOUS
<1>2. IsFiniteSet(B)
  <2>1. IsFiniteSet(1..q)
    BY FS_Interval
  <2> QED BY <1>1, <2>1, FS_Subset
<1>3. A \subseteq B /\ q \in B /\ q \notin A
  BY <1>1
<1>4. IsFiniteSet(A) /\ Cardinality(A) <= Cardinality(B) /\ (Cardinality(A) = Cardinality(B) => A = B)
  BY <1>2, <1>3, FS_Subset
<1>5. Cardinality(A) \in Nat /\ Cardinality(B) \in Nat
  BY <1>2, <1>4, FS_CardinalityType
<1>6. Cardinality(A) < Cardinality(B)
  BY <1>3, <1>4, <1>5
<1> QED BY <1>1, <1>6 DEF RankIn

\* The record at a place is that of the command o.
RecordOf(record, o) == record # Torn /\ record.kind = o.kind /\ KeyOf(record) = KeyOf(o)

\* The journal j, of which l is left over, has a record of o at the rank of its number.
Recorded(j, l, o) == \E p \in DOMAIN j \ l : RankIn(l, p) = o.sequence /\ RecordOf(j[p], o)

\* PlaceOf finds it.
LEMMA PlaceIsThere ==
  ASSUME journal \in Seq(Command \cup {Torn}), NEW o, Recorded(journal, left, o)
  PROVE  RecordOf(journal[PlaceOf(o.sequence)], o)
<1>1. PICK n : n = Len(journal) /\ n \in Nat /\ DOMAIN journal = 1..n
  OBVIOUS
<1>2. PICK p \in DOMAIN journal \ left : RankIn(left, p) = o.sequence /\ RecordOf(journal[p], o)
  BY DEF Recorded
<1>3. ASSUME NEW q \in DOMAIN journal \ left, RankIn(left, q) = o.sequence
      PROVE  q = p
  <2>1. p \in Nat /\ q \in Nat /\ p \notin left /\ q \notin left
    BY <1>1
  <2>2. PICK a, b : a = RankIn(left, p) /\ b = RankIn(left, q)
    OBVIOUS
  <2>3. (p < q => a < b) /\ (q < p => b < a) /\ a = b
    BY <1>2, <1>3, <2>1, <2>2, RankGrows
  <2>4. a \in Nat
    <3>1. IsFiniteSet(1..p)
      BY <2>1, FS_Interval
    <3>2. IsFiniteSet((1..p) \ left)
      BY <3>1, FS_Subset
    <3> QED BY <2>2, <3>2, FS_CardinalityType DEF RankIn
  <2> QED BY <2>1, <2>3, <2>4
<1>4. PlaceOf(o.sequence) = p
  BY <1>2, <1>3 DEF PlaceOf, RankIn
<1> QED BY <1>2, <1>4

\* How many records of the journal j are not in l.
Counted(j, l) == Cardinality(DOMAIN j \ l)

\* One record more, of the command c.
OneMore(j, l, k, c) ==
  /\ Counted(k, l) = Counted(j, l) + 1
  /\ \A o : Recorded(j, l, o) => Recorded(k, l, o)
  /\ \A o : RecordOf(c, o) /\ o.sequence = Counted(j, l) + 1 => Recorded(k, l, o)

\* A record that is left over.
OneLeft(j, l, k, m) ==
  /\ m \subseteq DOMAIN k /\ Counted(k, m) = Counted(j, l)
  /\ \A o : Recorded(j, l, o) => Recorded(k, m, o)

\* What an append makes of the records.
LEMMA Appended ==
  ASSUME NEW S, NEW j \in Seq(S), NEW l, l \subseteq DOMAIN j, NEW c \in S, NEW k, k = Append(j, c)
  PROVE  /\ OneMore(j, l, k, c) /\ l \subseteq DOMAIN k
         /\ OneLeft(j, l, k, l \cup (Len(j) + 1..Len(k)))
<1>1. PICK n : n = Len(j) /\ n \in Nat /\ DOMAIN j = 1..n
  OBVIOUS
<1>2. k \in Seq(S) /\ Len(k) = n + 1 /\ DOMAIN k = 1..(n + 1) /\ k[n + 1] = c /\ \A p \in 1..n : k[p] = j[p]
  BY <1>1
<1>3. PICK A, B : A = DOMAIN j \ l /\ B = DOMAIN k \ l
  OBVIOUS
<1>4. IsFiniteSet(A) /\ Cardinality(A) \in Nat
  <2>1. IsFiniteSet(1..n)
    BY <1>1, FS_Interval
  <2>2. IsFiniteSet(A)
    BY <1>1, <1>3, <2>1, FS_Subset
  <2> QED BY <2>2, FS_CardinalityType
<1>5. n + 1 \notin l /\ n + 1 \notin A /\ B = A \cup {n + 1}
  BY <1>1, <1>2, <1>3
<1>6. Cardinality(B) = Cardinality(A) + 1
  BY <1>4, <1>5, FS_AddElement
<1>7. Counted(k, l) = Counted(j, l) + 1
  BY <1>3, <1>6 DEF Counted
<1>8. ASSUME NEW o, Recorded(j, l, o) PROVE Recorded(k, l, o)
  <2>1. PICK p \in DOMAIN j \ l : RankIn(l, p) = o.sequence /\ RecordOf(j[p], o)
    BY <1>8 DEF Recorded
  <2>2. p \in DOMAIN k \ l /\ k[p] = j[p]
    BY <1>1, <1>2, <2>1
  <2> QED BY <2>1, <2>2 DEF Recorded
<1>9. ASSUME NEW o, RecordOf(c, o), o.sequence = Counted(j, l) + 1 PROVE Recorded(k, l, o)
  <2>1. RankIn(l, n + 1) = Counted(k, l)
    BY <1>2 DEF RankIn, Counted
  <2>2. n + 1 \in DOMAIN k \ l
    BY <1>2, <1>5
  <2>3. RankIn(l, n + 1) = o.sequence /\ RecordOf(k[n + 1], o)
    BY <1>2, <1>7, <1>9, <2>1
  <2> QED BY <2>2, <2>3 DEF Recorded
<1>10. PICK m : m = l \cup (Len(j) + 1..Len(k))
  OBVIOUS
<1>11. m = l \cup {n + 1}
  BY <1>1, <1>2, <1>10
<1>12. m \subseteq DOMAIN k /\ DOMAIN k \ m = A
  BY <1>1, <1>2, <1>3, <1>11
<1>13. ASSUME NEW o, Recorded(j, l, o) PROVE Recorded(k, m, o)
  <2>1. PICK p \in DOMAIN j \ l : RankIn(l, p) = o.sequence /\ RecordOf(j[p], o)
    BY <1>13 DEF Recorded
  <2>2. p \in 1..n
    BY <1>1, <2>1
  <2>3. p \in DOMAIN k \ m /\ k[p] = j[p]
    BY <1>2, <1>3, <1>12, <2>1, <2>2
  <2>4. (1..p) \ m = (1..p) \ l
    BY <1>1, <1>11, <2>2
  <2> QED BY <2>1, <2>3, <2>4 DEF Recorded, RankIn
<1>14. OneLeft(j, l, k, m)
  BY <1>3, <1>12, <1>13 DEF OneLeft, Counted
<1>15. l \subseteq DOMAIN k
  BY <1>1, <1>2
<1> QED BY <1>7, <1>8, <1>9, <1>10, <1>14, <1>15 DEF OneMore

\* Every command in flight has a record.
AllRecorded(j, l, data, line) == \A x \in Members(line) : Recorded(j, l, data[x])

\* The journal, and how far recovery has come in it.
JournalShape ==
  /\ journal \in Seq(Command \cup {Torn}) /\ replayed \in Nat /\ left \subseteq DOMAIN journal
  /\ mode \in {"Up", "Down", "Recovering", "Failed"}

\* The inductive invariant of the journal: while the engine serves, its number counts the
\* records; while it recovers, those that it has replayed.
JournalInv ==
  /\ EngineInv /\ queue = <<>> /\ JournalShape
  /\ mode = "Up" => /\ Counted(journal, left) = nextSequence - 1
                    /\ AllRecorded(journal, left, pool.data, pending)
  /\ mode = "Down" => nextSequence = 1 /\ pending = <<>> /\ replayed = 0
  /\ mode = "Recovering" => Readable /\ nextSequence = replayed + 1 /\ replayed <= Len(journal)

\* It holds of an empty engine with an empty journal.
LEMMA JournalStarts == DInit => JournalInv
<1> SUFFICES ASSUME DInit PROVE JournalInv
  OBVIOUS
<1>1. EngineInv /\ queue = <<>> /\ nextSequence = 1 /\ pending = <<>>
  BY InitEngine DEF DInit, Init
<1>2. journal = <<>> /\ journal \in Seq(Command \cup {Torn}) /\ DOMAIN journal = {}
  <2>1. journal = <<>>
    BY DEF DInit
  <2> QED BY <2>1
<1>3. Counted(journal, left) = 0
  <2>1. DOMAIN journal \ left = {}
    BY <1>2
  <2> QED BY <2>1, FS_EmptySet DEF Counted
<1>4. AllRecorded(journal, left, pool.data, pending)
  BY <1>1 DEF AllRecorded, Members
<1> QED BY <1>1, <1>2, <1>3, <1>4 DEF DInit, JournalInv, JournalShape

\* A record of what is in flight stays one while journal and slots keep it.
LEMMA StillRecorded ==
  ASSUME NEW j, NEW l, NEW k, NEW m, NEW data, NEW new, NEW line, NEW longer,
         AllRecorded(j, l, data, line), Same(data, new, Members(line)),
         \A o : Recorded(j, l, o) => Recorded(k, m, o), Members(longer) \subseteq Members(line)
  PROVE  AllRecorded(k, m, new, longer)
<1> SUFFICES ASSUME NEW x \in Members(longer) PROVE Recorded(k, m, new[x])
  BY DEF AllRecorded
<1>1. x \in Members(line) /\ new[x] = data[x]
  BY DEF Same
<1> QED BY <1>1 DEF AllRecorded

\* accept_durable records the command that it admits.
LEMMA AcceptDurableJournals ==
  ASSUME JournalInv, NEW command \in Command, AcceptDurable(command)
  PROVE  JournalInv'
<1>1. /\ EngineInv /\ queue = <<>> /\ JournalShape /\ mode = "Up"
      /\ Counted(journal, left) = nextSequence - 1 /\ AllRecorded(journal, left, pool.data, pending)
  BY DEF JournalInv, AcceptDurable
<1>2. /\ Acceptable(command) /\ Admit(command) /\ journal' = Append(journal, command)
      /\ UNCHANGED <<mode, replayed, left, queue>>
  BY DEF AcceptDurable, Accept, Admit, WithRecord
<1>3. EngineInv'
  BY <1>1, <1>2, AcceptKeeps
<1>4. PICK x : Queues(command, x)
  BY <1>1, <1>2, AdmittedQueues
<1>5. PICK j, k, l, S : j = journal /\ k = journal' /\ l = left /\ S = Command \cup {Torn}
  OBVIOUS
<1>6. j \in Seq(S) /\ l \subseteq DOMAIN j /\ command \in S /\ k = Append(j, command)
  BY <1>1, <1>2, <1>5 DEF JournalShape
<1>7. OneMore(j, l, k, command) /\ l \subseteq DOMAIN k
  BY ONLY <1>6, Appended
<1>8. k \in Seq(S)
  BY <1>6
<1>9. Counted(k, l) = nextSequence' - 1
  BY <1>1, <1>4, <1>5, <1>7 DEF OneMore, Queues
<1>10. command # Torn
  BY JournalAssumption
<1>11. AllRecorded(k, l, pool'.data, pending')
  <2> SUFFICES ASSUME NEW y \in Members(pending') PROVE Recorded(k, l, pool'.data[y])
    BY DEF AllRecorded
  <2>1. CASE y = x
    <3>1. RecordOf(command, pool'.data[y]) /\ pool'.data[y].sequence = Counted(j, l) + 1
      BY <1>1, <1>4, <1>5, <1>10, <2>1 DEF Queues, RecordOf
    <3> QED BY <1>7, <3>1 DEF OneMore
  <2>2. CASE y # x
    <3>1. y \in Members(pending) /\ pool'.data[y] = pool.data[y]
      BY <1>4, <2>2 DEF Queues, Same
    <3>2. Recorded(j, l, pool.data[y])
      BY <1>1, <1>5, <3>1 DEF AllRecorded
    <3> QED BY <1>7, <3>1, <3>2 DEF OneMore
  <2> QED BY <2>1, <2>2
<1> QED BY <1>1, <1>2, <1>3, <1>5, <1>7, <1>8, <1>9, <1>11 DEF JournalInv, JournalShape

\* An append that fails leaves a record that nobody counts.
LEMMA AppendFailsJournals ==
  ASSUME JournalInv, NEW command \in Command, AppendFails(command)
  PROVE  JournalInv'
<1>1. /\ EngineInv /\ queue = <<>> /\ JournalShape /\ mode = "Up"
      /\ Counted(journal, left) = nextSequence - 1 /\ AllRecorded(journal, left, pool.data, pending)
  BY DEF JournalInv, AppendFails
<1>2. PICK what \in FailedAppends : journal' = Leftover(command, what)
  BY DEF AppendFails
<1>3. left' = left \cup (Len(journal) + 1..Len(journal')) /\ UNCHANGED <<mode, replayed, queue, pending, nextSequence>>
  BY DEF AppendFails
<1>4. EngineInv' /\ Same(pool.data, pool'.data, Members(InFlight))
  BY <1>1, FailUnseen
<1>5. InFlight = pending
  <2>1. pending \in Seq(Slot)
    BY <1>1 DEF EngineInv
  <2> QED BY <1>1, <2>1 DEF InFlight
<1>6. PICK j, k, l, m, S : j = journal /\ k = journal' /\ l = left /\ m = left' /\ S = Command \cup {Torn}
  OBVIOUS
<1>7. j \in Seq(S) /\ l \subseteq DOMAIN j /\ command \in S /\ Torn \in S /\ m = l \cup (Len(j) + 1..Len(k))
  BY <1>1, <1>3, <1>6 DEF JournalShape
<1>8. k = j \/ k = Append(j, command) \/ k = Append(j, Torn)
  BY <1>2, <1>6, JournalAssumption DEF Leftover
<1>9. OneLeft(j, l, k, m) /\ k \in Seq(S)
  <2>1. CASE k = j
    <3>1. m = l
      BY <1>7, <2>1
    <3> QED BY <1>7, <2>1, <3>1 DEF OneLeft
  <2>2. ASSUME NEW c \in S, k = Append(j, c) PROVE OneLeft(j, l, k, m) /\ k \in Seq(S)
    <3>1. OneLeft(j, l, k, l \cup (Len(j) + 1..Len(k)))
      BY ONLY <1>7, <2>2, Appended
    <3> QED BY <1>7, <2>2, <3>1
  <2> QED BY <1>7, <1>8, <2>1, <2>2
<1>10. AllRecorded(k, m, pool'.data, pending')
  <2>1. PICK data, new, line, longer : data = pool.data /\ new = pool'.data /\ line = pending /\ longer = pending'
    OBVIOUS
  <2>2. /\ AllRecorded(j, l, data, line) /\ Same(data, new, Members(line))
        /\ (\A o : Recorded(j, l, o) => Recorded(k, m, o)) /\ Members(longer) \subseteq Members(line)
    BY <1>1, <1>3, <1>4, <1>5, <1>6, <1>9, <2>1 DEF OneLeft
  <2>3. AllRecorded(k, m, new, longer)
    BY ONLY <2>2, StillRecorded
  <2> QED BY <2>1, <2>3
<1> QED BY <1>1, <1>3, <1>4, <1>6, <1>9, <1>10 DEF JournalInv, JournalShape, OneLeft

\* Processing a command takes nothing out of the journal.
LEMMA ProcessAcceptedJournals ==
  ASSUME JournalInv, ProcessAccepted
  PROVE  JournalInv'
<1>1. FirstProcessed /\ InFlight = pending /\ InFlight' = pending'
  BY CallerServesFirst DEF JournalInv
<1>2. EngineInv'
  BY <1>1, ProcessKeeps DEF JournalInv
<1>3. UNCHANGED <<queue, journal, mode, replayed, left, nextSequence>> /\ (mode = "Up" \/ mode = "Recovering")
  BY DEF ProcessAccepted, durableVars, Process
<1>4. /\ Members(pending') \subseteq Members(pending) \ {pending[1]}
      /\ Same(pool.data, pool'.data, Members(pending) \ {pending[1]})
  BY <1>1, OthersStay DEF JournalInv
<1>5. ASSUME mode = "Up" PROVE AllRecorded(journal, left, pool'.data, pending')
  <2> SUFFICES ASSUME NEW x \in Members(pending') PROVE Recorded(journal, left, pool'.data[x])
    BY DEF AllRecorded
  <2>1. x \in Members(pending) /\ pool'.data[x] = pool.data[x]
    BY <1>4 DEF Same
  <2> QED BY <1>5, <2>1 DEF JournalInv, AllRecorded
<1> QED BY <1>2, <1>3, <1>5 DEF JournalInv, JournalShape, Readable

\* A crash leaves the file and an empty engine.
LEMMA CrashJournals ==
  ASSUME JournalInv, Crash \/ \E command \in Command : CrashInAppend(command)
  PROVE  JournalInv'
<1>1. \E idle : Die(idle)
  BY DEF Crash, CrashInAppend
<1>2. EngineInv' /\ queue' = <<>> /\ pending' = <<>>
  BY <1>1, DyingForgets
<1>3. mode' = "Down" /\ nextSequence' = 1 /\ replayed' = 0
  BY <1>1 DEF Die
<1>4. left' = left
  BY DEF Crash, CrashInAppend
<1>5. journal' = journal \/ \E c \in Command \cup {Torn} : journal' = Append(journal, c)
  BY DEF Crash, CrashInAppend, Leftover
<1>6. journal' \in Seq(Command \cup {Torn}) /\ left' \subseteq DOMAIN journal'
  <2>1. PICK j, S : j = journal /\ S = Command \cup {Torn} /\ j \in Seq(S) /\ left \subseteq DOMAIN j
    BY DEF JournalInv, JournalShape
  <2>2. ASSUME NEW c \in S PROVE Append(j, c) \in Seq(S) /\ DOMAIN j \subseteq DOMAIN Append(j, c)
    BY <2>1
  <2> QED BY <1>4, <1>5, <2>1, <2>2
<1> QED BY <1>2, <1>3, <1>6 DEF JournalInv, JournalShape

\* Recovery replays one record after the other.
LEMMA RecoveryJournals ==
  ASSUME JournalInv, Open \/ Replay \/ Recovered
  PROVE  JournalInv'
<1>1. PICK n, j : j = journal /\ n = Len(j) /\ n \in Nat /\ DOMAIN j = 1..n
  BY DEF JournalInv, JournalShape
<1>2. CASE Open
  <2>1. UNCHANGED vars /\ UNCHANGED <<journal, replayed, left>> /\ mode = "Down"
        /\ (mode' = "Failed" \/ (mode' = "Recovering" /\ Readable))
    BY <1>2 DEF Open
  <2>2. EngineInv'
    BY <2>1 DEF JournalInv, vars, EngineInv, InFlight
  <2> QED BY <1>1, <2>1, <2>2 DEF JournalInv, JournalShape, vars, Readable
<1>3. CASE Replay
  <2>1. /\ mode = "Recovering" /\ pending = <<>> /\ replayed < n /\ replayed' = replayed + 1
        /\ UNCHANGED <<journal, left>>
    BY <1>1, <1>3 DEF Replay, ToReplay
  <2>2. PICK command : command = journal[replayed + 1]
    OBVIOUS
  <2>3. command \in Command
    <3>1. replayed + 1 \in DOMAIN j
      BY <1>1, <2>1 DEF JournalInv, JournalShape
    <3>2. j[replayed + 1] \in Command \cup {Torn} /\ j[replayed + 1] # Torn
      BY <1>1, <2>1, <3>1 DEF JournalInv, JournalShape, Readable
    <3> QED BY <1>1, <2>2, <3>2
  <2>4. CASE Acceptable(command) /\ Admit(command) /\ UNCHANGED mode
    <3>1. EngineInv'
      BY <2>3, <2>4, AcceptKeeps DEF JournalInv
    <3>2. nextSequence' = nextSequence + 1 /\ queue' = queue
      BY <2>4 DEF Admit
    <3>3. replayed + 1 <= n
      BY <1>1, <2>1 DEF JournalInv, JournalShape
    <3> QED BY <1>1, <2>1, <2>4, <3>1, <3>2, <3>3 DEF JournalInv, JournalShape, Readable
  <2>5. CASE mode' = "Failed" /\ UNCHANGED vars
    <3>1. EngineInv'
      BY <2>5 DEF JournalInv, vars, EngineInv, InFlight
    <3> QED BY <2>1, <2>5, <3>1 DEF JournalInv, JournalShape, vars
  <2> QED BY <1>3, <2>2, <2>4, <2>5 DEF Replay
<1>4. CASE Recovered
  <2>1. /\ mode = "Recovering" /\ pending = <<>> /\ replayed >= n /\ mode' = "Up" /\ left' = {}
        /\ UNCHANGED vars /\ UNCHANGED <<journal, replayed>>
    BY <1>1, <1>4 DEF Recovered, ToReplay
  <2>2. EngineInv'
    BY <2>1 DEF JournalInv, vars, EngineInv, InFlight
  <2>3. replayed = n /\ nextSequence = n + 1
    BY <1>1, <2>1 DEF JournalInv, JournalShape
  <2>4. Counted(j, {}) = n
    <3>1. n \in Int /\ 1 \in Int /\ DOMAIN j \ {} = 1..n
      BY <1>1
    <3>2. Cardinality(1..n) = IF 1 > n THEN 0 ELSE n - 1 + 1
      BY ONLY <3>1, FS_Interval
    <3> QED BY <1>1, <3>1, <3>2 DEF Counted
  <2>5. AllRecorded(journal, {}, pool.data, pending)
    BY <2>1 DEF AllRecorded, Members
  <2> QED BY <1>1, <2>1, <2>2, <2>3, <2>4, <2>5 DEF JournalInv, JournalShape, vars
<1> QED BY <1>2, <1>3, <1>4

\* The invariant is inductive.
LEMMA JournalInvariant == DSpec => []JournalInv
<1>1. DInit => JournalInv
  BY JournalStarts
<1>2. JournalInv /\ [DNext]_allVars => JournalInv'
  <2> SUFFICES ASSUME JournalInv, [DNext]_allVars PROVE JournalInv'
    OBVIOUS
  <2>1. ASSUME NEW command \in Command, AcceptDurable(command) PROVE JournalInv'
    BY <2>1, AcceptDurableJournals
  <2>2. ASSUME NEW command \in Command, AppendFails(command) PROVE JournalInv'
    BY <2>2, AppendFailsJournals
  <2>3. CASE Crash \/ \E command \in Command : CrashInAppend(command)
    BY <2>3, CrashJournals
  <2>4. CASE ProcessAccepted
    BY <2>4, ProcessAcceptedJournals
  <2>5. CASE Open \/ Replay \/ Recovered
    BY <2>5, RecoveryJournals
  <2>6. CASE UNCHANGED allVars
    BY <2>6 DEF allVars, vars, durableVars, JournalInv, JournalShape, EngineInv, InFlight, Readable
  <2> QED BY <2>1, <2>2, <2>3, <2>4, <2>5, <2>6 DEF DNext
<1> QED BY <1>1, <1>2, PTL DEF DSpec

\* No command is admitted without a record, and one that was refused takes nobody's place.
THEOREM AdmittedIsJournaled == DSpec => []JournalIsAdmitted
<1>1. JournalInv => JournalIsAdmitted
  <2> SUFFICES ASSUME JournalInv, mode = "Up" PROVE JournalIsAdmitted
    BY DEF JournalIsAdmitted
  <2>1. ASSUME NEW k \in DOMAIN pending
        PROVE  RecordOf(journal[PlaceOf(pool.data[pending[k]].sequence)], pool.data[pending[k]])
    <3>1. PICK o : o = pool.data[pending[k]]
      OBVIOUS
    <3>2. Recorded(journal, left, o)
      BY <3>1 DEF JournalInv, AllRecorded, Members
    <3>3. RecordOf(journal[PlaceOf(o.sequence)], o)
      BY <3>2, PlaceIsThere DEF JournalInv, JournalShape
    <3> QED BY <3>1, <3>3
  <2>2. Cardinality(DOMAIN journal \ left) = nextSequence - 1
    BY DEF JournalInv, Counted
  <2> QED BY <2>1, <2>2 DEF JournalIsAdmitted, RecordOf
<1> QED BY <1>1, JournalInvariant, PTL

-----------------------------------------------------------------------------
(***************************************************************************)
(* The history of the recorded commands: the books B[n] and the next order *)
(* id I[n] after the first n of them.                                      *)
(***************************************************************************)
\* What an admitted command makes of the books.
BookThen(a, book) ==
  IF a.kind = "New" THEN Promise!BookAfter(book, Promise!OrderOf(a))
  ELSE IF a.kind = "Cancel" THEN book \ NamedBy(book, a, a.key)
  ELSE IF NamedBy(book, a, a.target) = {} THEN book
  ELSE Promise!BookAfter(book \ NamedBy(book, a, a.target), Promise!OrderOf(a))

\* It is what PriceTimeBook says.
LEMMA ObeyedBook ==
  ASSUME NEW a, NEW book, NEW after, NEW ts, Obeyed(a, book, after, ts)
  PROVE  after = BookThen(a, book)
BY DEF Obeyed, BookThen

\* What it makes of the next order id.
IdThen(command, id) == IF command.kind = "Cancel" THEN id ELSE id + 1

\* The n-th command of j, as it is admitted.
NthAdmitted(j, I, n) == AsAdmitted(j[n], n, I[n - 1])

\* B and I are the history of j.
Traced(j, B, I) ==
  /\ B[0] = {} /\ I[0] = 1
  /\ \A n \in 1..Len(j) : B[n] = BookThen(NthAdmitted(j, I, n), B[n - 1]) /\ I[n] = IdThen(j[n], I[n - 1])

\* Two journals and their histories are the same up to n.
Agree(n, j, B, I, k, D, J) ==
  /\ \A m \in 0..n : D[m] = B[m] /\ J[m] = I[m]
  /\ \A m \in 1..n : k[m] = j[m]

\* One record more adds to the history.
LEMMA TraceGrows ==
  ASSUME NEW S, NEW j \in Seq(S), NEW c \in S, NEW k, k = Append(j, c), NEW B, NEW I, Traced(j, B, I)
  PROVE  \E D, J : Traced(k, D, J) /\ Agree(Len(j), j, B, I, k, D, J)
<1>1. PICK n : n = Len(j) /\ n \in Nat
  OBVIOUS
<1>2. Len(k) = n + 1 /\ k[n + 1] = c /\ \A m \in 1..n : k[m] = j[m]
  BY <1>1
<1>3. PICK book, id : book = BookThen(AsAdmitted(c, n + 1, I[n]), B[n]) /\ id = IdThen(c, I[n])
  OBVIOUS
<1>4. PICK D, J : /\ D = [m \in 0..(n + 1) |-> IF m = n + 1 THEN book ELSE B[m]]
                  /\ J = [m \in 0..(n + 1) |-> IF m = n + 1 THEN id ELSE I[m]]
  OBVIOUS
<1>5. (\A m \in 0..n : D[m] = B[m] /\ J[m] = I[m]) /\ D[n + 1] = book /\ J[n + 1] = id
  BY <1>1, <1>4
<1>6. D[0] = {} /\ J[0] = 1
  BY <1>1, <1>5 DEF Traced
<1>7. ASSUME NEW m \in 1..(n + 1)
      PROVE  D[m] = BookThen(NthAdmitted(k, J, m), D[m - 1]) /\ J[m] = IdThen(k[m], J[m - 1])
  <2>1. m - 1 \in 0..n /\ D[m - 1] = B[m - 1] /\ J[m - 1] = I[m - 1]
    BY <1>1, <1>5
  <2>2. CASE m = n + 1
    <3>1. m - 1 = n /\ k[m] = c /\ D[m] = book /\ J[m] = id
      BY <1>1, <1>2, <1>5, <2>2
    <3> QED BY <1>3, <2>1, <2>2, <3>1 DEF NthAdmitted
  <2>3. CASE m # n + 1
    <3>1. m \in 1..n /\ m \in 0..n
      BY <1>1, <2>3
    <3>2. k[m] = j[m] /\ D[m] = B[m] /\ J[m] = I[m]
      BY <1>2, <1>5, <3>1
    <3>3. B[m] = BookThen(NthAdmitted(j, I, m), B[m - 1]) /\ I[m] = IdThen(j[m], I[m - 1])
      BY <1>1, <3>1 DEF Traced
    <3> QED BY <2>1, <3>2, <3>3 DEF NthAdmitted
  <2> QED BY <2>2, <2>3
<1>8. Traced(k, D, J)
  BY <1>2, <1>6, <1>7 DEF Traced
<1>9. Agree(Len(j), j, B, I, k, D, J)
  BY <1>1, <1>2, <1>5 DEF Agree
<1> QED BY <1>8, <1>9

\* An engine that has admitted the first n commands of j and has yet to execute the last m of them.
Stands(j, B, I, n, fly, m, shelf, next, id) ==
  /\ n \in 0..Len(j) /\ m \in 0..n /\ next = n + 1 /\ id = I[n] /\ shelf = B[n - m]
  /\ \A k \in 1..m : fly[k] = NthAdmitted(j, I, n - m + k)

\* It stands there in any journal that agrees so far.
LEMMA StandsToo ==
  ASSUME NEW j, NEW B, NEW I, NEW n, NEW fly, NEW m, NEW shelf, NEW next, NEW id,
         Stands(j, B, I, n, fly, m, shelf, next, id), NEW k, NEW D, NEW J, Agree(n, j, B, I, k, D, J),
         n \in 0..Len(k), Len(j) \in Nat
  PROVE  Stands(k, D, J, n, fly, m, shelf, next, id)
<1>1. n \in Nat /\ m \in 0..n
  BY DEF Stands
<1>2. id = J[n] /\ shelf = D[n - m]
  BY <1>1 DEF Stands, Agree
<1>3. ASSUME NEW l \in 1..m PROVE fly[l] = NthAdmitted(k, J, n - m + l)
  <2>1. PICK p : p = n - m + l /\ p \in 1..n /\ p - 1 \in 0..n
    BY <1>1
  <2>2. k[p] = j[p] /\ J[p - 1] = I[p - 1]
    BY <2>1 DEF Agree
  <2> QED BY <2>1, <2>2 DEF Stands, NthAdmitted
<1> QED BY <1>1, <1>2, <1>3 DEF Stands

\* longer is fly and c, which comes last.
Joined(fly, m, c, longer) == longer[m + 1] = c /\ \A k \in 1..m : longer[k] = fly[k]

\* The next command of the journal is admitted.
LEMMA StandsFurther ==
  ASSUME NEW j, NEW B, NEW I, NEW n, NEW fly, NEW m, NEW shelf, NEW next, NEW id, Len(j) \in Nat,
         Traced(j, B, I), Stands(j, B, I, n, fly, m, shelf, next, id), n < Len(j),
         NEW longer, Joined(fly, m, AsAdmitted(j[n + 1], next, id), longer)
  PROVE  Stands(j, B, I, n + 1, longer, m + 1, shelf, next + 1, IdThen(j[n + 1], id))
<1>1. n \in Nat /\ m \in 0..n /\ next = n + 1 /\ id = I[n] /\ shelf = B[n - m]
  BY DEF Stands
<1>2. n + 1 \in 1..Len(j) /\ (n + 1) - 1 = n /\ m + 1 \in 0..(n + 1) /\ (n + 1) - (m + 1) = n - m
  BY <1>1
<1>3. I[n + 1] = IdThen(j[n + 1], id)
  BY <1>1, <1>2 DEF Traced
<1>4. ASSUME NEW k \in 1..(m + 1) PROVE longer[k] = NthAdmitted(j, I, (n + 1) - (m + 1) + k)
  <2>1. CASE k = m + 1
    <3>1. (n + 1) - (m + 1) + k = n + 1
      BY <1>1, <2>1
    <3> QED BY <1>1, <1>2, <2>1, <3>1 DEF Joined, NthAdmitted
  <2>2. CASE k # m + 1
    <3>1. k \in 1..m
      BY <1>1, <2>2
    <3>2. longer[k] = NthAdmitted(j, I, n - m + k)
      BY <3>1 DEF Joined, Stands
    <3> QED BY <1>2, <3>2
  <2> QED BY <2>1, <2>2
<1> QED BY <1>1, <1>2, <1>3, <1>4 DEF Stands

\* shorter is fly without its first.
Shortened(fly, m, shorter) == \A k \in 1..(m - 1) : shorter[k] = fly[k + 1]

\* The oldest command in flight is executed.
LEMMA StandsLower ==
  ASSUME NEW j, NEW B, NEW I, NEW n, NEW fly, NEW m, NEW shelf, NEW next, NEW id, Len(j) \in Nat,
         Traced(j, B, I), Stands(j, B, I, n, fly, m, shelf, next, id), m > 0,
         NEW shorter, Shortened(fly, m, shorter)
  PROVE  Stands(j, B, I, n, shorter, m - 1, BookThen(fly[1], shelf), next, id)
<1>1. n \in 0..Len(j) /\ m \in 1..n /\ shelf = B[n - m] /\ fly[1] = NthAdmitted(j, I, n - m + 1)
  BY DEF Stands
<1>2. n - m + 1 \in 1..Len(j) /\ (n - m + 1) - 1 = n - m /\ n - (m - 1) = n - m + 1 /\ m - 1 \in 0..n
  BY <1>1
<1>3. B[n - (m - 1)] = BookThen(fly[1], shelf)
  BY <1>1, <1>2 DEF Traced
<1>4. ASSUME NEW k \in 1..(m - 1) PROVE shorter[k] = NthAdmitted(j, I, n - (m - 1) + k)
  <2>1. k + 1 \in 1..m /\ n - m + (k + 1) = n - (m - 1) + k
    BY <1>1
  <2>2. fly[k + 1] = NthAdmitted(j, I, n - m + (k + 1))
    BY <2>1 DEF Stands
  <2> QED BY <2>1, <2>2 DEF Shortened
<1> QED BY <1>1, <1>2, <1>3, <1>4 DEF Stands

-----------------------------------------------------------------------------
\* Where the engine stands.
StandsNow(j, B, I, n) == Stands(j, B, I, n, Flying, Len(pending), Shelved, nextSequence, nextExchangeOrderId)

\* One command in flight for each slot that the caller holds.
LEMMA FlyingShape ==
  ASSUME EngineInv, queue = <<>>
  PROVE  InFlight = pending /\ Len(pending) \in Nat /\ (\E C : Flying \in Seq(C)) /\ Len(Flying) = Len(pending)
<1>1. pending \in Seq(Slot)
  BY DEF EngineInv
<1>2. InFlight = pending
  BY <1>1 DEF InFlight
<1> QED BY <1>1, <1>2, ComsShape DEF Flying

\* And after a step.
LEMMA FlyingShapeNext ==
  ASSUME EngineInv', queue' = <<>>
  PROVE  Len(pending') \in Nat /\ (\E C : Flying' \in Seq(C)) /\ Len(Flying') = Len(pending')
<1>1. pending' \in Seq(Slot)
  BY DEF EngineInv
<1>2. InFlight' = pending'
  BY <1>1 DEF InFlight
<1>3. Flying' = Coms(pool'.data, pending')
  BY <1>2 DEF Flying
<1> QED BY <1>1, <1>3, ComsShape

\* Admitting the next command of the journal.
LEMMA AdmitStands ==
  ASSUME EngineInv, EngineInv', LineInv, queue = <<>>, NEW command \in Command, Admit(command),
         NEW j, NEW B, NEW I, NEW n, Len(j) \in Nat, Traced(j, B, I), StandsNow(j, B, I, n), n < Len(j),
         command = j[n + 1]
  PROVE  StandsNow(j, B, I, n + 1)' /\ LineInv'
<1>1. Joins(AsAdmitted(command, nextSequence, nextExchangeOrderId)) /\ LineInv'
  BY AcceptJoins DEF LineInv
<1>2. PICK m, f, c : m = Len(pending) /\ f = Flying' /\ c = AsAdmitted(command, nextSequence, nextExchangeOrderId)
  OBVIOUS
<1>3. f # <<>> /\ Promise!Front(f) = Flying /\ Promise!Last(f) = c /\ nextSequence' = nextSequence + 1 /\ Shelved' = Shelved
  BY <1>1, <1>2 DEF Joins
<1>4. /\ m \in Nat /\ Len(Flying) = m /\ pending \in Seq(Slot) /\ pending' = Append(pending, pool.freeHead)
      /\ queue' = <<>> /\ nextExchangeOrderId' = IdThen(command, nextExchangeOrderId)
  BY <1>2, FlyingShape DEF EngineInv, Admit, IdThen
<1>5. Len(pending') = m + 1
  BY <1>2, <1>4
<1>6. PICK C : f \in Seq(C)
  BY <1>2, <1>4, FlyingShapeNext
<1>7. Len(f) = m + 1
  BY <1>2, <1>4, <1>5, FlyingShapeNext
<1>8. f[m + 1] = c
  BY <1>3, <1>7 DEF Promise!Last
<1>9. \A k \in 1..m : f[k] = Flying[k]
  <2>1. Flying = SubSeq(f, 1, m)
    BY <1>3, <1>4, <1>7 DEF Promise!Front
  <2> QED BY <1>4, <1>6, <1>7, <2>1
<1>10. Joined(Flying, m, AsAdmitted(j[n + 1], nextSequence, nextExchangeOrderId), f)
  BY <1>2, <1>8, <1>9 DEF Joined
<1>11. Stands(j, B, I, n, Flying, m, Shelved, nextSequence, nextExchangeOrderId)
  BY <1>2 DEF StandsNow
<1>12. Stands(j, B, I, n + 1, f, m + 1, Shelved, nextSequence + 1, IdThen(j[n + 1], nextExchangeOrderId))
  BY ONLY <1>10, <1>11, Len(j) \in Nat, Traced(j, B, I), n < Len(j), StandsFurther
<1> QED BY <1>1, <1>2, <1>3, <1>4, <1>5, <1>12 DEF StandsNow

\* Executing the oldest one.
LEMMA ProcessStands ==
  ASSUME ~KeyReuse, EngineInv, EngineInv', LineInv, queue = <<>>, ProcessAccepted,
         NEW j, NEW B, NEW I, NEW n, Len(j) \in Nat, Traced(j, B, I), StandsNow(j, B, I, n)
  PROVE  StandsNow(j, B, I, n)'
<1>1. FirstProcessed /\ InFlight = pending /\ InFlight' = pending'
  BY CallerServesFirst
<1>2. PICK c : Done(c)
  BY <1>1, ProcessDone DEF LineInv
<1>3. PICK m, f : m = Len(pending) /\ f = Flying
  OBVIOUS
<1>4. f # <<>> /\ Flying' = Tail(f) /\ Head(f) = c /\ Obeyed(c, Shelved, Shelved', TradesIn(events'))
  BY <1>2, <1>3 DEF Done
<1>5. UNCHANGED <<nextSequence, nextExchangeOrderId, queue>> /\ pending' = Tail(pending) /\ pending # <<>>
  BY DEF ProcessAccepted, Process
<1>6. m \in Nat /\ Len(f) = m /\ \E C : f \in Seq(C)
  BY <1>3, FlyingShape
<1>7. m > 0 /\ Len(pending') = m - 1
  BY <1>3, <1>5 DEF EngineInv
<1>8. f[1] = c /\ \A k \in 1..(m - 1) : Flying'[k] = f[k + 1]
  BY <1>4, <1>6
<1>9. Shelved' = BookThen(f[1], Shelved)
  BY <1>4, <1>8, ObeyedBook
<1>10. Stands(j, B, I, n, f, m, Shelved, nextSequence, nextExchangeOrderId)
  BY <1>3 DEF StandsNow
<1>11. Shortened(f, m, Flying')
  BY <1>8 DEF Shortened
<1>12. Stands(j, B, I, n, Flying', m - 1, BookThen(f[1], Shelved), nextSequence, nextExchangeOrderId)
  BY ONLY <1>7, <1>10, <1>11, Len(j) \in Nat, Traced(j, B, I), StandsLower
<1> QED BY <1>3, <1>5, <1>7, <1>9, <1>12 DEF StandsNow

-----------------------------------------------------------------------------
(***************************************************************************)
(* What recovery refuses.                                                  *)
(***************************************************************************)
\* Something in the book has this name of the command.
HasName(book, command, name) == NamedBy(book, command, <<command.account, name>>) # {}

\* The checks of accept_command, when no other command is in flight.
AcceptedBy(command, book) ==
  LET own == command.clientOrderId
  IN  CASE command.kind = "New"     -> ~HasName(book, command, own)
        [] command.kind = "Cancel"  -> HasName(book, command, own)
        [] command.kind = "Replace" -> /\ HasName(book, command, command.target)
                                       /\ own = command.target \/ ~HasName(book, command, own)

\* What a command is.
LEMMA CommandShape ==
  ASSUME NEW command \in Command
  PROVE  command.instrument \in Instrument /\ command.kind \in {"New", "Cancel", "Replace"}
<1>1. PICK order : order = [command EXCEPT !.exchangeOrderId = 0, !.sequence = 0, !.remaining = command.quantity]
  OBVIOUS
<1>2. Numbered(command, 0, 0, order)
  BY ONLY command \in Command, 0 \in Nat, <1>1, CommandIsOrder
<1> QED BY <1>2 DEF Numbered, OrderRecord

\* The books know the names of the orders that they show.
LEMMA KnownShown ==
  ASSUME ~KeyReuse, EngineInv, NEW command \in Command, NEW name
  PROVE  Known(command, name) <=> HasName(Shelved, command, name)
<1>1. PICK F, R : EngineOK(pool, books, nextSequence, InFlight, F, R)
  BY DEF EngineInv
<1>2. AllWhole(pool, books, F, R)
  BY <1>1 DEF EngineOK, AllWhole
<1>3. PICK i : i = command.instrument /\ i \in Instrument
  BY CommandShape
<1>4. PICK data, key : data = pool.data /\ key = <<command.account, name>>
  OBVIOUS
<1>5. PICK S, O : S = Recs(data, R[i]) /\ O = Others(data, R, i)
  OBVIOUS
<1>6. Shelved = S \cup O
  BY <1>2, <1>3, <1>4, <1>5, BooksShow DEF Shelved
<1>7. Native(S, i) /\ \A k : ContainsOrder(books[i], k) <=> \E r \in S : r.key = k
  <2>1. Whole(pool, books[i], i, F, R[i])
    BY <1>2, <1>3 DEF AllWhole
  <2> QED BY <1>4, <1>5, <2>1, BookShows
<1>8. \A r \in O : r.instrument # i
  <2> SUFFICES ASSUME NEW r \in O PROVE r.instrument # i
    OBVIOUS
  <2>1. PICK j \in Instrument \ {i} : r \in Recs(data, R[j])
    BY <1>5 DEF Others
  <2>2. Whole(pool, books[j], j, F, R[j])
    BY <1>2 DEF AllWhole
  <2>3. Native(Recs(data, R[j]), j)
    BY <1>4, <2>2, BookShows
  <2> QED BY <2>1, <2>3 DEF Native
<1>9. NamedBy(Shelved, command, key) # {} <=> \E r \in S : r.key = key
  <2>1. ASSUME NEW r \in S, r.key = key PROVE r \in NamedBy(Shelved, command, key)
    BY <1>3, <1>6, <1>7, <2>1 DEF NamedBy, Native
  <2>2. ASSUME NEW r \in NamedBy(Shelved, command, key) PROVE r \in S /\ r.key = key
    BY <1>3, <1>6, <1>8, <2>2 DEF NamedBy
  <2> QED BY <2>1, <2>2
<1> QED BY <1>3, <1>4, <1>7, <1>9 DEF Known, HasName

\* With nothing in flight they are the checks of accept_command.
LEMMA AcceptableShown ==
  ASSUME ~KeyReuse, EngineInv, NEW command \in Command, pending = <<>>, queue = <<>>
  PROVE  Acceptable(command) <=> AcceptedBy(command, Shelved)
<1>1. \A name : Known(command, name) <=> HasName(Shelved, command, name)
  BY KnownShown
<1>2. Fresh(command)
  BY DEF Fresh, NameInFlight, InFlight
<1>3. CASE command.kind = "New"
  BY <1>1, <1>2, <1>3 DEF Acceptable, AcceptedBy
<1>4. CASE command.kind = "Cancel"
  BY <1>1, <1>4 DEF Acceptable, AcceptedBy
<1>5. CASE command.kind = "Replace"
  BY <1>1, <1>2, <1>5 DEF Acceptable, AcceptedBy
<1> QED BY <1>3, <1>4, <1>5, CommandShape

\* Every order has a slot of its own.
LEMMA ShelvedCount ==
  ASSUME ~KeyReuse, EngineInv
  PROVE  IsFiniteSet(Resting) /\ Cardinality(Shelved) = Cardinality(Resting)
<1>1. PICK F, R : EngineOK(pool, books, nextSequence, InFlight, F, R)
  BY DEF EngineInv
<1>2. PICK data, f, T, S : data = pool.data /\ T = Resting /\ S = Shelved /\ f = [s \in T |-> Rec(data, s)]
  OBVIOUS
<1>3. \A i \in Instrument : RestingIn(i) = R[i]
  BY <1>1, EngineView
<1>4. \A s \in T : \E i \in Instrument : s \in R[i]
  BY <1>2, <1>3 DEF Resting
<1>5. ASSUME NEW i \in Instrument
      PROVE  AllKnown(data, books[i], R[i]) /\ \A s \in R[i] : s \in Slot /\ data[s].instrument = i
  <2>1. BookOK(pool.data, books[i], i, R[i]) /\ AllKnown(pool.data, books[i], R[i])
    BY <1>1, EngineView
  <2> QED BY <1>2, <2>1 DEF BookOK, LevelsOK
<1>6. T \subseteq Slot
  BY <1>4, <1>5
<1>7. \A s, t \in T : f[s] = f[t] => s = t
  <2> SUFFICES ASSUME NEW s \in T, NEW t \in T, f[s] = f[t] PROVE s = t
    OBVIOUS
  <2>1. data[s].instrument = data[t].instrument /\ KeyOf(data[s]) = KeyOf(data[t])
    <3>1. Rec(data, s) = Rec(data, t)
      BY <1>2
    <3> QED BY <3>1, RecFields
  <2>2. PICK i \in Instrument, j \in Instrument : s \in R[i] /\ t \in R[j]
    BY <1>4
  <2>3. i = j
    BY <1>5, <2>1, <2>2
  <2> QED BY <1>5, <2>1, <2>2, <2>3 DEF AllKnown
<1>8. S = {f[s] : s \in T}
  <2>1. \A i : RestingIn(i) = Walk(pool.data, books[i])
    BY DEF RestingIn, AtLevel, LevelQueue, Walk, Members
  <2>2. T = UNION {Walk(data, books[i]) : i \in Instrument}
    BY <1>2, <2>1 DEF Resting
  <2> QED BY <1>2, <2>2 DEF Shelved, AllShown
<1>9. f \in Bijection(T, S)
  <2>1. f \in [T -> S] /\ \A r \in S : \E s \in T : f[s] = r
    BY <1>2, <1>8
  <2> QED BY <1>7, <2>1 DEF Bijection, Injection, Surjection, IsInjective
<1>10. IsFiniteSet(T)
  BY <1>6, SlotsFinite, FS_Subset
<1>11. ExistsBijection(T, S)
  BY <1>9 DEF ExistsBijection
<1>12. Cardinality(S) = Cardinality(T)
  BY <1>10, <1>11, FS_Bijection
<1> QED BY <1>2, <1>10, <1>12

\* With nothing in flight the pool is full of resting orders or not.
LEMMA RoomShown ==
  ASSUME ~KeyReuse, EngineInv, pending = <<>>, queue = <<>>
  PROVE  CanAllocate(pool) <=> Cardinality(Shelved) < MaxOrders - 1
<1>1. PICK F, R : EngineOK(pool, books, nextSequence, InFlight, F, R)
  BY DEF EngineInv
<1>2. PoolOK(pool, F)
  BY <1>1 DEF EngineOK
<1>3. FreeSlots(pool) = F /\ F \subseteq Slot /\ IsFiniteSet(F)
  BY <1>2, FreeSlotsAre
<1>4. Len(InFlight) = 0
  BY DEF InFlight
<1>5. Cardinality(F) + 0 + Cardinality(Resting) = MaxOrders - 1
  BY <1>3, <1>4, InvNoSlotLeaked, SlotsFinite DEF NoSlotLeaked
<1>6. Cardinality(F) \in Nat /\ Cardinality(Resting) \in Nat /\ Cardinality(Shelved) = Cardinality(Resting)
  BY <1>3, ShelvedCount, FS_CardinalityType
<1>7. Cardinality(F) > 0 <=> F # {}
  BY <1>3, <1>6, FS_EmptySet
<1>8. CanAllocate(pool) <=> F # {}
  <2>1. PICK s : IsList(pool.data, s, pool.freeHead, EndOfPool) /\ Members(s) = F
    BY <1>2 DEF PoolOK
  <2>2. EndOfPool \notin Slot
    BY PoolAssumption DEF EndOfPool, Slot
  <2>3. s \in Seq(Slot) /\ pool.freeHead = IF s = <<>> THEN EndOfPool ELSE s[1]
    BY <2>1 DEF IsList
  <2>4. CASE s = <<>>
    BY <2>1, <2>3, <2>4 DEF Members, CanAllocate
  <2>5. CASE s # <<>>
    <3>1. 1 \in DOMAIN s /\ s[1] \in Slot
      BY <2>3, <2>5
    <3> QED BY <2>1, <2>2, <2>3, <2>5, <3>1 DEF Members, CanAllocate
  <2> QED BY <2>4, <2>5
<1> QED BY <1>5, <1>6, <1>7, <1>8, PoolAssumption

-----------------------------------------------------------------------------
(***************************************************************************)
(* The invariant of recovery.                                              *)
(***************************************************************************)
\* The book has let the n-th command of j pass.
Passed(j, B, n) ==
  j[n] # Torn => AcceptedBy(j[n], B[n - 1]) /\ Cardinality(B[n - 1]) < MaxOrders - 1 /\ n < MaxSequence

\* So have the first n.
Sound(j, B, n) == \A k \in 1..n : Passed(j, B, k)

\* A journal with a record more is as sound as before, up to that record.
LEMMA SoundToo ==
  ASSUME NEW j, NEW B, NEW I, NEW k, NEW D, NEW J, NEW n \in Nat, NEW m \in 0..n,
         Agree(n, j, B, I, k, D, J), Sound(j, B, m)
  PROVE  Sound(k, D, m)
<1> SUFFICES ASSUME NEW l \in 1..m PROVE Passed(k, D, l)
  BY DEF Sound
<1>1. l \in 1..n /\ l - 1 \in 0..n
  OBVIOUS
<1>2. k[l] = j[l] /\ D[l - 1] = B[l - 1]
  BY <1>1 DEF Agree
<1>3. Passed(j, B, l)
  BY DEF Sound
<1> QED BY <1>2, <1>3 DEF Passed

\* One command more has passed.
LEMMA SoundFurther ==
  ASSUME NEW j, NEW B, NEW n \in Nat, Sound(j, B, n), Passed(j, B, n + 1)
  PROVE  Sound(j, B, n + 1)
<1> SUFFICES ASSUME NEW k \in 1..(n + 1) PROVE Passed(j, B, k)
  BY DEF Sound
<1>1. CASE k = n + 1
  BY <1>1
<1>2. CASE k # n + 1
  <2>1. k \in 1..n
    BY <1>2
  <2> QED BY <2>1 DEF Sound
<1> QED BY <1>1, <1>2

\* How many of the recorded commands the engine has admitted.
Admitted == IF mode = "Up" THEN Len(journal) ELSE replayed

\* The engine stands where the records that it has admitted lead, unless a failed append
\* has put another one among them.
Standing(B, I) == mode # "Failed" /\ (mode = "Up" => left = {}) => StandsNow(journal, B, I, Admitted)

\* The engine that has executed the first n commands.
ViewAt(B, I, n) == [orders |-> B[n], sequence |-> n + 1, orderId |-> I[n]]

\* An engine that was idle when it crashed had executed all of them.
Awaited(B, I) ==
  mode \in {"Down", "Recovering"} /\ left = {} /\ before.idle => before.view = ViewAt(B, I, Len(journal))

\* Whoever waits for one command before the next records what recovery accepts, and recovery
\* has accepted it.
Serial(B) ==
  MaxInFlight <= 1 =>
    /\ mode # "Failed" /\ left = {} => Sound(journal, B, Len(journal))
    /\ mode = "Recovering" => Sound(journal, B, replayed)

\* The inductive invariant of recovery.
HistoryInv ==
  /\ JournalInv /\ LineInv
  /\ MaxInFlight <= 1 /\ mode = "Failed" => ~Readable \/ left # {}
  /\ \E B, I : Traced(journal, B, I) /\ Standing(B, I) /\ Awaited(B, I) /\ Serial(B)

\* A journal is a sequence.
LEMMA JournalIsSeq ==
  ASSUME JournalInv
  PROVE  journal \in Seq(Command \cup {Torn}) /\ Len(journal) \in Nat /\ DOMAIN journal = 1..Len(journal)
BY DEF JournalInv, JournalShape

\* An engine that has admitted nothing stands at the beginning.
LEMMA StandsFirst ==
  ASSUME NEW j, Len(j) \in Nat, NEW B, NEW I, Traced(j, B, I), NEW fly
  PROVE  Stands(j, B, I, 0, fly, 0, {}, 1, 1)
BY DEF Stands, Traced

\* It holds of an empty engine with an empty journal.
LEMMA HistoryStarts == DInit => HistoryInv
<1> SUFFICES ASSUME DInit PROVE HistoryInv
  OBVIOUS
<1>1. JournalInv
  BY JournalStarts
<1>2. journal = <<>> /\ mode = "Up" /\ pending = <<>> /\ queue = <<>> /\ nextSequence = 1 /\ nextExchangeOrderId = 1
      /\ books = [i \in Instrument |-> EmptyBook] /\ Len(journal) = 0
  BY DEF DInit, Init
<1>3. InFlight = <<>>
  BY <1>2 DEF InFlight
<1>4. LineInv
  BY <1>3 DEF LineInv, AllUnfilled, Members
<1>5. Shelved = {}
  BY <1>2 DEF Shelved, AllShown, Walk, EmptyBook, Side, EmptyFunction
<1>6. PICK B, I : B = [n \in {0} |-> {}] /\ I = [n \in {0} |-> 1]
  OBVIOUS
<1>7. Traced(journal, B, I)
  BY <1>2, <1>6 DEF Traced
<1>8. Standing(B, I)
  <2>1. Stands(journal, B, I, 0, Flying, 0, {}, 1, 1)
    BY <1>2, <1>7, StandsFirst
  <2> QED BY <1>2, <1>5, <2>1 DEF Standing, StandsNow, Admitted
<1>9. Awaited(B, I) /\ Serial(B)
  BY <1>2 DEF Awaited, Serial, Sound
<1> QED BY <1>1, <1>2, <1>4, <1>7, <1>8, <1>9 DEF HistoryInv

\* Nothing is lost on the way from one journal to a longer one.
LEMMA HistoryGrows ==
  ASSUME JournalInv, NEW c \in Command \cup {Torn}, NEW k, k = Append(journal, c), NEW B, NEW I, Traced(journal, B, I)
  PROVE  \E D, J : Traced(k, D, J) /\ Agree(Len(journal), journal, B, I, k, D, J)
<1>1. PICK j, S : j = journal /\ S = Command \cup {Torn} /\ j \in Seq(S) /\ c \in S
  BY JournalIsSeq
<1> QED BY ONLY <1>1, k = Append(journal, c), Traced(journal, B, I), TraceGrows

\* accept_durable records the command that it admits.
LEMMA AcceptDurableHistory ==
  ASSUME ~KeyReuse, HistoryInv, NEW command \in Command, AcceptDurable(command)
  PROVE  HistoryInv'
<1>1. /\ EngineInv /\ queue = <<>> /\ JournalInv /\ LineInv /\ mode = "Up"
      /\ Acceptable(command) /\ Admit(command) /\ journal' = Append(journal, command)
      /\ Len(InFlight) < MaxInFlight /\ CanAdmit
      /\ UNCHANGED <<mode, replayed, left, before>>
  BY DEF HistoryInv, JournalInv, AcceptDurable, Accept, Admit, WithRecord
<1>2. JournalInv' /\ EngineInv'
  BY <1>1, AcceptDurableJournals DEF JournalInv
<1>3. PICK B, I : Traced(journal, B, I) /\ Standing(B, I) /\ Awaited(B, I) /\ Serial(B)
  BY DEF HistoryInv
<1>4. PICK n, k : n = Len(journal) /\ k = Append(journal, command)
  OBVIOUS
<1>5. n \in Nat /\ Len(k) = n + 1 /\ k[n + 1] = command
  BY <1>1, <1>4, JournalIsSeq
<1>6. PICK D, J : Traced(k, D, J) /\ Agree(n, journal, B, I, k, D, J)
  BY <1>1, <1>3, <1>4, HistoryGrows
<1>7. ASSUME left = {} PROVE StandsNow(k, D, J, n)
  <2>1. StandsNow(journal, B, I, n)
    BY <1>1, <1>3, <1>4, <1>7 DEF Standing, Admitted
  <2>2. PICK j, fly, m, shelf, next, id : j = journal /\ fly = Flying /\ m = Len(pending) /\ shelf = Shelved
                                        /\ next = nextSequence /\ id = nextExchangeOrderId
    OBVIOUS
  <2>3. Stands(j, B, I, n, fly, m, shelf, next, id) /\ Agree(n, j, B, I, k, D, J) /\ n \in 0..Len(k) /\ Len(j) \in Nat
    BY <1>4, <1>5, <1>6, <2>1, <2>2 DEF StandsNow
  <2>4. Stands(k, D, J, n, fly, m, shelf, next, id)
    BY ONLY <2>3, StandsToo
  <2> QED BY <2>2, <2>4 DEF StandsNow
<1>8. ASSUME left = {} PROVE StandsNow(k, D, J, n + 1)'
  BY <1>1, <1>2, <1>5, <1>6, <1>7, <1>8, AdmitStands
<1>9. LineInv'
  BY <1>1, <1>2, AcceptJoins DEF LineInv
<1>10. Standing(D, J)'
  BY <1>1, <1>4, <1>5, <1>8 DEF Standing, Admitted
<1>11. Awaited(D, J)'
  BY <1>1 DEF Awaited
<1>12. Serial(D)'
  <2> SUFFICES ASSUME MaxInFlight <= 1, left = {} PROVE Sound(k, D, n + 1)
    BY <1>1, <1>4, <1>5 DEF Serial
  <2>1. pending = <<>>
    BY <1>1, EngineAssumption DEF InFlight, EngineInv
  <2>2. Sound(k, D, n)
    <3>1. Sound(journal, B, n)
      BY <1>1, <1>3, <1>4 DEF Serial
    <3> QED BY <1>5, <1>6, <3>1, SoundToo
  <2>3. Passed(k, D, n + 1)
    <3>1. StandsNow(k, D, J, n)
      BY <1>7
    <3>2. Shelved = D[n] /\ nextSequence = n + 1
      BY <1>5, <2>1, <3>1 DEF StandsNow, Stands
    <3>3. AcceptedBy(command, Shelved)
      BY <1>1, <2>1, AcceptableShown
    <3>4. Cardinality(Shelved) < MaxOrders - 1
      BY <1>1, <2>1, RoomShown DEF CanAdmit
    <3>5. nextSequence < MaxSequence
      BY <1>1 DEF CanAdmit
    <3> QED BY <1>5, <3>2, <3>3, <3>4, <3>5 DEF Passed
  <2> QED BY <1>5, <2>2, <2>3, SoundFurther
<1> QED BY <1>1, <1>2, <1>4, <1>6, <1>9, <1>10, <1>11, <1>12 DEF HistoryInv

\* Nothing of the engine that the history speaks of has changed.
LEMMA StandsStill ==
  ASSUME NEW j, NEW B, NEW I, NEW n, StandsNow(j, B, I, n),
         Flying' = Flying, Shelved' = Shelved, UNCHANGED <<nextSequence, nextExchangeOrderId, pending>>
  PROVE  StandsNow(j, B, I, n)'
BY DEF StandsNow

\* An append that fails leaves the engine where it was, and a record or none.
LEMMA AppendFailsHistory ==
  ASSUME ~KeyReuse, HistoryInv, NEW command \in Command, AppendFails(command)
  PROVE  HistoryInv'
<1>1. /\ EngineInv /\ JournalInv /\ LineInv /\ mode = "Up" /\ left \subseteq DOMAIN journal
      /\ left' = left \cup (Len(journal) + 1..Len(journal')) /\ UNCHANGED <<mode, replayed, before>>
  BY DEF HistoryInv, JournalInv, JournalShape, AppendFails
<1>2. JournalInv' /\ Unseen
  BY <1>1, AppendFailsJournals, FailUnseen
<1>3. PICK B, I : Traced(journal, B, I) /\ Standing(B, I) /\ Awaited(B, I) /\ Serial(B)
  BY DEF HistoryInv
<1>4. PICK what \in FailedAppends : journal' = Leftover(command, what)
  BY DEF AppendFails
<1>5. journal' = journal \/ \E c \in Command \cup {Torn} : journal' = Append(journal, c)
  BY <1>4, JournalAssumption DEF Leftover
<1>6. LineInv'
  BY <1>1, <1>2 DEF Unseen
<1>7. CASE journal' = journal
  <2>1. Standing(B, I)'
    <3> SUFFICES ASSUME left' = {} PROVE StandsNow(journal, B, I, Len(journal))'
      BY <1>1, <1>7 DEF Standing, Admitted
    <3>1. left = {}
      BY <1>1
    <3>2. StandsNow(journal, B, I, Len(journal))
      BY <1>1, <1>3, <3>1 DEF Standing, Admitted
    <3>3. PICK j, n : j = journal /\ n = Len(journal) /\ StandsNow(j, B, I, n)
      BY <3>2
    <3>4. StandsNow(j, B, I, n)'
      BY <1>2, <3>3, StandsStill DEF Unseen
    <3> QED BY <1>7, <3>3, <3>4
  <2>2. Awaited(B, I)'
    BY <1>1 DEF Awaited
  <2>3. Serial(B)'
    <3> SUFFICES ASSUME MaxInFlight <= 1, left' = {} PROVE Sound(journal, B, Len(journal))
      BY <1>1, <1>7 DEF Serial
    <3>1. left = {}
      BY <1>1
    <3> QED BY <1>1, <1>3, <3>1 DEF Serial
  <2> QED BY <1>1, <1>2, <1>3, <1>6, <1>7, <2>1, <2>2, <2>3 DEF HistoryInv
<1>8. CASE \E c \in Command \cup {Torn} : journal' = Append(journal, c)
  <2>0. PICK c \in Command \cup {Torn} : journal' = Append(journal, c)
    BY <1>8
  <2>1. PICK k : k = journal' /\ k = Append(journal, c)
    BY <2>0
  <2>2. PICK D, J : Traced(k, D, J)
    BY <1>1, <1>3, <2>1, HistoryGrows
  <2>3. left' # {}
    <3>1. Len(journal') = Len(journal) + 1 /\ Len(journal) \in Nat
      BY <1>1, <2>1, JournalIsSeq
    <3>2. Len(journal) + 1 \in left'
      BY <1>1, <3>1
    <3> QED BY <3>2
  <2>4. Standing(D, J)' /\ Awaited(D, J)' /\ Serial(D)'
    BY <1>1, <2>3 DEF Standing, Awaited, Serial
  <2> QED BY <1>1, <1>2, <1>6, <2>1, <2>2, <2>4 DEF HistoryInv
<1> QED BY <1>5, <1>7, <1>8

\* The caller processes a command.
LEMMA ProcessAcceptedHistory ==
  ASSUME ~KeyReuse, HistoryInv, ProcessAccepted
  PROVE  HistoryInv'
<1>1. /\ EngineInv /\ queue = <<>> /\ JournalInv /\ LineInv
      /\ UNCHANGED <<journal, mode, replayed, left, before>>
  BY DEF HistoryInv, JournalInv, ProcessAccepted, durableVars
<1>2. JournalInv' /\ EngineInv'
  BY <1>1, ProcessAcceptedJournals DEF JournalInv
<1>3. PICK B, I : Traced(journal, B, I) /\ Standing(B, I) /\ Awaited(B, I) /\ Serial(B)
  BY DEF HistoryInv
<1>4. LineInv'
  <2>1. FirstProcessed
    BY <1>1, CallerServesFirst
  <2> QED BY <1>1, <1>2, <2>1, ProcessDone DEF LineInv
<1>5. ASSUME mode # "Failed", mode = "Up" => left = {} PROVE StandsNow(journal, B, I, Admitted)'
  <2>1. PICK j, n : j = journal /\ n = Admitted
    OBVIOUS
  <2>2. StandsNow(j, B, I, n) /\ Len(j) \in Nat /\ Traced(j, B, I)
    BY <1>1, <1>3, <1>5, <2>1, JournalIsSeq DEF Standing
  <2>3. StandsNow(j, B, I, n)'
    BY <1>1, <1>2, <2>2, ProcessStands
  <2>4. journal' = j /\ Admitted' = n
    BY <1>1, <2>1 DEF Admitted
  <2> QED BY <2>3, <2>4
<1>6. Standing(B, I)' /\ Awaited(B, I)' /\ Serial(B)'
  BY <1>1, <1>3, <1>5 DEF Standing, Awaited, Serial
<1>7. Readable' = Readable
  BY <1>1 DEF Readable
<1> QED BY <1>1, <1>2, <1>3, <1>4, <1>6, <1>7 DEF HistoryInv

\* An engine that has died stands at the beginning.
LEMMA DeadStands ==
  ASSUME NEW idle, Die(idle), NEW j, Len(j) \in Nat, NEW B, NEW I, Traced(j, B, I)
  PROVE  LineInv' /\ StandsNow(j, B, I, 0)'
<1>1. LineInv' /\ pending' = <<>> /\ Shelved' = {}
  BY DyingForgets
<1>2. nextSequence' = 1 /\ nextExchangeOrderId' = 1 /\ Len(pending') = 0
  BY <1>1 DEF Die
<1>3. PICK fly : fly = Flying'
  OBVIOUS
<1>4. Stands(j, B, I, 0, fly, 0, {}, 1, 1)
  BY StandsFirst
<1> QED BY <1>1, <1>2, <1>3, <1>4 DEF StandsNow

\* A crash between two calls loses nothing that was recorded.
LEMMA CrashHistory ==
  ASSUME ~KeyReuse, HistoryInv, Crash
  PROVE  HistoryInv'
<1>1. /\ JournalInv /\ mode = "Up" /\ Die(pending = <<>>) /\ UNCHANGED <<journal, left>>
  BY DEF HistoryInv, Crash
<1>2. JournalInv'
  BY <1>1, CrashJournals
<1>3. PICK B, I : Traced(journal, B, I) /\ Standing(B, I) /\ Awaited(B, I) /\ Serial(B)
  BY DEF HistoryInv
<1>4. mode' = "Down" /\ replayed' = 0 /\ before' = [idle |-> pending = <<>>, view |-> View]
  BY <1>1 DEF Die
<1>5. LineInv' /\ StandsNow(journal, B, I, 0)'
  <2>1. PICK j : j = journal /\ Len(j) \in Nat /\ Traced(j, B, I)
    BY <1>1, <1>3, JournalIsSeq
  <2>2. LineInv' /\ StandsNow(j, B, I, 0)'
    BY <1>1, <2>1, DeadStands
  <2> QED BY <1>1, <2>1, <2>2
<1>6. Standing(B, I)'
  BY <1>4, <1>5 DEF Standing, Admitted
<1>7. ASSUME left = {}, pending = <<>> PROVE View = ViewAt(B, I, Len(journal))
  <2>1. StandsNow(journal, B, I, Len(journal))
    BY <1>1, <1>3, <1>7 DEF Standing, Admitted
  <2>2. /\ nextSequence = Len(journal) + 1 /\ nextExchangeOrderId = I[Len(journal)] /\ Shelved = B[Len(journal)]
    BY <1>1, <1>7, <2>1, JournalIsSeq DEF StandsNow, Stands
  <2>3. {OrderIn(s) : s \in Resting} = Shelved
    BY InstanceSees
  <2> QED BY <2>2, <2>3 DEF View, ViewAt
<1>8. Awaited(B, I)'
  BY <1>1, <1>4, <1>7 DEF Awaited
<1>9. Serial(B)'
  BY <1>1, <1>3, <1>4 DEF Serial
<1> QED BY <1>1, <1>2, <1>3, <1>4, <1>5, <1>6, <1>8, <1>9 DEF HistoryInv

\* A crash inside accept_durable leaves a torn record, or one that recovery accepts.
LEMMA CrashInAppendHistory ==
  ASSUME ~KeyReuse, HistoryInv, NEW command \in Command, CrashInAppend(command)
  PROVE  HistoryInv'
<1>1. /\ EngineInv /\ queue = <<>> /\ JournalInv /\ mode = "Up" /\ Die(FALSE) /\ left' = left
      /\ Acceptable(command) /\ CanAdmit /\ Len(InFlight) < MaxInFlight
  BY DEF HistoryInv, JournalInv, CrashInAppend
<1>2. JournalInv'
  BY CrashJournals DEF HistoryInv
<1>3. PICK B, I : Traced(journal, B, I) /\ Standing(B, I) /\ Awaited(B, I) /\ Serial(B)
  BY DEF HistoryInv
<1>4. mode' = "Down" /\ replayed' = 0 /\ before' = [idle |-> FALSE, view |-> View]
  BY <1>1 DEF Die
<1>0. PICK c \in {command, Torn} : journal' = Append(journal, c)
  BY DEF CrashInAppend, Leftover
<1>5. PICK k : journal' = k /\ k = Append(journal, c)
  BY <1>0
<1>6. PICK n : n = Len(journal) /\ n \in Nat /\ Len(k) = n + 1 /\ k[n + 1] = c
  BY <1>1, <1>5, JournalIsSeq
<1>7. PICK D, J : Traced(k, D, J) /\ Agree(n, journal, B, I, k, D, J)
  BY <1>1, <1>3, <1>5, <1>6, HistoryGrows
<1>8. LineInv' /\ Standing(D, J)'
  <2>1. LineInv' /\ StandsNow(k, D, J, 0)'
    <3>1. Len(k) \in Nat
      BY <1>6
    <3>2. PICK idle : Die(idle)
      BY <1>1
    <3> QED BY ONLY <1>7, <3>1, <3>2, DeadStands
  <2> QED BY <1>4, <1>5, <2>1 DEF Standing, Admitted
<1>9. Awaited(D, J)'
  BY <1>4 DEF Awaited
<1>10. Serial(D)'
  <2> SUFFICES ASSUME MaxInFlight <= 1, left = {} PROVE Sound(k, D, n + 1)
    BY <1>1, <1>4, <1>5, <1>6 DEF Serial
  <2>1. pending = <<>>
    BY <1>1, EngineAssumption DEF InFlight, EngineInv
  <2>2. Sound(k, D, n)
    <3>1. Sound(journal, B, n)
      BY <1>1, <1>3, <1>6 DEF Serial
    <3> QED BY <1>6, <1>7, <3>1, SoundToo
  <2>3. Passed(k, D, n + 1)
    <3> SUFFICES ASSUME c # Torn
                 PROVE  AcceptedBy(c, D[n]) /\ Cardinality(D[n]) < MaxOrders - 1 /\ n + 1 < MaxSequence
      BY <1>6 DEF Passed
    <3>1. StandsNow(journal, B, I, n)
      BY <1>1, <1>3, <1>6 DEF Standing, Admitted
    <3>2. Shelved = B[n] /\ nextSequence = n + 1 /\ B[n] = D[n]
      BY <1>6, <1>7, <2>1, <3>1 DEF StandsNow, Stands, Agree
    <3>3. AcceptedBy(c, Shelved)
      BY <1>1, <1>5, <2>1, AcceptableShown
    <3>4. Cardinality(Shelved) < MaxOrders - 1
      BY <1>1, <2>1, RoomShown DEF CanAdmit
    <3>5. nextSequence < MaxSequence
      BY <1>1 DEF CanAdmit
    <3> QED BY <3>2, <3>3, <3>4, <3>5
  <2> QED BY <1>6, <2>2, <2>3, SoundFurther
<1> QED BY <1>2, <1>4, <1>5, <1>7, <1>8, <1>9, <1>10 DEF HistoryInv

\* The file is opened, or refused.
LEMMA OpenHistory ==
  ASSUME ~KeyReuse, HistoryInv, Open
  PROVE  HistoryInv'
<1>1. /\ EngineInv /\ queue = <<>> /\ JournalInv /\ LineInv /\ mode = "Down"
      /\ pending = <<>> /\ replayed = 0
      /\ UNCHANGED vars /\ UNCHANGED <<journal, replayed, left, before>>
      /\ mode' = IF Readable THEN "Recovering" ELSE "Failed"
  BY DEF HistoryInv, JournalInv, Open
<1>2. JournalInv'
  BY <1>1, RecoveryJournals
<1>3. PICK B, I : Traced(journal, B, I) /\ Standing(B, I) /\ Awaited(B, I) /\ Serial(B)
  BY DEF HistoryInv
<1>4. LineInv' /\ Flying' = Flying /\ Shelved' = Shelved
  BY <1>1 DEF vars, LineInv, Flying, Shelved, InFlight
<1>5. Standing(B, I)'
  <2> SUFFICES ASSUME mode' # "Failed" PROVE StandsNow(journal, B, I, replayed)'
    BY <1>1 DEF Standing, Admitted
  <2>1. PICK j, n : j = journal /\ n = replayed
    OBVIOUS
  <2>2. StandsNow(j, B, I, n)
    BY <1>1, <1>3, <2>1 DEF Standing, Admitted
  <2>3. StandsNow(j, B, I, n)'
    BY <1>1, <1>4, <2>2, StandsStill DEF vars
  <2> QED BY <1>1, <2>1, <2>3
<1>6. Awaited(B, I)'
  BY <1>1, <1>3 DEF Awaited
<1>7. Serial(B)'
  BY <1>1, <1>3 DEF Serial, Sound
<1>8. Readable' = Readable
  BY <1>1 DEF Readable
<1> QED BY <1>1, <1>2, <1>3, <1>4, <1>5, <1>6, <1>7, <1>8 DEF HistoryInv

\* Recovery accepts the next record, which it does not refuse when clients wait.
LEMMA ReplayHistory ==
  ASSUME ~KeyReuse, HistoryInv, Replay
  PROVE  HistoryInv'
<1>1. /\ EngineInv /\ queue = <<>> /\ JournalInv /\ LineInv /\ mode = "Recovering" /\ pending = <<>>
      /\ Readable /\ nextSequence = replayed + 1 /\ replayed \in Nat
      /\ replayed < Len(journal) /\ replayed' = replayed + 1
      /\ UNCHANGED <<journal, left, before>>
  BY DEF HistoryInv, JournalInv, JournalShape, Replay, ToReplay
<1>2. JournalInv' /\ EngineInv'
  BY <1>1, RecoveryJournals DEF JournalInv
<1>3. PICK B, I : Traced(journal, B, I) /\ Standing(B, I) /\ Awaited(B, I) /\ Serial(B)
  BY DEF HistoryInv
<1>4. PICK j, n, command : j = journal /\ n = replayed /\ command = j[n + 1]
  OBVIOUS
<1>5. n + 1 \in 1..Len(j) /\ command \in Command /\ command # Torn
  BY <1>1, <1>4, JournalIsSeq DEF Readable
<1>6. StandsNow(j, B, I, n) /\ Len(j) \in Nat
  BY <1>1, <1>3, <1>4, JournalIsSeq DEF Standing, Admitted
<1>7. Shelved = B[n] /\ Readable' = Readable
  BY <1>1, <1>4, <1>6 DEF StandsNow, Stands, Readable
<1>8. ASSUME ~Acceptable(command) \/ ~CanAdmit PROVE ~Passed(j, B, n + 1)
  <2>1. Acceptable(command) <=> AcceptedBy(command, Shelved)
    BY <1>1, <1>5, AcceptableShown
  <2>2. CanAllocate(pool) <=> Cardinality(Shelved) < MaxOrders - 1
    BY <1>1, RoomShown
  <2>3. CanAdmit <=> nextSequence < MaxSequence /\ CanAllocate(pool)
    BY DEF CanAdmit
  <2>4. n + 1 - 1 = n
    BY <1>1, <1>4
  <2> QED BY <1>1, <1>4, <1>5, <1>7, <1>8, <2>1, <2>2, <2>3, <2>4 DEF Passed
<1>9. CASE Acceptable(command) /\ Admit(command) /\ UNCHANGED mode
  <2>1. StandsNow(j, B, I, n + 1)' /\ LineInv'
    BY <1>1, <1>2, <1>3, <1>4, <1>5, <1>6, <1>9, AdmitStands
  <2>2. Standing(B, I)'
    BY <1>1, <1>4, <1>9, <2>1 DEF Standing, Admitted
  <2>3. Awaited(B, I)'
    BY <1>1, <1>3, <1>9 DEF Awaited
  <2>4. ASSUME MaxInFlight <= 1 PROVE Sound(j, B, n + 1)
    <3>1. Sound(j, B, n)
      BY <1>1, <1>3, <1>4, <2>4 DEF Serial
    <3>2. Passed(j, B, n + 1)
      <4>1. AcceptedBy(command, Shelved)
        BY <1>1, <1>5, <1>9, AcceptableShown
      <4>2. Cardinality(Shelved) < MaxOrders - 1 /\ nextSequence < MaxSequence
        BY <1>1, <1>9, RoomShown DEF Admit, CanAdmit
      <4>3. n + 1 - 1 = n
        BY <1>1, <1>4
      <4> QED BY <1>1, <1>4, <1>7, <4>1, <4>2, <4>3 DEF Passed
    <3> QED BY <1>1, <1>4, <3>1, <3>2, SoundFurther
  <2>5. Serial(B)'
    BY <1>1, <1>3, <1>4, <1>9, <2>4 DEF Serial
  <2> QED BY <1>1, <1>2, <1>3, <1>9, <2>1, <2>2, <2>3, <2>5 DEF HistoryInv
<1>10. CASE (~Acceptable(command) \/ ~CanAdmit) /\ mode' = "Failed" /\ UNCHANGED vars
  <2>1. ~Passed(j, B, n + 1)
    BY <1>8, <1>10
  <2>2. MaxInFlight <= 1 => left # {}
    BY <1>1, <1>3, <1>4, <1>5, <2>1 DEF Serial, Sound
  <2>3. LineInv'
    BY <1>1, <1>10 DEF vars, LineInv, InFlight
  <2>4. Standing(B, I)' /\ Awaited(B, I)' /\ Serial(B)'
    BY <1>10 DEF Standing, Awaited, Serial
  <2> QED BY <1>1, <1>2, <1>3, <1>10, <2>2, <2>3, <2>4 DEF HistoryInv
<1> QED BY <1>1, <1>4, <1>9, <1>10 DEF Replay

\* The engine that has replayed the whole journal serves again.
LEMMA RecoveredHistory ==
  ASSUME ~KeyReuse, HistoryInv, Recovered
  PROVE  HistoryInv'
<1>1. /\ EngineInv /\ JournalInv /\ LineInv /\ mode = "Recovering" /\ mode' = "Up"
      /\ replayed = Len(journal) /\ UNCHANGED vars /\ UNCHANGED <<journal, replayed, before>>
  BY DEF HistoryInv, JournalInv, JournalShape, Recovered, ToReplay
<1>2. JournalInv'
  BY <1>1, RecoveryJournals
<1>3. PICK B, I : Traced(journal, B, I) /\ Standing(B, I) /\ Awaited(B, I) /\ Serial(B)
  BY DEF HistoryInv
<1>4. LineInv' /\ Flying' = Flying /\ Shelved' = Shelved
  BY <1>1 DEF vars, LineInv, Flying, Shelved, InFlight
<1>5. Standing(B, I)'
  <2>1. PICK j, n : j = journal /\ n = replayed
    OBVIOUS
  <2>2. StandsNow(j, B, I, n)
    BY <1>1, <1>3, <2>1 DEF Standing, Admitted
  <2>3. StandsNow(j, B, I, n)'
    BY <1>1, <1>4, <2>2, StandsStill DEF vars
  <2> QED BY <1>1, <2>1, <2>3 DEF Standing, Admitted
<1>6. Awaited(B, I)'
  BY <1>1 DEF Awaited
<1>7. Serial(B)'
  BY <1>1, <1>3 DEF Serial
<1> QED BY <1>1, <1>2, <1>3, <1>4, <1>5, <1>6, <1>7 DEF HistoryInv

\* Nothing happens.
LEMMA StutterHistory ==
  ASSUME HistoryInv, UNCHANGED allVars
  PROVE  HistoryInv'
<1>1. UNCHANGED vars /\ UNCHANGED <<journal, mode, replayed, left, before>>
  BY DEF allVars, durableVars
<1>2. JournalInv'
  BY <1>1 DEF HistoryInv, JournalInv, JournalShape, vars, EngineInv, InFlight, Readable
<1>3. PICK B, I : Traced(journal, B, I) /\ Standing(B, I) /\ Awaited(B, I) /\ Serial(B)
  BY DEF HistoryInv
<1>4. LineInv' /\ Flying' = Flying /\ Shelved' = Shelved
  BY <1>1 DEF vars, HistoryInv, LineInv, Flying, Shelved, InFlight
<1>5. Standing(B, I)'
  BY <1>1, <1>3, <1>4 DEF Standing, Admitted, StandsNow, vars
<1>6. Awaited(B, I)' /\ Serial(B)'
  BY <1>1, <1>3 DEF Awaited, Serial
<1> QED BY <1>1, <1>2, <1>3, <1>4, <1>5, <1>6 DEF HistoryInv, Readable

\* The invariant is inductive.
LEMMA HistoryInvariant ==
  ASSUME ~KeyReuse
  PROVE  DSpec => []HistoryInv
<1>1. DInit => HistoryInv
  BY HistoryStarts
<1>2. HistoryInv /\ [DNext]_allVars => HistoryInv'
  <2> SUFFICES ASSUME HistoryInv, [DNext]_allVars PROVE HistoryInv'
    OBVIOUS
  <2>1. ASSUME NEW command \in Command, AcceptDurable(command) PROVE HistoryInv'
    BY <2>1, AcceptDurableHistory
  <2>2. ASSUME NEW command \in Command, AppendFails(command) PROVE HistoryInv'
    BY <2>2, AppendFailsHistory
  <2>3. ASSUME NEW command \in Command, CrashInAppend(command) PROVE HistoryInv'
    BY <2>3, CrashInAppendHistory
  <2>4. CASE ProcessAccepted
    BY <2>4, ProcessAcceptedHistory
  <2>5. CASE Crash
    BY <2>5, CrashHistory
  <2>6. CASE Open
    BY <2>6, OpenHistory
  <2>7. CASE Replay
    BY <2>7, ReplayHistory
  <2>8. CASE Recovered
    BY <2>8, RecoveredHistory
  <2>9. CASE UNCHANGED allVars
    BY <2>9, StutterHistory
  <2> QED BY <2>1, <2>2, <2>3, <2>4, <2>5, <2>6, <2>7, <2>8, <2>9 DEF DNext
<1> QED BY <1>1, <1>2, PTL DEF DSpec

\* An engine that was idle when it crashed comes back as it was, with the same orders, order
\* ids and sequence numbers (recover_from_command_journal).
THEOREM ComesBackAsBefore ==
  ASSUME ~KeyReuse
  PROVE  DSpec => RecoveredAsBefore
<1>1. HistoryInv /\ [DNext]_allVars =>
        [mode = "Recovering" /\ mode' = "Up" /\ before.idle /\ left = {} => View = before.view]_allVars
  <2> SUFFICES ASSUME HistoryInv, [DNext]_allVars, mode = "Recovering", mode' = "Up", before.idle, left = {}
               PROVE  View = before.view
    OBVIOUS
  <2>1. PICK B, I : Traced(journal, B, I) /\ Standing(B, I) /\ Awaited(B, I)
    BY DEF HistoryInv
  <2>2. Recovered
    BY DEF DNext, AcceptDurable, AppendFails, CrashInAppend, Crash, Die, Open, Replay, ProcessAccepted, Recovered, allVars, durableVars
  <2>3. pending = <<>> /\ replayed = Len(journal) /\ Len(journal) \in Nat
    <3>1. Len(journal) \in Nat
      BY JournalIsSeq DEF HistoryInv
    <3> QED BY <2>2, <3>1 DEF HistoryInv, JournalInv, JournalShape, Recovered, ToReplay
  <2>4. StandsNow(journal, B, I, Len(journal))
    BY <2>1, <2>3 DEF Standing, Admitted
  <2>5. /\ nextSequence = Len(journal) + 1 /\ nextExchangeOrderId = I[Len(journal)] /\ Shelved = B[Len(journal)]
    BY <2>3, <2>4 DEF StandsNow, Stands
  <2>6. {OrderIn(s) : s \in Resting} = Shelved
    BY InstanceSees
  <2>7. View = ViewAt(B, I, Len(journal))
    BY <2>5, <2>6 DEF View, ViewAt
  <2> QED BY <2>1, <2>7 DEF Awaited
<1> QED BY <1>1, HistoryInvariant, PTL DEF DSpec, RecoveredAsBefore

\* Recovery refuses no command that was acknowledged, when clients wait for one command before
\* they send the next (recover_from_command_journal).
THEOREM AcknowledgedIsRecovered ==
  ASSUME ~KeyReuse, MaxInFlight <= 1
  PROVE  DSpec => []RecoversUnlessTorn
<1>1. HistoryInv => RecoversUnlessTorn
  BY DEF HistoryInv, RecoversUnlessTorn
<1> QED BY <1>1, HistoryInvariant, PTL
===============================================================================
