------------------------------ MODULE TransitProofs -----------------------------
(***************************************************************************)
(* Commands on their way: to the standby, to the replicas of a quorum, and *)
(* through the bytes of a frame and of the command journal.                *)
(***************************************************************************)
EXTENDS Replication, QuorumTracker, Codec, FiniteSetTheorems, SequenceTheorems, SumLemmas

(***************************************************************************)
(* The standby, for every set of client order ids and every capacity: one  *)
(* whose digest agrees with the primary's has missed nothing, and what the *)
(* two agreed on survives the failover.                                    *)
(*                                                                         *)
(* The properties are not inductive.  What makes them so is the count: an  *)
(* engine numbers its commands without gaps, so two equal digests mean     *)
(* logs of one length; and a standby that ever missed a command stays      *)
(* shorter than its primary, so logs of one length are the same log.       *)
(***************************************************************************)
\* An engine's counter is the number of commands it has accepted, plus one.
Counted == \A g \in Generation : engine[g].next = Len(engine[g].log) + 1

\* Until it takes over, the standby has accepted all of the primary's commands
\* or fewer than the primary.
InStep ==
  ~tookOver => /\ Len(engine[2].log) <= Len(engine[1].log)
               /\ Len(engine[2].log) = Len(engine[1].log) => engine[2].log = engine[1].log

Kept == IsPrefix(replicated, engine[2].log)

Inv == TypeOK /\ Counted /\ InStep /\ AgreementIsComplete /\ Kept

Engine == [log : Seq(Command), resting : SUBSET (ClientOrderId \X Nat), next : Nat]

-----------------------------------------------------------------------------
\* An engine that accepts a command is still well typed, has it at the end of
\* its log and has counted it (accept_command).
LEMMA AfterTyped ==
  ASSUME NEW e \in Engine, NEW command \in Command
  PROVE  /\ After(e, command) \in Engine
         /\ After(e, command).log = Append(e.log, command)
         /\ After(e, command).next = e.next + 1
<1>1. Append(e.log, command) \in Seq(Command) /\ e.next + 1 \in Nat
  BY DEF Engine
<1>2. {r \in e.resting : r[1] # command.name} \in SUBSET (ClientOrderId \X Nat)
  BY DEF Engine
<1>3. command.kind = "New" => e.resting \cup {<<command.name, e.next>>} \in SUBSET (ClientOrderId \X Nat)
  BY DEF Engine, Command
<1> QED
  BY <1>1, <1>2, <1>3 DEF After, Engine

\* What is at the start of a log is at the start of the log after an append.
LEMMA PrefixOfAppend ==
  ASSUME NEW S, NEW s \in Seq(S), NEW t \in Seq(S), NEW x \in S, IsPrefix(s, t)
  PROVE  IsPrefix(s, Append(t, x))
<1>1. Len(Append(t, x)) = Len(t) + 1 /\ Len(s) <= Len(t)
  BY DEF IsPrefix
<1>2. SubSeq(Append(t, x), 1, Len(s)) = SubSeq(t, 1, Len(s))
  BY <1>1
<1> QED
  BY <1>1, <1>2 DEF IsPrefix

\* Two engines that have counted their commands and have one digest have logs
\* of one length (state_fingerprint mixes the counters in).
LEMMA SameFingerprint ==
  ASSUME NEW e \in Engine, NEW f \in Engine,
         e.next = Len(e.log) + 1, f.next = Len(f.log) + 1,
         Fingerprint(e) = Fingerprint(f)
  PROVE  Len(e.log) = Len(f.log)
<1>1. e.next = f.next
  BY DEF Fingerprint
<1> QED
  BY <1>1 DEF Engine

-----------------------------------------------------------------------------
LEMMA InvInit == Init => Inv
<1> SUFFICES ASSUME Init PROVE Inv
  OBVIOUS
<1>1. NewEngine \in Engine /\ NewEngine.log = <<>> /\ NewEngine.next = 1
  BY DEF NewEngine, Engine
<1>2. TypeOK
  BY <1>1 DEF Init, TypeOK, Engine, Generation
<1>3. Counted /\ InStep
  BY <1>1 DEF Init, Counted, InStep, Generation
<1>4. AgreementIsComplete
  BY DEF Init, AgreementIsComplete
<1>5. Kept
  BY <1>1 DEF Init, Kept, IsPrefix, Generation
<1> QED
  BY <1>2, <1>3, <1>4, <1>5 DEF Inv

\* Steps that leave the engines, and what is recorded of them, alone.
LEMMA InvElsewhere ==
  ASSUME Inv, TypeOK', UNCHANGED <<engine, outcome, replicated>>, tookOver => tookOver'
  PROVE  Inv'
<1>1. Counted' /\ Kept'
  BY DEF Inv, Counted, Kept
<1>2. InStep' /\ AgreementIsComplete'
  BY DEF Inv, InStep, AgreementIsComplete
<1> QED
  BY <1>1, <1>2 DEF Inv

\* A turn whose command the primary refuses.
LEMMA InvReject ==
  ASSUME Inv, TypeOK', UNCHANGED <<engine, replicated, tookOver>>, outcome' # "Ok"
  PROVE  Inv'
  BY DEF Inv, Counted, InStep, AgreementIsComplete, Kept

\* A turn in which one engine alone accepts the command: the engine of a
\* sequencer without a standby, or a primary whose standby refuses.
LEMMA InvAlone ==
  ASSUME Inv, TypeOK', NEW g \in Generation, NEW command \in Command,
         engine' = [engine EXCEPT ![g] = After(@, command)],
         g = 2 => tookOver,
         outcome' # "Ok",
         UNCHANGED <<tookOver, replicated>>
  PROVE  Inv'
<1> DEFINE e == After(engine[g], command)
<1>1. engine \in [Generation -> Engine]
  BY DEF Inv, TypeOK, Engine
<1>2. engine[g] \in Engine
  BY <1>1
<1>3. e \in Engine /\ e.log = Append(engine[g].log, command) /\ e.next = engine[g].next + 1
  BY <1>2, AfterTyped
<1>4. \A h \in Generation : engine'[h] = IF h = g THEN e ELSE engine[h]
  BY <1>1
<1> HIDE DEF e
<1>5. engine[g].log \in Seq(Command) /\ engine[g].next \in Nat
  BY <1>2 DEF Engine
<1>6. Len(e.log) = Len(engine[g].log) + 1
  BY <1>3, <1>5
<1>7. Counted'
  BY <1>3, <1>4, <1>5, <1>6 DEF Inv, Counted
<1>8. InStep'
  <2> SUFFICES ASSUME ~tookOver PROVE InStep'
    BY DEF InStep
  <2>1. g = 1
    BY DEF Generation
  <2>2. engine'[1] = e /\ engine'[2] = engine[2]
    BY <1>4, <2>1 DEF Generation
  <2>3. engine[2].log \in Seq(Command)
    BY <1>1 DEF Engine, Generation
  <2>4. Len(engine[2].log) < Len(e.log)
    BY <1>5, <1>6, <2>1, <2>3 DEF Inv, InStep
  <2> QED
    BY <2>2, <2>3, <2>4, <1>5, <1>6 DEF InStep
<1>9. Kept'
  <2>1. CASE g = 1
    BY <2>1, <1>4 DEF Inv, Kept, Generation
  <2>2. CASE g = 2
    <3>1. engine'[2].log = Append(engine[2].log, command)
      BY <1>3, <1>4, <2>2
    <3>2. IsPrefix(replicated, Append(engine[2].log, command))
      BY <1>5, <2>2, PrefixOfAppend DEF Inv, Kept, TypeOK
    <3> QED
      BY <3>1, <3>2 DEF Kept
  <2> QED
    BY <2>1, <2>2 DEF Generation
<1>10. AgreementIsComplete'
  BY DEF AgreementIsComplete
<1> QED
  BY <1>7, <1>8, <1>9, <1>10 DEF Inv

\* A turn in which primary and standby both accept the command.
LEMMA InvBoth ==
  ASSUME Inv, TypeOK', ~tookOver, NEW command \in Command,
         engine' = [engine EXCEPT ![1] = After(engine[1], command),
                                  ![2] = After(engine[2], command)],
         IF Fingerprint(After(engine[1], command)) = Fingerprint(After(engine[2], command))
         THEN outcome' = "Ok" /\ replicated' = After(engine[1], command).log
         ELSE outcome' = "Diverged" /\ UNCHANGED replicated,
         UNCHANGED tookOver
  PROVE  Inv'
<1> DEFINE p == After(engine[1], command)
           s == After(engine[2], command)
<1>1. engine \in [Generation -> Engine]
  BY DEF Inv, TypeOK, Engine
<1>2. engine[1] \in Engine /\ engine[2] \in Engine
  BY <1>1 DEF Generation
<1>3. /\ p \in Engine /\ p.log = Append(engine[1].log, command) /\ p.next = engine[1].next + 1
      /\ s \in Engine /\ s.log = Append(engine[2].log, command) /\ s.next = engine[2].next + 1
  BY <1>2, AfterTyped
<1>4. engine'[1] = p /\ engine'[2] = s
  BY <1>1 DEF Generation
<1>5. IF Fingerprint(p) = Fingerprint(s) THEN outcome' = "Ok" /\ replicated' = p.log
      ELSE outcome' = "Diverged" /\ UNCHANGED replicated
  OBVIOUS
<1> HIDE DEF p, s
<1>6. /\ engine[1].log \in Seq(Command) /\ engine[1].next \in Nat
      /\ engine[2].log \in Seq(Command) /\ engine[2].next \in Nat
  BY <1>2 DEF Engine
<1>7. Len(p.log) = Len(engine[1].log) + 1 /\ Len(s.log) = Len(engine[2].log) + 1
  BY <1>3, <1>6
<1>8. engine[1].next = Len(engine[1].log) + 1 /\ engine[2].next = Len(engine[2].log) + 1
  BY DEF Inv, Counted, Generation
<1>9. p.next = Len(p.log) + 1 /\ s.next = Len(s.log) + 1
  BY <1>3, <1>6, <1>7, <1>8
<1>10. Len(s.log) <= Len(p.log) /\ (Len(s.log) = Len(p.log) => s.log = p.log)
  BY <1>3, <1>6, <1>7 DEF Inv, InStep
<1>11. Counted' /\ InStep'
  BY <1>4, <1>9, <1>10 DEF Counted, InStep, Generation
<1>12. CASE Fingerprint(p) = Fingerprint(s)
  <2>1. p.log = s.log
    BY <1>3, <1>9, <1>10, <1>12, SameFingerprint
  <2>2. AgreementIsComplete'
    BY <1>4, <1>5, <1>12, <2>1 DEF AgreementIsComplete
  <2>3. IsPrefix(s.log, s.log)
    BY DEF IsPrefix
  <2>4. Kept'
    BY <1>4, <1>5, <1>12, <2>1, <2>3 DEF Kept
  <2> QED
    BY <1>11, <2>2, <2>4 DEF Inv
<1>13. CASE Fingerprint(p) # Fingerprint(s)
  <2>1. AgreementIsComplete'
    BY <1>5, <1>13 DEF AgreementIsComplete
  <2> replicated \in Seq(Command) /\ IsPrefix(replicated, engine[2].log)
    BY DEF Inv, Kept, TypeOK
  <2>2. IsPrefix(replicated, s.log)
    BY <1>3, <1>6, PrefixOfAppend
  <2>3. Kept'
    BY <1>4, <1>5, <1>13, <2>2 DEF Kept
  <2> QED
    BY <1>11, <2>1, <2>3 DEF Inv
<1> QED
  BY <1>12, <1>13

-----------------------------------------------------------------------------
\* Every step keeps the types of replication.rs.
LEMMA TypeNext == TypeOK /\ [Next]_vars => TypeOK'
<1> SUFFICES ASSUME TypeOK, [Next]_vars PROVE TypeOK'
  OBVIOUS
<1> USE DEF Generation
<1>0. engine \in [Generation -> Engine] /\ engine[1] \in Engine /\ engine[2] \in Engine
  BY DEF TypeOK, Engine
<1>1. ASSUME NEW g \in Generation, NEW generation \in Generation, NEW command \in Command,
             Submit(g, generation, command)
      PROVE  TypeOK'
  <2>1. queue' \in [Generation -> Seq(Command)]
    <3>1. Append(queue[g], command) \in Seq(Command)
      BY DEF TypeOK
    <3> QED BY <1>1, <3>1 DEF Submit, TypeOK
  <2>2. submitted' \in [Generation -> Nat]
    BY <1>1 DEF Submit, TypeOK
  <2>3. UNCHANGED <<engine, fence, tookOver, outcome, replicated>>
    BY <1>1 DEF Submit
  <2> QED BY <2>1, <2>2, <2>3 DEF TypeOK
<1>2. ASSUME NEW g \in Generation, NEW withStandby \in BOOLEAN, DrainTurn(g, withStandby)
      PROVE  TypeOK'
  <2> DEFINE command == Head(queue[g])
  <2>1. queue[g] \in Seq(Command) /\ queue[g] # <<>>
    BY <1>2 DEF DrainTurn, TypeOK
  <2>2. command \in Command /\ Tail(queue[g]) \in Seq(Command)
    BY <2>1
  <2>3. queue' \in [Generation -> Seq(Command)]
    BY <1>2, <2>2 DEF DrainTurn, TypeOK
  <2>4. UNCHANGED <<submitted, fence, tookOver>>
    BY <1>2 DEF DrainTurn
  <2>5. \A h \in Generation : After(engine[h], command) \in Engine
                              /\ After(engine[h], command).log \in Seq(Command)
    BY <1>0, <2>2, AfterTyped DEF Engine
  <2>6. \/ Reject(g)
        \/ DrainReplicated(command)
        \/ DrainAlone(g, command)
    BY <1>2 DEF DrainTurn
  <2> HIDE DEF command
  <2>7. engine' \in [Generation -> Engine] /\ replicated' \in Seq(Command)
        /\ outcome' \in {"None", "Ok", "Alone", "Fenced", "Reject", "Diverged"}
    <3>1. CASE Reject(g)
      BY <3>1, <1>0 DEF Reject, TypeOK
    <3>2. CASE DrainReplicated(command)
      <4>1. replicated' \in Seq(Command)
            /\ outcome' \in {"None", "Ok", "Alone", "Fenced", "Reject", "Diverged"}
        BY <3>2, <2>5 DEF DrainReplicated, TypeOK
      <4>2. engine' \in [Generation -> Engine]
        BY <3>2, <1>0, <2>5 DEF DrainReplicated
      <4> QED
        BY <4>1, <4>2
    <3>3. CASE DrainAlone(g, command)
      <4>1. engine' = [engine EXCEPT ![g] = After(engine[g], command)]
        BY <3>3 DEF DrainAlone
      <4>2. engine' \in [Generation -> Engine]
        BY <4>1, <1>0, <2>5
      <4>3. replicated' \in Seq(Command) /\ outcome' = "Alone"
        BY <3>3 DEF DrainAlone, TypeOK
      <4> QED
        BY <4>2, <4>3
    <3> QED
      BY <2>6, <3>1, <3>2, <3>3
  <2> QED
    BY <2>3, <2>4, <2>7 DEF TypeOK, Engine
<1>3. ASSUME NEW g \in Generation, Promote(g) PROVE TypeOK'
  BY <1>3 DEF Promote, TypeOK
<1>4. ASSUME TakeOver PROVE TypeOK'
  BY <1>4 DEF TakeOver, TypeOK
<1>5. CASE UNCHANGED vars
  BY <1>5 DEF vars, TypeOK
<1> QED
  BY <1>1, <1>2, <1>3, <1>4, <1>5 DEF Next

LEMMA InvNext == Inv /\ [Next]_vars => Inv'
<1> SUFFICES ASSUME Inv, [Next]_vars PROVE Inv'
  OBVIOUS
<1>0. TypeOK'
  BY TypeNext DEF Inv
<1>1. ASSUME NEW g \in Generation, NEW generation \in Generation, NEW command \in Command,
             Submit(g, generation, command)
      PROVE  Inv'
  BY <1>0, <1>1, InvElsewhere DEF Submit
<1>2. ASSUME NEW g \in Generation, NEW withStandby \in BOOLEAN, DrainTurn(g, withStandby)
      PROVE  Inv'
  <2> DEFINE command == Head(queue[g])
  <2>1. command \in Command
    BY <1>2 DEF DrainTurn, Inv, TypeOK
  <2>2. UNCHANGED tookOver
    BY <1>2 DEF DrainTurn
  <2>3. CASE ~Accepts(engine[g], command)
    BY <1>0, <1>2, <2>2, <2>3, InvReject DEF DrainTurn, Reject
  <2>4. CASE Accepts(engine[g], command) /\ withStandby
    <3>1. g = 1 /\ ~tookOver /\ DrainReplicated(command)
      BY <1>2, <2>4 DEF DrainTurn
    <3> HIDE DEF command
    <3>2. \/ /\ engine' = [engine EXCEPT ![1] = After(engine[1], command)]
             /\ outcome' # "Ok"
             /\ UNCHANGED replicated
          \/ /\ engine' = [engine EXCEPT ![1] = After(engine[1], command),
                                         ![2] = After(engine[2], command)]
             /\ IF Fingerprint(After(engine[1], command)) = Fingerprint(After(engine[2], command))
                THEN outcome' = "Ok" /\ replicated' = After(engine[1], command).log
                ELSE outcome' = "Diverged" /\ UNCHANGED replicated
      BY <3>1 DEF DrainReplicated
    <3>3. CASE /\ engine' = [engine EXCEPT ![1] = After(engine[1], command)]
               /\ outcome' # "Ok"
               /\ UNCHANGED replicated
      <4>1. 1 \in Generation /\ (1 = 2 => tookOver)
        BY DEF Generation
      <4> QED
        BY <1>0, <2>1, <2>2, <3>3, <4>1, InvAlone
    <3>4. CASE /\ engine' = [engine EXCEPT ![1] = After(engine[1], command),
                                           ![2] = After(engine[2], command)]
               /\ IF Fingerprint(After(engine[1], command)) = Fingerprint(After(engine[2], command))
                  THEN outcome' = "Ok" /\ replicated' = After(engine[1], command).log
                  ELSE outcome' = "Diverged" /\ UNCHANGED replicated
      BY <1>0, <2>1, <2>2, <3>1, <3>4, InvBoth
    <3> QED
      BY <3>2, <3>3, <3>4
  <2>5. CASE Accepts(engine[g], command) /\ ~withStandby
    <3>1. engine' = [engine EXCEPT ![g] = After(@, command)] /\ outcome' # "Ok"
          /\ UNCHANGED replicated
      BY <1>2, <2>5 DEF DrainTurn, DrainAlone
    <3>2. g = 2 => tookOver
      BY <1>2 DEF DrainTurn
    <3> QED
      BY <1>0, <2>1, <2>2, <3>1, <3>2, InvAlone
  <2> QED
    BY <2>3, <2>4, <2>5
<1>3. ASSUME NEW g \in Generation, Promote(g) PROVE Inv'
  BY <1>0, <1>3, InvElsewhere DEF Promote
<1>4. ASSUME TakeOver PROVE Inv'
  BY <1>0, <1>4, InvElsewhere DEF TakeOver
<1>5. CASE UNCHANGED vars
  BY <1>0, <1>5, InvElsewhere DEF vars
<1> QED
  BY <1>1, <1>2, <1>3, <1>4, <1>5 DEF Next

-----------------------------------------------------------------------------
\* Whenever drain_into reports agreement, the standby has every command of the
\* primary, for every set of names, every capacity and every run.
THEOREM AgreementComplete == Spec => []AgreementIsComplete
<1>1. Inv => AgreementIsComplete
  BY DEF Inv
<1> QED
  BY <1>1, InvInit, InvNext, PTL DEF Spec

\* What primary and standby agreed on is what the promoted standby starts from.
THEOREM ReplicatedKept == Spec => []ReplicatedSurvives
<1>1. Inv => ReplicatedSurvives
  BY DEF Inv, Kept, ReplicatedSurvives
<1> QED
  BY <1>1, InvInit, InvNext, PTL DEF Spec

\* A turn of the old primary reaches the standby only while apply lets its
\* generation through; every other step of the standby's engine comes after the
\* takeover.  So once it is promoted the old primary cannot change it any more.
THEOREM OldPrimaryFenced == Spec => StandbyFenced
<1>1. TypeOK /\ [Next]_vars => (engine'[2] # engine[2] => tookOver \/ fence = 1)
  <2> SUFFICES ASSUME TypeOK, [Next]_vars, engine'[2] # engine[2]
               PROVE  tookOver \/ fence = 1
    OBVIOUS
  <2> USE DEF Generation
  <2>0. DOMAIN engine = Generation
    BY DEF TypeOK
  <2>1. PICK g \in Generation, withStandby \in BOOLEAN : DrainTurn(g, withStandby)
    BY DEF Next, Submit, Promote, TakeOver, vars
  <2> DEFINE command == Head(queue[g])
  <2>2. CASE g = 2
    BY <2>1, <2>2 DEF DrainTurn
  <2>3. CASE g = 1
    <3>1. \/ Reject(g) \/ DrainReplicated(command) \/ DrainAlone(g, command)
      BY <2>1 DEF DrainTurn
    <3> HIDE DEF command
    <3>2. ~Reject(g)
      BY DEF Reject
    <3>3. ~DrainAlone(g, command)
      BY <2>0, <2>3 DEF DrainAlone
    <3>4. ~(engine' = [engine EXCEPT ![1] = After(engine[1], command)])
      BY <2>0
    <3>5. ~Fences(1)
      BY <3>1, <3>2, <3>3, <3>4 DEF DrainReplicated
    <3> QED
      BY <3>5 DEF Fences
  <2> QED
    BY <2>2, <2>3
<1>2. Inv => TypeOK
  BY DEF Inv
<1> QED
  BY <1>1, <1>2, InvInit, InvNext, PTL DEF Spec, StandbyFenced

-----------------------------------------------------------------------------
(***************************************************************************)
(* The quorum, for every cluster size, every earlier leader and every      *)
(* number of entries: what the tracker has committed is stored by a        *)
(* majority.                                                               *)
(***************************************************************************)
EntryAt(k) == [generation |-> Leader, index |-> k]

\* What CommittedHeld rests on: an acknowledgement that counts comes from a
\* replica that stores the next index, and no replica stores an entry of this
\* leader that the leader does not have.
QuorumInv ==
  /\ QuorumTypeOK
  /\ CommittedHeld
  /\ \A r \in acked : EntryAt(committed + 1) \in holds[r]
  /\ \A r \in Replica : \A e \in holds[r] : e.generation = Leader => e.index <= lastIndex

\* The replicas are finitely many.
LEMMA ReplicaFinite == IsFiniteSet(Replica)
BY QuorumAssumption, FS_Interval DEF Replica

\* More replicas make a majority of a majority: used for every step that only
\* adds to what the replicas hold, and for the step that completes a quorum.
LEMMA MajorityGrows ==
  ASSUME NEW S, NEW T, S \subseteq T, T \subseteq Replica, Cardinality(S) >= QuorumSize
  PROVE  Cardinality(T) >= QuorumSize
<1>1. IsFiniteSet(T)
  BY ReplicaFinite, FS_Subset
<1>2. IsFiniteSet(S) /\ Cardinality(S) <= Cardinality(T)
  BY <1>1, FS_Subset
<1>3. Cardinality(S) \in Nat /\ Cardinality(T) \in Nat
  BY <1>1, <1>2, FS_CardinalityType
<1>4. QuorumSize \in Nat
  BY QuorumAssumption DEF QuorumSize
<1> QED
  BY <1>2, <1>3, <1>4

\* A new log and tracker satisfy the invariant: the entries that the replicas
\* hold then are those of earlier leaders.
LEMMA QuorumStart == QuorumInit => QuorumInv
<1> SUFFICES ASSUME QuorumInit PROVE QuorumInv
  OBVIOUS
<1>1. QuorumTypeOK
  BY QuorumAssumption DEF QuorumInit, QuorumTypeOK, Entry
<1>2. CommittedHeld
  BY DEF QuorumInit, CommittedHeld
<1>3. \A r \in Replica : \A e \in holds[r] : e.generation # Leader
  BY QuorumAssumption DEF QuorumInit, Entry
<1> QED
  BY <1>1, <1>2, <1>3 DEF QuorumInv, QuorumInit

\* Every step keeps the invariant.
LEMMA QuorumStep == QuorumInv /\ [QuorumNext]_quorumVars => QuorumInv'
<1> SUFFICES ASSUME QuorumInv, [QuorumNext]_quorumVars PROVE QuorumInv'
  OBVIOUS
<1> USE QuorumAssumption
<1>0. /\ lastIndex \in Nat /\ committed \in Nat /\ MaxIndex \in Nat
      /\ lastIndex <= MaxIndex /\ committed <= lastIndex
      /\ acked \subseteq Replica
      /\ holds \in [Replica -> SUBSET Entry]
  BY DEF QuorumInv, QuorumTypeOK, CommittedHeld
<1>1. CASE AppendEntry
  <2>1. QuorumTypeOK'
    BY <1>0, <1>1 DEF AppendEntry, QuorumTypeOK
  <2>2. CommittedHeld'
    BY <1>0, <1>1 DEF AppendEntry, QuorumInv, CommittedHeld, Holders, QuorumSize
  <2>3. \A r \in Replica : \A e \in holds[r] : e.generation = Leader => e.index <= lastIndex + 1
    <3> SUFFICES ASSUME NEW r \in Replica, NEW e \in holds[r], e.generation = Leader
                 PROVE  e.index <= lastIndex + 1
      OBVIOUS
    <3>1. e.index \in Nat
      BY <1>0 DEF Entry
    <3> QED
      BY <1>0, <3>1 DEF QuorumInv
  <2> QED
    BY <1>1, <2>1, <2>2, <2>3 DEF AppendEntry, QuorumInv, EntryAt
<1>2. ASSUME NEW r \in Replica, Store(r) PROVE QuorumInv'
  <2>1. PICK k \in 1..lastIndex : holds' = [holds EXCEPT ![r] = @ \cup {EntryAt(k)}]
    BY <1>2 DEF Store, EntryAt
  <2>2. lastIndex' = lastIndex /\ committed' = committed /\ acked' = acked
    BY <1>2 DEF Store
  <2>3. EntryAt(k) \in Entry
    BY <1>0 DEF EntryAt, Entry
  <2>4. QuorumTypeOK'
    BY <1>0, <2>1, <2>2, <2>3 DEF QuorumTypeOK
  <2>5. \A s \in Replica : holds[s] \subseteq holds'[s]
    BY <1>0, <2>1
  <2>6. CommittedHeld'
    <3> SUFFICES ASSUME NEW j \in 1..committed PROVE Cardinality(Holders(j)') >= QuorumSize
      BY <1>0, <2>2 DEF CommittedHeld, QuorumSize
    <3>1. Cardinality(Holders(j)) >= QuorumSize
      BY DEF QuorumInv, CommittedHeld
    <3>2. Holders(j) \subseteq Holders(j)' /\ Holders(j)' \subseteq Replica
      BY <2>5 DEF Holders, Replica
    <3> QED
      BY <3>1, <3>2, MajorityGrows
  <2>7. \A s \in acked : EntryAt(committed + 1) \in holds'[s]
    BY <1>0, <2>5 DEF QuorumInv
  <2>8. \A s \in Replica : \A e \in holds'[s] : e.generation = Leader => e.index <= lastIndex
    <3> SUFFICES ASSUME NEW s \in Replica, NEW e \in holds'[s], e.generation = Leader
                 PROVE  e.index <= lastIndex
      OBVIOUS
    <3>1. CASE e \in holds[s]
      BY <3>1 DEF QuorumInv
    <3>2. CASE e = EntryAt(k)
      BY <1>0, <3>2 DEF EntryAt
    <3> QED
      BY <1>0, <2>1, <3>1, <3>2
  <2> QED
    BY <2>2, <2>4, <2>6, <2>7, <2>8 DEF QuorumInv, EntryAt, Replica
<1>3. ASSUME NEW r \in Replica, NEW e \in holds[r], Ack(r, e) PROVE QuorumInv'
  <2> DEFINE replicas == acked \cup {r}
  <2>1. e = EntryAt(committed + 1) /\ committed + 1 <= lastIndex
    <3>1. e \in Entry /\ e.generation = Leader /\ e.index = committed + 1
      BY <1>0, <1>3 DEF Ack, Counts
    <3> QED
      BY <3>1 DEF Entry, EntryAt, QuorumInv
  <2>2. \A s \in replicas : EntryAt(committed + 1) \in holds[s]
    BY <2>1 DEF QuorumInv
  <2>3. lastIndex' = lastIndex /\ holds' = holds
    BY <1>3 DEF Ack
  <2>4. \A s \in Replica : \A d \in holds'[s] : d.generation = Leader => d.index <= lastIndex'
    BY <2>3 DEF QuorumInv
  <2>5. CASE Cardinality(replicas) >= QuorumSize
    <3>1. committed' = committed + 1 /\ acked' = {}
      BY <1>3, <2>1, <2>5 DEF Ack, AckedAfter, EntryAt
    <3>2. QuorumTypeOK'
      BY <1>0, <2>1, <2>3, <3>1 DEF QuorumTypeOK
    <3>3. Cardinality(Holders(committed + 1)) >= QuorumSize
      <4>1. replicas \subseteq Holders(committed + 1) /\ Holders(committed + 1) \subseteq Replica
        BY <1>0, <2>2 DEF Holders, EntryAt
      <4> QED
        BY <2>5, <4>1, MajorityGrows
    <3>4. \A j \in 1..committed : Cardinality(Holders(j)) >= QuorumSize
      BY DEF QuorumInv, CommittedHeld
    <3>5. \A j \in 1..committed + 1 : Cardinality(Holders(j)) >= QuorumSize
      <4> HIDE DEF replicas
      <4> SUFFICES ASSUME NEW j \in 1..committed + 1 PROVE Cardinality(Holders(j)) >= QuorumSize
        OBVIOUS
      <4>1. CASE j \in 1..committed
        BY <3>4, <4>1
      <4>2. CASE j = committed + 1
        BY <3>3, <4>2
      <4> QED
        BY <1>0, <4>1, <4>2
    <3>6. CommittedHeld'
      BY <2>1, <2>3, <3>1, <3>5 DEF CommittedHeld, Holders, QuorumSize, Replica
    <3> QED
      BY <2>4, <3>1, <3>2, <3>6 DEF QuorumInv
  <2>6. CASE ~(Cardinality(replicas) >= QuorumSize)
    <3>1. committed' = committed /\ acked' = replicas
      BY <1>3, <2>6 DEF Ack
    <3>2. QuorumTypeOK'
      BY <1>0, <2>3, <3>1 DEF QuorumTypeOK
    <3>3. CommittedHeld'
      BY <2>3, <3>1 DEF QuorumInv, CommittedHeld, Holders, QuorumSize, Replica
    <3> QED
      BY <2>2, <2>3, <2>4, <3>1, <3>2, <3>3 DEF QuorumInv, EntryAt
  <2> QED
    BY <2>5, <2>6
<1>4. CASE UNCHANGED quorumVars
  BY <1>4 DEF quorumVars, QuorumInv, QuorumTypeOK, CommittedHeld, Holders, EntryAt, Replica, QuorumSize
<1> QED
  BY <1>1, <1>2, <1>3, <1>4 DEF QuorumNext

\* Whatever is lost, repeated, delayed or comes from an older leader: a committed
\* index is in the leader's log and stored by a majority (ack, quorum.rs).
THEOREM CommittedByMajority == QuorumSpec => []CommittedHeld
<1>1. QuorumInv => CommittedHeld
  BY DEF QuorumInv
<1> QED
  BY QuorumStart, QuorumStep, <1>1, PTL DEF QuorumSpec

-----------------------------------------------------------------------------
(***************************************************************************)
(* The bytes of a frame and of a journal, for every limit on a payload     *)
(* that leaves room for the longest message and for journals of any        *)
(* length.  The argument has four parts:                                   *)
(*  - what Fields writes is what Read finds: the cursor stands before      *)
(*    every field where the encoder put it (FieldsUnderCursor), which      *)
(*    holds of every layout, and the fourteen of the code are layouts;     *)
(*  - of all the bytes there are, a frame's own are the only ones its      *)
(*    checksum and its fixed fields agree with (OnlyOwnFrame), and what    *)
(*    stands at the front of a journal is a record with the command's own  *)
(*    payload or is refused (OnlyOwnRecord);                               *)
(*  - the fold of decode_records is a loop (LoopRuns), and behind m turns  *)
(*    it has read the first m records and stands where the (m + 1)-th      *)
(*    begins, or it has refused or finished (Reached, TurnKeeps);          *)
(*  - a change on the way changes the bytes, so a damaged frame is not the *)
(*    one that was encoded (CodecInv).                                     *)
(* A recursive definition says only that its value is chosen among the     *)
(* functions that satisfy an equation: each is shown to have one first.    *)
(***************************************************************************)
\* What the first part of a byte can be, and a byte.
Name ==
  {"Byte", "CRC", "MAGIC", "Noise", "account_id", "api_key", "begin", "book_side",
   "client_order_id", "client_timestamp", "code", "end", "exchange_order_id",
   "filled_quantity", "frame_sequence", "heartbeat_ticks", "id", "instrument_id",
   "new_client_order_id", "price", "quantity", "reason", "remaining_quantity", "sequence",
   "side", "status", "target_client_order_id", "token", "Admin", "NewOrder", "CancelOrder",
   "ReplaceOrder", "Logon", "ExecutionReport", "Reject", "Heartbeat", "ResendRequest",
   "Logout", "MarketData"}

Cell == Name \X Nat

\* A column of a layout: its name and its width.
Column == Name \X (Nat \ {0})

(***************************************************************************)
(* Functions defined by recursion over 1..n.                               *)
(***************************************************************************)
IsFlat(g, seqs, n) ==
  g = [i \in 1..n |-> IF i = 1 THEN seqs[i] ELSE g[i - 1] \o seqs[i]]

LEMMA FlatExists ==
  ASSUME NEW seqs, NEW n \in Nat
  PROVE  \E g : IsFlat(g, seqs, n)
<1> DEFINE Some == {k \in Nat : \E g : IsFlat(g, seqs, k)}
<1>1. 0 \in Some
  <2> DEFINE g == [i \in 1..0 |-> seqs[i]]
  <2>1. g = [i \in 1..0 |-> IF i = 1 THEN seqs[i] ELSE g[i - 1] \o seqs[i]]
    OBVIOUS
  <2>2. IsFlat(g, seqs, 0)
    BY <2>1 DEF IsFlat
  <2> HIDE DEF g
  <2> QED BY <2>2
<1>2. ASSUME NEW k \in Nat, k \in Some PROVE k + 1 \in Some
  <2>1. PICK g : IsFlat(g, seqs, k)
    BY <1>2
  <2>h. PICK h : h = [i \in 1..k + 1 |-> IF i = 1 THEN seqs[i] ELSE g[i - 1] \o seqs[i]]
    OBVIOUS
  <2>2. ASSUME NEW i \in 1..k PROVE h[i] = g[i]
    <3>1. g[i] = IF i = 1 THEN seqs[i] ELSE g[i - 1] \o seqs[i]
      BY <2>1 DEF IsFlat
    <3>2. i \in 1..k + 1
      OBVIOUS
    <3>3. h[i] = IF i = 1 THEN seqs[i] ELSE g[i - 1] \o seqs[i]
      BY <2>h, <3>2
    <3> QED BY <3>1, <3>3
  <2>3. h = [i \in 1..k + 1 |-> IF i = 1 THEN seqs[i] ELSE h[i - 1] \o seqs[i]]
    <3>1. \A i \in 1..k + 1 : i # 1 => h[i - 1] = g[i - 1]
      BY <2>2
    <3> QED BY <2>h, <3>1
  <2>4. IsFlat(h, seqs, k + 1)
    BY <2>3 DEF IsFlat
  <2>5. \E w : IsFlat(w, seqs, k + 1)
    BY <2>4, Zenon
  <2> QED BY ONLY <2>5, k \in Nat
<1>3. Nat \subseteq Some
  <2> HIDE DEF Some
  <2> QED BY <1>1, <1>2, Induction
<1> QED BY <1>3

\* The sequences of seqs up to the i-th, one behind the other.
IsPrefixes(g, seqs) ==
  /\ g[1] = seqs[1]
  /\ \A i \in 1..Len(seqs) - 1 : g[i + 1] = g[i] \o seqs[i + 1]
  /\ g[Len(seqs)] = FlattenSeq(seqs)

\* FlattenSeq puts one sequence behind the other.
LEMMA Flattens ==
  ASSUME NEW seqs, Len(seqs) \in Nat \ {0}
  PROVE  \E g : IsPrefixes(g, seqs)
<1> DEFINE g == CHOOSE w : IsFlat(w, seqs, Len(seqs))
<1>1. IsFlat(g, seqs, Len(seqs))
  BY FlatExists
<1>2. FlattenSeq(seqs) = g[Len(seqs)]
  BY DEF FlattenSeq, IsFlat
<1> HIDE DEF g
<1>3. /\ g[1] = seqs[1]
      /\ \A i \in 1..Len(seqs) - 1 : g[i + 1] = g[i] \o seqs[i + 1]
  <2>1. ASSUME NEW i \in 1..Len(seqs) PROVE g[i] = IF i = 1 THEN seqs[i] ELSE g[i - 1] \o seqs[i]
    BY <1>1 DEF IsFlat
  <2>2. ASSUME NEW i \in 1..Len(seqs) - 1 PROVE g[i + 1] = g[i] \o seqs[i + 1]
    <3>1. i + 1 \in 1..Len(seqs) /\ i + 1 # 1 /\ (i + 1) - 1 = i
      OBVIOUS
    <3> QED BY <2>1, <3>1
  <2>3. 1 \in 1..Len(seqs)
    OBVIOUS
  <2> QED BY <2>1, <2>2, <2>3
<1>4. IsPrefixes(g, seqs)
  BY <1>2, <1>3 DEF IsPrefixes
<1> QED BY <1>4

\* ... and what it makes of the first of them is the first of what it makes.
LEMMA FlattensFirst ==
  ASSUME NEW S, NEW seqs \in Seq(Seq(S)), NEW g, IsPrefixes(g, seqs), NEW m \in 1..Len(seqs)
  PROVE  FlattenSeq(SubSeq(seqs, 1, m)) = g[m]
<1> DEFINE first == SubSeq(seqs, 1, m)
<1>1. Len(first) = m /\ \A i \in 1..m : first[i] = seqs[i]
  OBVIOUS
<1> HIDE DEF first
<1>2. PICK h : IsPrefixes(h, first)
  <2>1. Len(first) \in Nat \ {0}
    BY <1>1
  <2> QED BY <2>1, Flattens
<1> DEFINE Same == {k \in Nat : k + 1 \in 1..m => h[k + 1] = g[k + 1]}
<1>3. 0 \in Same
  BY <1>1, <1>2 DEF IsPrefixes
<1>4. ASSUME NEW k \in Nat, k \in Same PROVE k + 1 \in Same
  <2> SUFFICES ASSUME k + 2 \in 1..m PROVE h[k + 2] = g[k + 2]
    OBVIOUS
  <2>1. k + 1 \in 1..m - 1 /\ k + 1 \in 1..Len(seqs) - 1 /\ (k + 1) + 1 = k + 2
    OBVIOUS
  <2>2. h[(k + 1) + 1] = h[k + 1] \o first[(k + 1) + 1]
    BY <1>1, <1>2, <2>1 DEF IsPrefixes
  <2>3. g[(k + 1) + 1] = g[k + 1] \o seqs[(k + 1) + 1]
    BY <2>1 DEF IsPrefixes
  <2>4. h[k + 1] = g[k + 1]
    BY <1>4, <2>1
  <2> QED BY <1>1, <2>1, <2>2, <2>3, <2>4
<1>5. Nat \subseteq Same
  <2> HIDE DEF Same
  <2> QED BY <1>3, <1>4, Induction
<1>6. h[m] = g[m]
  <2>1. m - 1 \in Nat /\ (m - 1) + 1 = m
    OBVIOUS
  <2> QED BY <1>5, <2>1
<1> QED BY <1>1, <1>2, <1>6 DEF IsPrefixes, first

-----------------------------------------------------------------------------
(***************************************************************************)
(* Fields and the cursor.                                                  *)
(***************************************************************************)
\* A field has the bytes its width says.
LEMMA FieldFits ==
  ASSUME NEW f \in Column
  PROVE  /\ Field(f) \in Seq(Cell) /\ Len(Field(f)) = f[2]
         /\ \A k \in 1..f[2] : Field(f)[k] = <<f[1], k>>
BY DEF Field, Column, Cell

IsCursor(at, layout) ==
  at = [i \in 1..Len(layout) + 1 |-> IF i = 1 THEN 0 ELSE at[i - 1] + layout[i - 1][2]]

\* The equation of Offsets has a solution.
LEMMA CursorExists ==
  ASSUME NEW layout, Len(layout) \in Nat
  PROVE  \E at : IsCursor(at, layout)
<1> DEFINE Some == {k \in Nat : \E at :
             at = [i \in 1..k + 1 |-> IF i = 1 THEN 0 ELSE at[i - 1] + layout[i - 1][2]]}
<1>1. 0 \in Some
  <2> DEFINE at == [i \in 1..1 |-> 0]
  <2>1. at = [i \in 1..0 + 1 |-> IF i = 1 THEN 0 ELSE at[i - 1] + layout[i - 1][2]]
    OBVIOUS
  <2> HIDE DEF at
  <2> QED BY <2>1
<1>2. ASSUME NEW k \in Nat, k \in Some PROVE k + 1 \in Some
  <2>1. PICK g : g = [i \in 1..k + 1 |-> IF i = 1 THEN 0 ELSE g[i - 1] + layout[i - 1][2]]
    BY <1>2
  <2>h. PICK h : h = [i \in 1..(k + 1) + 1 |-> IF i = 1 THEN 0 ELSE g[i - 1] + layout[i - 1][2]]
    OBVIOUS
  <2>2. \A i \in 1..k + 1 : h[i] = g[i]
    BY <2>1, <2>h
  <2>3. h = [i \in 1..(k + 1) + 1 |-> IF i = 1 THEN 0 ELSE h[i - 1] + layout[i - 1][2]]
    <3>1. \A i \in 1..(k + 1) + 1 : i # 1 => h[i - 1] = g[i - 1]
      BY <2>2
    <3> QED BY <2>h, <3>1
  <2> QED BY <2>3
<1>3. Nat \subseteq Some
  <2> HIDE DEF Some
  <2> QED BY <1>1, <1>2, Induction
<1>4. \E at : at = [i \in 1..Len(layout) + 1 |-> IF i = 1 THEN 0 ELSE at[i - 1] + layout[i - 1][2]]
  BY <1>3
<1> QED BY <1>4 DEF IsCursor

\* The cursor moves by the width of each field.
LEMMA CursorMoves ==
  ASSUME NEW layout \in Seq(Column)
  PROVE  /\ Offsets(layout)[1] = 0
         /\ \A i \in 1..Len(layout) : Offsets(layout)[i + 1] = Offsets(layout)[i] + layout[i][2]
<1> DEFINE at == CHOOSE w : IsCursor(w, layout)
<1>1. IsCursor(at, layout)
  BY CursorExists
<1>2. Offsets(layout) = at
  BY DEF Offsets, IsCursor
<1> HIDE DEF at
<1> QED BY <1>1, <1>2 DEF IsCursor

\* Slices of two sequences one behind the other.
LEMMA SliceFront ==
  ASSUME NEW S, NEW s \in Seq(S), NEW t \in Seq(S), NEW a \in Nat, NEW b \in 0..Len(s)
  PROVE  SubSeq(s \o t, a + 1, b) = SubSeq(s, a + 1, b)
OBVIOUS

LEMMA SliceBack ==
  ASSUME NEW S, NEW s \in Seq(S), NEW t \in Seq(S)
  PROVE  SubSeq(s \o t, Len(s) + 1, Len(s) + Len(t)) = t
OBVIOUS

\* Where the first k of seqs are in front, which is their concatenation.
PartsAt(front, seqs, at, k) ==
  /\ at[k + 1] = Len(front)
  /\ \A i \in 1..k : /\ at[i] \in Nat /\ at[i + 1] \in Nat /\ at[i + 1] <= at[k + 1]
                     /\ SubSeq(front, at[i] + 1, at[i + 1]) = seqs[i]

\* One more part behind the others leaves them where they were.
LEMMA NextPart ==
  ASSUME NEW S, NEW front \in Seq(S), NEW part \in Seq(S), NEW seqs, NEW at,
         NEW k \in Nat, PartsAt(front, seqs, at, k),
         seqs[k + 1] = part, at[k + 2] = at[k + 1] + Len(part)
  PROVE  PartsAt(front \o part, seqs, at, k + 1)
<1>1. /\ Len(front \o part) = Len(front) + Len(part)
      /\ Len(front) \in Nat /\ Len(part) \in Nat
  OBVIOUS
<1>2. at[k + 1] = Len(front) /\ at[k + 2] = Len(front \o part) /\ (k + 1) + 1 = k + 2
      /\ at[k + 1] <= at[k + 2] /\ at[k + 1] \in Nat /\ at[k + 2] \in Nat
  BY <1>1 DEF PartsAt
<1>3. ASSUME NEW i \in 1..k + 1
      PROVE  /\ at[i] \in Nat /\ at[i + 1] \in Nat /\ at[i + 1] <= at[k + 2]
             /\ SubSeq(front \o part, at[i] + 1, at[i + 1]) = seqs[i]
  <2>1. CASE i = k + 1
    <3>1. SubSeq(front \o part, Len(front) + 1, Len(front) + Len(part)) = part
      BY SliceBack
    <3>2. at[i] = Len(front) /\ at[i + 1] = Len(front) + Len(part)
      BY <1>1, <1>2, <2>1
    <3>3. SubSeq(front \o part, at[i] + 1, at[i + 1]) = part
      BY <3>1, <3>2, Zenon
    <3>4. seqs[i] = part
      BY <2>1
    <3>5. at[i] \in Nat /\ at[i + 1] \in Nat /\ at[i + 1] <= at[k + 2]
      BY <1>2, <2>1
    <3> QED BY <3>3, <3>4, <3>5
  <2>2. CASE i # k + 1
    <3>1. i \in 1..k
      BY <2>2
    <3>2. /\ at[i] \in Nat /\ at[i + 1] \in Nat /\ at[i + 1] <= at[k + 1]
          /\ SubSeq(front, at[i] + 1, at[i + 1]) = seqs[i]
      BY <3>1 DEF PartsAt
    <3>3. at[i + 1] \in 0..Len(front)
      BY <1>2, <3>2
    <3>4. SubSeq(front \o part, at[i] + 1, at[i + 1]) = SubSeq(front, at[i] + 1, at[i + 1])
      BY <3>2, <3>3, SliceFront
    <3>5. at[i + 1] <= at[k + 2]
      BY <1>2, <3>2
    <3> QED BY <3>2, <3>4, <3>5
  <2> QED BY <2>1, <2>2
<1> QED BY <1>2, <1>3 DEF PartsAt

\* A cursor that moves by the lengths of the parts finds each part.
LEMMA PartsUnderCursor ==
  ASSUME NEW S, NEW seqs \in Seq(Seq(S)), NEW g, IsPrefixes(g, seqs),
         NEW at, at[1] = 0, \A i \in 1..Len(seqs) : at[i + 1] = at[i] + Len(seqs[i]),
         NEW m \in 1..Len(seqs)
  PROVE  g[m] \in Seq(S) /\ PartsAt(g[m], seqs, at, m)
<1> DEFINE Known == {k \in Nat : k + 1 \in 1..Len(seqs) =>
                        g[k + 1] \in Seq(S) /\ PartsAt(g[k + 1], seqs, at, k + 1)}
<1>1. 0 \in Known
  <2> SUFFICES ASSUME 1 \in 1..Len(seqs) PROVE g[1] \in Seq(S) /\ PartsAt(g[1], seqs, at, 1)
    OBVIOUS
  <2>1. g[1] = seqs[1] /\ g[1] \in Seq(S)
    BY DEF IsPrefixes
  <2>2. at[1] = 0 /\ at[1 + 1] = Len(g[1]) /\ Len(g[1]) \in Nat
    BY <2>1
  <2>3. SubSeq(g[1], 1, Len(g[1])) = g[1]
    BY <2>1
  <2>4. \A i \in 1..1 : i = 1
    OBVIOUS
  <2> QED BY <2>1, <2>2, <2>3, <2>4 DEF PartsAt
<1>2. ASSUME NEW k \in Nat, k \in Known, (k + 1) + 1 \in 1..Len(seqs)
      PROVE  g[(k + 1) + 1] \in Seq(S) /\ PartsAt(g[(k + 1) + 1], seqs, at, (k + 1) + 1)
  <2> DEFINE n == k + 1
  <2>0. n \in Nat /\ n \in 1..Len(seqs) - 1 /\ n \in 1..Len(seqs) /\ n + 1 \in 1..Len(seqs)
        /\ (n + 1) + 1 = n + 2
    BY <1>2
  <2>1. g[n] \in Seq(S) /\ PartsAt(g[n], seqs, at, n)
    BY <1>2, <2>0
  <2> HIDE DEF n
  <2>2. g[n + 1] = g[n] \o seqs[n + 1]
    BY <2>0 DEF IsPrefixes
  <2>3. seqs[n + 1] \in Seq(S)
    BY <2>0
  <2>4. at[n + 2] = at[n + 1] + Len(seqs[n + 1])
    BY <2>0
  <2>5. PartsAt(g[n] \o seqs[n + 1], seqs, at, n + 1)
    BY <2>0, <2>1, <2>3, <2>4, NextPart
  <2>6. g[n] \o seqs[n + 1] \in Seq(S)
    BY <2>1, <2>3
  <2>7. g[n + 1] \in Seq(S) /\ PartsAt(g[n + 1], seqs, at, n + 1)
    BY <2>2, <2>5, <2>6
  <2> QED BY <2>7 DEF n
<1>3. Nat \subseteq Known
  <2>1. \A k \in Nat : k \in Known => k + 1 \in Known
    BY <1>2
  <2> HIDE DEF Known
  <2> QED BY <1>1, <2>1, Induction
<1>4. m - 1 \in Nat /\ (m - 1) + 1 = m
  OBVIOUS
<1> QED BY <1>3, <1>4

\* The fields of a layout stand where the cursor finds them.
LEMMA FieldsUnderCursor ==
  ASSUME NEW layout \in Seq(Column)
  PROVE  /\ Fields(layout) \in Seq(Cell)
         /\ Len(Fields(layout)) = Offsets(layout)[Len(layout) + 1]
         /\ \A i \in DOMAIN layout :
              SubSeq(Fields(layout), Offsets(layout)[i] + 1, Offsets(layout)[i + 1]) = Field(layout[i])
<1> DEFINE seqs == [i \in DOMAIN layout |-> Field(layout[i])]
           at == Offsets(layout)
<1>1. seqs \in Seq(Seq(Cell)) /\ Len(seqs) = Len(layout)
      /\ \A i \in 1..Len(layout) : seqs[i] = Field(layout[i]) /\ Len(seqs[i]) = layout[i][2]
  <2>1. \A i \in DOMAIN layout : Field(layout[i]) \in Seq(Cell) /\ Len(Field(layout[i])) = layout[i][2]
    <3>1. \A i \in DOMAIN layout : layout[i] \in Column
      OBVIOUS
    <3> QED BY <3>1, FieldFits
  <2>2. DOMAIN layout = 1..Len(layout) /\ Len(layout) \in Nat
    OBVIOUS
  <2>3. seqs \in [1..Len(layout) -> Seq(Cell)]
    BY <2>1, <2>2
  <2>4. seqs \in Seq(Seq(Cell)) /\ Len(seqs) = Len(layout)
    BY <2>2, <2>3
  <2> QED BY <2>1, <2>2, <2>4
<1>2. at[1] = 0 /\ \A i \in 1..Len(layout) : at[i + 1] = at[i] + layout[i][2]
  BY CursorMoves
<1>3. Fields(layout) = FlattenSeq(seqs)
  BY DEF Fields
<1> HIDE DEF seqs, at
<1>4. CASE Len(layout) = 0
  <2>1. FlattenSeq(seqs) = seqs /\ seqs = <<>> /\ DOMAIN layout = {}
    BY <1>1, <1>4 DEF FlattenSeq
  <2> QED BY <1>2, <1>3, <1>4, <2>1 DEF at
<1>5. CASE Len(layout) # 0
  <2>1. Len(seqs) \in Nat \ {0} /\ Len(seqs) \in 1..Len(seqs)
    BY <1>1, <1>5
  <2>2. PICK g : IsPrefixes(g, seqs)
    BY <2>1, Flattens
  <2>3. g[Len(seqs)] \in Seq(Cell) /\ PartsAt(g[Len(seqs)], seqs, at, Len(seqs))
    <3>1. \A i \in 1..Len(seqs) : at[i + 1] = at[i] + Len(seqs[i])
      BY <1>1, <1>2
    <3> QED BY <1>1, <1>2, <2>1, <2>2, <3>1, PartsUnderCursor
  <2>4. g[Len(seqs)] = Fields(layout)
    BY <1>3, <2>2 DEF IsPrefixes
  <2>5. DOMAIN layout = 1..Len(seqs)
    BY <1>1
  <2> QED BY <1>1, <2>3, <2>4, <2>5 DEF PartsAt, at
<1> QED BY <1>4, <1>5

\* A layout that is read as it was written gives back the fields it was given,
\* if its sides are valid ones.
LEMMA ReadsBack ==
  ASSUME NEW layout \in Seq(Column), \A i \in DOMAIN layout : layout[i][1] = "side" => layout[i][2] = 1
  PROVE  Read(layout, Fields(layout)) = {{<<layout[i][1], Field(layout[i])>> : i \in DOMAIN layout}}
<1> DEFINE at == Offsets(layout)
           value(i) == SubSeq(Fields(layout), at[i] + 1, at[i + 1])
<1>1. at[Len(layout) + 1] <= Len(Fields(layout))
  <2>1. Len(Fields(layout)) \in Nat /\ Len(Fields(layout)) = at[Len(layout) + 1]
    BY FieldsUnderCursor
  <2> QED BY <2>1
<1>2. \A i \in DOMAIN layout : value(i) = Field(layout[i])
  BY FieldsUnderCursor
<1>3. ASSUME NEW i \in DOMAIN layout, layout[i][1] = "side" PROVE ValidSide(value(i)[1])
  <2>1. layout[i] \in Column /\ layout[i][2] = 1 /\ 1 \in 1..1
    BY <1>3
  <2>2. Field(layout[i])[1] = <<"side", 1>>
    BY <1>3, <2>1, FieldFits
  <2> QED BY <1>2, <2>2 DEF ValidSide
<1>4. Read(layout, Fields(layout)) = {{<<layout[i][1], value(i)>> : i \in DOMAIN layout}}
  BY <1>1, <1>3 DEF Read
<1> QED BY <1>2, <1>4

-----------------------------------------------------------------------------
(***************************************************************************)
(* The layouts of the messages.                                            *)
(***************************************************************************)
\* What the proofs need to know of a layout: its columns, and that what it
\* describes is at most limit bytes long.
Sound(layout, limit) ==
  /\ layout \in Seq(Column)
  /\ \A i \in DOMAIN layout : layout[i][1] = "side" => layout[i][2] = 1
  /\ Offsets(layout)[Len(layout) + 1] <= limit

LEMMA Kinds ==
  /\ Kind = {"NewOrder", "CancelOrder", "ReplaceOrder", "Logon",
             "ExecutionReport", "Reject", "Heartbeat", "ResendRequest", "Logout",
             "MarketData", "HaltInstrument", "ResumeInstrument", "CancelAllAccount", "FreezeAccount"}
  /\ DOMAIN AdminCode = {"HaltInstrument", "ResumeInstrument", "CancelAllAccount", "FreezeAccount"}
  /\ DOMAIN RecordKind = {"NewOrder", "CancelOrder", "ReplaceOrder"}
BY DEF Kind, EncodeLayout, AdminCode, RecordKind

\* The decoder reads the fields in the order in which the encoder wrote them.
LEMMA SameLayouts == DecodeLayout = EncodeLayout
BY DEF DecodeLayout, EncodeLayout

LEMMA NewOrderSound == Sound(EncodeLayout["NewOrder"], 39)
<1> DEFINE layout == EncodeLayout["NewOrder"]
           at == Offsets(layout)
<1>0. layout = <<u64("client_order_id"), u32("account_id"), u16("instrument_id"), u8("side"),
                 u32("price"), u32("quantity"), u64("client_timestamp")>>
  BY DEF EncodeLayout
<1>c. {u64("client_order_id"), u32("account_id"), u16("instrument_id"), u8("side"),
       u32("price"), u32("quantity"), u64("client_timestamp")} \subseteq Column
  BY DEF Column, Name, u8, u16, u32, u64
<1> HIDE DEF layout, at
<1>1. /\ layout \in Seq(Column) /\ Len(layout) = 7
      /\ \A i \in DOMAIN layout : layout[i][1] = "side" => layout[i][2] = 1
      /\ layout[1][2] = 8 /\ layout[2][2] = 4 /\ layout[3][2] = 2 /\ layout[4][2] = 1
      /\ layout[5][2] = 4 /\ layout[6][2] = 4 /\ layout[7][2] = 8
  BY <1>0, <1>c DEF u8, u16, u32, u64
<1>2. at[1] = 0 /\ \A i \in 1..Len(layout) : at[i + 1] = at[i] + layout[i][2]
  BY <1>1, CursorMoves DEF at
<1>3. at[1 + 1] = 8
  BY <1>1, <1>2
<1>4. at[2 + 1] = 12
  BY <1>1, <1>2, <1>3
<1>5. at[3 + 1] = 14
  BY <1>1, <1>2, <1>4
<1>6. at[4 + 1] = 15
  BY <1>1, <1>2, <1>5
<1>7. at[5 + 1] = 19
  BY <1>1, <1>2, <1>6
<1>8. at[6 + 1] = 23
  BY <1>1, <1>2, <1>7
<1>9. at[7 + 1] = 31
  BY <1>1, <1>2, <1>8
<1> QED BY <1>1, <1>9 DEF Sound, layout, at
LEMMA CancelOrderSound == Sound(EncodeLayout["CancelOrder"], 39)
<1> DEFINE layout == EncodeLayout["CancelOrder"]
           at == Offsets(layout)
<1>0. layout = <<u32("account_id"), u16("instrument_id"), u64("client_order_id")>>
  BY DEF EncodeLayout
<1>c. {u32("account_id"), u16("instrument_id"), u64("client_order_id")} \subseteq Column
  BY DEF Column, Name, u16, u32, u64
<1> HIDE DEF layout, at
<1>1. /\ layout \in Seq(Column) /\ Len(layout) = 3
      /\ \A i \in DOMAIN layout : layout[i][1] = "side" => layout[i][2] = 1
      /\ layout[1][2] = 4 /\ layout[2][2] = 2 /\ layout[3][2] = 8
  BY <1>0, <1>c DEF u16, u32, u64
<1>2. at[1] = 0 /\ \A i \in 1..Len(layout) : at[i + 1] = at[i] + layout[i][2]
  BY <1>1, CursorMoves DEF at
<1>3. at[1 + 1] = 4
  BY <1>1, <1>2
<1>4. at[2 + 1] = 6
  BY <1>1, <1>2, <1>3
<1>5. at[3 + 1] = 14
  BY <1>1, <1>2, <1>4
<1> QED BY <1>1, <1>5 DEF Sound, layout, at
LEMMA ReplaceOrderSound == Sound(EncodeLayout["ReplaceOrder"], 39)
<1> DEFINE layout == EncodeLayout["ReplaceOrder"]
           at == Offsets(layout)
<1>0. layout = <<u32("account_id"), u16("instrument_id"), u64("target_client_order_id"), u64("new_client_order_id"),
                 u8("side"), u32("price"), u32("quantity"), u64("client_timestamp")>>
  BY DEF EncodeLayout
<1>c. {u32("account_id"), u16("instrument_id"), u64("target_client_order_id"), u64("new_client_order_id"),
       u8("side"), u32("price"), u32("quantity"), u64("client_timestamp")} \subseteq Column
  BY DEF Column, Name, u8, u16, u32, u64
<1> HIDE DEF layout, at
<1>1. /\ layout \in Seq(Column) /\ Len(layout) = 8
      /\ \A i \in DOMAIN layout : layout[i][1] = "side" => layout[i][2] = 1
      /\ layout[1][2] = 4 /\ layout[2][2] = 2 /\ layout[3][2] = 8 /\ layout[4][2] = 8
      /\ layout[5][2] = 1 /\ layout[6][2] = 4 /\ layout[7][2] = 4 /\ layout[8][2] = 8
  BY <1>0, <1>c DEF u8, u16, u32, u64
<1>2. at[1] = 0 /\ \A i \in 1..Len(layout) : at[i + 1] = at[i] + layout[i][2]
  BY <1>1, CursorMoves DEF at
<1>3. at[1 + 1] = 4
  BY <1>1, <1>2
<1>4. at[2 + 1] = 6
  BY <1>1, <1>2, <1>3
<1>5. at[3 + 1] = 14
  BY <1>1, <1>2, <1>4
<1>6. at[4 + 1] = 22
  BY <1>1, <1>2, <1>5
<1>7. at[5 + 1] = 23
  BY <1>1, <1>2, <1>6
<1>8. at[6 + 1] = 27
  BY <1>1, <1>2, <1>7
<1>9. at[7 + 1] = 31
  BY <1>1, <1>2, <1>8
<1>10. at[8 + 1] = 39
  BY <1>1, <1>2, <1>9
<1> QED BY <1>1, <1>10 DEF Sound, layout, at
LEMMA LogonSound == Sound(EncodeLayout["Logon"], 48)
<1> DEFINE layout == EncodeLayout["Logon"]
           at == Offsets(layout)
<1>0. layout = <<u64("api_key"), <<"token", 32>>, u64("heartbeat_ticks")>>
  BY DEF EncodeLayout
<1>c. {u64("api_key"), <<"token", 32>>, u64("heartbeat_ticks")} \subseteq Column
  BY DEF Column, Name, u64
<1> HIDE DEF layout, at
<1>1. /\ layout \in Seq(Column) /\ Len(layout) = 3
      /\ \A i \in DOMAIN layout : layout[i][1] = "side" => layout[i][2] = 1
      /\ layout[1][2] = 8 /\ layout[2][2] = 32 /\ layout[3][2] = 8
  BY <1>0, <1>c DEF u64
<1>2. at[1] = 0 /\ \A i \in 1..Len(layout) : at[i + 1] = at[i] + layout[i][2]
  BY <1>1, CursorMoves DEF at
<1>3. at[1 + 1] = 8
  BY <1>1, <1>2
<1>4. at[2 + 1] = 40
  BY <1>1, <1>2, <1>3
<1>5. at[3 + 1] = 48
  BY <1>1, <1>2, <1>4
<1> QED BY <1>1, <1>5 DEF Sound, layout, at
LEMMA ExecutionReportSound == Sound(EncodeLayout["ExecutionReport"], 48)
<1> DEFINE layout == EncodeLayout["ExecutionReport"]
           at == Offsets(layout)
<1>0. layout = <<u64("exchange_order_id"), u64("client_order_id"), u8("status"), u32("filled_quantity"),
                 u32("remaining_quantity")>>
  BY DEF EncodeLayout
<1>c. {u64("exchange_order_id"), u64("client_order_id"), u8("status"), u32("filled_quantity"),
       u32("remaining_quantity")} \subseteq Column
  BY DEF Column, Name, u8, u32, u64
<1> HIDE DEF layout, at
<1>1. /\ layout \in Seq(Column) /\ Len(layout) = 5
      /\ \A i \in DOMAIN layout : layout[i][1] = "side" => layout[i][2] = 1
      /\ layout[1][2] = 8 /\ layout[2][2] = 8 /\ layout[3][2] = 1 /\ layout[4][2] = 4
      /\ layout[5][2] = 4
  BY <1>0, <1>c DEF u8, u32, u64
<1>2. at[1] = 0 /\ \A i \in 1..Len(layout) : at[i + 1] = at[i] + layout[i][2]
  BY <1>1, CursorMoves DEF at
<1>3. at[1 + 1] = 8
  BY <1>1, <1>2
<1>4. at[2 + 1] = 16
  BY <1>1, <1>2, <1>3
<1>5. at[3 + 1] = 17
  BY <1>1, <1>2, <1>4
<1>6. at[4 + 1] = 21
  BY <1>1, <1>2, <1>5
<1>7. at[5 + 1] = 25
  BY <1>1, <1>2, <1>6
<1> QED BY <1>1, <1>7 DEF Sound, layout, at
LEMMA RejectSound == Sound(EncodeLayout["Reject"], 48)
<1> DEFINE layout == EncodeLayout["Reject"]
           at == Offsets(layout)
<1>0. layout = <<u16("code")>>
  BY DEF EncodeLayout
<1>c. {u16("code")} \subseteq Column
  BY DEF Column, Name, u16
<1> HIDE DEF layout, at
<1>1. /\ layout \in Seq(Column) /\ Len(layout) = 1
      /\ \A i \in DOMAIN layout : layout[i][1] = "side" => layout[i][2] = 1
      /\ layout[1][2] = 2
  BY <1>0, <1>c DEF u16
<1>2. at[1] = 0 /\ \A i \in 1..Len(layout) : at[i + 1] = at[i] + layout[i][2]
  BY <1>1, CursorMoves DEF at
<1>3. at[1 + 1] = 2
  BY <1>1, <1>2
<1> QED BY <1>1, <1>3 DEF Sound, layout, at
LEMMA HeartbeatSound == Sound(EncodeLayout["Heartbeat"], 48)
<1> DEFINE layout == EncodeLayout["Heartbeat"]
           at == Offsets(layout)
<1>0. layout = <<>>
  BY DEF EncodeLayout
<1> HIDE DEF layout, at
<1>1. /\ layout \in Seq(Column) /\ Len(layout) = 0
      /\ \A i \in DOMAIN layout : layout[i][1] = "side" => layout[i][2] = 1
  BY <1>0
<1>2. at[1] = 0 /\ \A i \in 1..Len(layout) : at[i + 1] = at[i] + layout[i][2]
  BY <1>1, CursorMoves DEF at
<1> QED BY <1>1, <1>2 DEF Sound, layout, at
LEMMA ResendRequestSound == Sound(EncodeLayout["ResendRequest"], 48)
<1> DEFINE layout == EncodeLayout["ResendRequest"]
           at == Offsets(layout)
<1>0. layout = <<u64("begin"), u64("end")>>
  BY DEF EncodeLayout
<1>c. {u64("begin"), u64("end")} \subseteq Column
  BY DEF Column, Name, u64
<1> HIDE DEF layout, at
<1>1. /\ layout \in Seq(Column) /\ Len(layout) = 2
      /\ \A i \in DOMAIN layout : layout[i][1] = "side" => layout[i][2] = 1
      /\ layout[1][2] = 8 /\ layout[2][2] = 8
  BY <1>0, <1>c DEF u64
<1>2. at[1] = 0 /\ \A i \in 1..Len(layout) : at[i + 1] = at[i] + layout[i][2]
  BY <1>1, CursorMoves DEF at
<1>3. at[1 + 1] = 8
  BY <1>1, <1>2
<1>4. at[2 + 1] = 16
  BY <1>1, <1>2, <1>3
<1> QED BY <1>1, <1>4 DEF Sound, layout, at
LEMMA LogoutSound == Sound(EncodeLayout["Logout"], 48)
<1> DEFINE layout == EncodeLayout["Logout"]
           at == Offsets(layout)
<1>0. layout = <<u16("reason")>>
  BY DEF EncodeLayout
<1>c. {u16("reason")} \subseteq Column
  BY DEF Column, Name, u16
<1> HIDE DEF layout, at
<1>1. /\ layout \in Seq(Column) /\ Len(layout) = 1
      /\ \A i \in DOMAIN layout : layout[i][1] = "side" => layout[i][2] = 1
      /\ layout[1][2] = 2
  BY <1>0, <1>c DEF u16
<1>2. at[1] = 0 /\ \A i \in 1..Len(layout) : at[i + 1] = at[i] + layout[i][2]
  BY <1>1, CursorMoves DEF at
<1>3. at[1 + 1] = 2
  BY <1>1, <1>2
<1> QED BY <1>1, <1>3 DEF Sound, layout, at
LEMMA MarketDataSound == Sound(EncodeLayout["MarketData"], 48)
<1> DEFINE layout == EncodeLayout["MarketData"]
           at == Offsets(layout)
<1>0. layout = <<u16("instrument_id"), u64("sequence"), u8("book_side"), u32("price"),
                 u32("quantity")>>
  BY DEF EncodeLayout
<1>c. {u16("instrument_id"), u64("sequence"), u8("book_side"), u32("price"),
       u32("quantity")} \subseteq Column
  BY DEF Column, Name, u8, u16, u32, u64
<1> HIDE DEF layout, at
<1>1. /\ layout \in Seq(Column) /\ Len(layout) = 5
      /\ \A i \in DOMAIN layout : layout[i][1] = "side" => layout[i][2] = 1
      /\ layout[1][2] = 2 /\ layout[2][2] = 8 /\ layout[3][2] = 1 /\ layout[4][2] = 4
      /\ layout[5][2] = 4
  BY <1>0, <1>c DEF u8, u16, u32, u64
<1>2. at[1] = 0 /\ \A i \in 1..Len(layout) : at[i + 1] = at[i] + layout[i][2]
  BY <1>1, CursorMoves DEF at
<1>3. at[1 + 1] = 2
  BY <1>1, <1>2
<1>4. at[2 + 1] = 10
  BY <1>1, <1>2, <1>3
<1>5. at[3 + 1] = 11
  BY <1>1, <1>2, <1>4
<1>6. at[4 + 1] = 15
  BY <1>1, <1>2, <1>5
<1>7. at[5 + 1] = 19
  BY <1>1, <1>2, <1>6
<1> QED BY <1>1, <1>7 DEF Sound, layout, at
LEMMA HaltInstrumentSound == Sound(EncodeLayout["HaltInstrument"], 4)
<1> DEFINE layout == EncodeLayout["HaltInstrument"]
           at == Offsets(layout)
<1>0. layout = <<u16("id")>>
  BY DEF EncodeLayout
<1>c. {u16("id")} \subseteq Column
  BY DEF Column, Name, u16
<1> HIDE DEF layout, at
<1>1. /\ layout \in Seq(Column) /\ Len(layout) = 1
      /\ \A i \in DOMAIN layout : layout[i][1] = "side" => layout[i][2] = 1
      /\ layout[1][2] = 2
  BY <1>0, <1>c DEF u16
<1>2. at[1] = 0 /\ \A i \in 1..Len(layout) : at[i + 1] = at[i] + layout[i][2]
  BY <1>1, CursorMoves DEF at
<1>3. at[1 + 1] = 2
  BY <1>1, <1>2
<1> QED BY <1>1, <1>3 DEF Sound, layout, at
LEMMA ResumeInstrumentSound == Sound(EncodeLayout["ResumeInstrument"], 4)
<1> DEFINE layout == EncodeLayout["ResumeInstrument"]
           at == Offsets(layout)
<1>0. layout = <<u16("id")>>
  BY DEF EncodeLayout
<1>c. {u16("id")} \subseteq Column
  BY DEF Column, Name, u16
<1> HIDE DEF layout, at
<1>1. /\ layout \in Seq(Column) /\ Len(layout) = 1
      /\ \A i \in DOMAIN layout : layout[i][1] = "side" => layout[i][2] = 1
      /\ layout[1][2] = 2
  BY <1>0, <1>c DEF u16
<1>2. at[1] = 0 /\ \A i \in 1..Len(layout) : at[i + 1] = at[i] + layout[i][2]
  BY <1>1, CursorMoves DEF at
<1>3. at[1 + 1] = 2
  BY <1>1, <1>2
<1> QED BY <1>1, <1>3 DEF Sound, layout, at
LEMMA CancelAllAccountSound == Sound(EncodeLayout["CancelAllAccount"], 4)
<1> DEFINE layout == EncodeLayout["CancelAllAccount"]
           at == Offsets(layout)
<1>0. layout = <<u32("id")>>
  BY DEF EncodeLayout
<1>c. {u32("id")} \subseteq Column
  BY DEF Column, Name, u32
<1> HIDE DEF layout, at
<1>1. /\ layout \in Seq(Column) /\ Len(layout) = 1
      /\ \A i \in DOMAIN layout : layout[i][1] = "side" => layout[i][2] = 1
      /\ layout[1][2] = 4
  BY <1>0, <1>c DEF u32
<1>2. at[1] = 0 /\ \A i \in 1..Len(layout) : at[i + 1] = at[i] + layout[i][2]
  BY <1>1, CursorMoves DEF at
<1>3. at[1 + 1] = 4
  BY <1>1, <1>2
<1> QED BY <1>1, <1>3 DEF Sound, layout, at
LEMMA FreezeAccountSound == Sound(EncodeLayout["FreezeAccount"], 4)
<1> DEFINE layout == EncodeLayout["FreezeAccount"]
           at == Offsets(layout)
<1>0. layout = <<u32("id")>>
  BY DEF EncodeLayout
<1>c. {u32("id")} \subseteq Column
  BY DEF Column, Name, u32
<1> HIDE DEF layout, at
<1>1. /\ layout \in Seq(Column) /\ Len(layout) = 1
      /\ \A i \in DOMAIN layout : layout[i][1] = "side" => layout[i][2] = 1
      /\ layout[1][2] = 4
  BY <1>0, <1>c DEF u32
<1>2. at[1] = 0 /\ \A i \in 1..Len(layout) : at[i + 1] = at[i] + layout[i][2]
  BY <1>1, CursorMoves DEF at
<1>3. at[1 + 1] = 4
  BY <1>1, <1>2
<1> QED BY <1>1, <1>3 DEF Sound, layout, at
\* Every message has such a layout, and a command of the journal fits in a record.
LEMMA LayoutsSound ==
  ASSUME NEW kind \in Kind
  PROVE  /\ Sound(EncodeLayout[kind], 48)
         /\ kind \in DOMAIN RecordKind => Sound(EncodeLayout[kind], 39)
         /\ kind \in DOMAIN AdminCode => Sound(EncodeLayout[kind], 4)
<1>1. ASSUME NEW layout, NEW limit \in {4, 39}, Sound(layout, limit) PROVE Sound(layout, 48)
  <2>1. Offsets(layout)[Len(layout) + 1] \in Nat
    BY <1>1, FieldsUnderCursor DEF Sound
  <2> QED BY <1>1, <2>1 DEF Sound
<1> QED
  BY <1>1, Kinds, NewOrderSound, CancelOrderSound, ReplaceOrderSound, LogonSound, ExecutionReportSound,
     RejectSound, HeartbeatSound, ResendRequestSound, LogoutSound, MarketDataSound,
     HaltInstrumentSound, ResumeInstrumentSound, CancelAllAccountSound, FreezeAccountSound

-----------------------------------------------------------------------------
(***************************************************************************)
(* What a message says is what is read from what it is encoded as.         *)
(***************************************************************************)
\* A message is read field by field as it was written.
LEMMA MessageReads ==
  ASSUME NEW kind \in Kind
  PROVE  Read(DecodeLayout[kind], Fields(EncodeLayout[kind])) = {Said(kind)}
<1>1. Sound(EncodeLayout[kind], 48)
  BY LayoutsSound
<1>2. Read(EncodeLayout[kind], Fields(EncodeLayout[kind])) = {Said(kind)}
  BY <1>1, ReadsBack DEF Sound, Said
<1> QED BY <1>2, SameLayouts

LEMMA FieldsFit ==
  ASSUME NEW layout, NEW limit \in Nat, Sound(layout, limit)
  PROVE  Fields(layout) \in Seq(Cell) /\ Len(Fields(layout)) \in 0..limit
<1>1. layout \in Seq(Column) /\ Offsets(layout)[Len(layout) + 1] <= limit
  BY DEF Sound
<1>2. Fields(layout) \in Seq(Cell) /\ Len(Fields(layout)) = Offsets(layout)[Len(layout) + 1]
  BY <1>1, FieldsUnderCursor
<1> QED BY <1>1, <1>2

LEMMA NumberFits ==
  ASSUME NEW n \in Nat, NEW width \in Nat
  PROVE  /\ Number(n, width) \in Seq(Cell) /\ Len(Number(n, width)) = width
         /\ \A k \in 1..width : Number(n, width)[k] = <<"Byte", IF k = 1 THEN n ELSE 0>>
BY DEF Number, Cell, Name

LEMMA Codes ==
  /\ \A kind \in DOMAIN AdminCode : AdminCode[kind] \in Nat
  /\ \A a, b \in DOMAIN AdminCode : AdminCode[a] = AdminCode[b] => a = b
  /\ \A kind \in DOMAIN RecordKind : RecordKind[kind] \in Nat
  /\ \A a, b \in DOMAIN RecordKind : RecordKind[a] = RecordKind[b] => a = b
BY DEF AdminCode, RecordKind

\* h is s and then t.
Joins(h, s, t) ==
  /\ h \in Seq(Cell) /\ Len(h) = Len(s) + Len(t)
  /\ \A i \in 1..Len(s) + Len(t) : h[i] = IF i <= Len(s) THEN s[i] ELSE t[i - Len(s)]

LEMMA Joined ==
  ASSUME NEW s \in Seq(Cell), NEW t \in Seq(Cell)
  PROVE  Joins(s \o t, s, t)
BY ConcatProperties DEF Joins

\* The same with the lengths of s and of h: a and c.
Joint(h, s, t, a, c) ==
  /\ h \in Seq(Cell) /\ Len(h) = c
  /\ \A i \in 1..a : h[i] = s[i]
  /\ \A i \in a + 1..c : h[i] = t[i - a]

LEMMA JointOf ==
  ASSUME NEW s \in Seq(Cell), NEW t \in Seq(Cell), NEW a \in Nat, NEW c \in Nat,
         Len(s) = a, c = a + Len(t), NEW h, h = s \o t
  PROVE  Joint(h, s, t, a, c)
<1>1. PICK b \in Nat : b = Len(t)
  OBVIOUS
<1>2. h \in Seq(Cell) /\ Len(h) = c /\ \A i \in 1..c : h[i] = IF i <= a THEN s[i] ELSE t[i - a]
  BY <1>1, Joined DEF Joins
<1>3. \A i \in 1..a : i \in 1..c /\ i <= a
  BY <1>1
<1>4. \A i \in a + 1..c : i \in 1..c /\ ~(i <= a)
  BY <1>1
<1> QED BY <1>2, <1>3, <1>4 DEF Joint

\* A code and what is behind it.
LEMMA Coded ==
  ASSUME NEW n \in Nat, NEW s \in Seq(Cell)
  PROVE  /\ Number(n, 1) \o s \in Seq(Cell) /\ Len(Number(n, 1) \o s) = Len(s) + 1
         /\ Number(n, 1) \o s # <<>> /\ (Number(n, 1) \o s)[1] = <<"Byte", n>>
         /\ Tail(Number(n, 1) \o s) = s
<1> DEFINE code == Number(n, 1)
<1>1. code \in Seq(Cell) /\ Len(code) = 1 /\ code[1] = <<"Byte", n>>
  <2>1. 1 \in Nat /\ 1 \in 1..1
    OBVIOUS
  <2>2. code \in Seq(Cell) /\ Len(code) = 1 /\ \A k \in 1..1 : code[k] = <<"Byte", IF k = 1 THEN n ELSE 0>>
    BY <2>1, NumberFits
  <2> QED BY <2>1, <2>2
<1> HIDE DEF code
<1>2. code \o s \in Seq(Cell) /\ Len(code \o s) = Len(s) + 1
      /\ \A i \in 1..Len(s) + 1 : (code \o s)[i] = IF i <= 1 THEN code[i] ELSE s[i - 1]
  <2>1. Joins(code \o s, code, s)
    BY <1>1, Joined
  <2>2. PICK n1 \in Nat : n1 = Len(s)
    OBVIOUS
  <2>3. 1 + n1 = n1 + 1
    OBVIOUS
  <2> QED BY <1>1, <2>1, <2>2, <2>3 DEF Joins
<1>3. code \o s # <<>>
  BY <1>2
<1>4. (code \o s)[1] = <<"Byte", n>>
  BY <1>1, <1>2
<1>5. Tail(code \o s) = s
  <2>1. Tail(code \o s) \in Seq(Cell) /\ Len(Tail(code \o s)) = Len(s)
        /\ \A i \in 1..Len(s) : Tail(code \o s)[i] = (code \o s)[i + 1]
    BY <1>2, <1>3, HeadTailProperties
  <2>2. \A i \in 1..Len(s) : (code \o s)[i + 1] = s[i]
    BY <1>2
  <2> QED BY <2>1, <2>2, SeqEqual
<1> QED BY <1>2, <1>3, <1>4, <1>5 DEF code

LEMMA OneMore == \A n, m : \A limit \in Nat : n \in 0..limit /\ m = n + 1 => m \in 1..limit + 1
OBVIOUS

LEMMA NamedOne == \A kind, said : Named(kind, {said}) = {<<kind, said>>}
BY DEF Named

\* decode_message undoes encode_message, and no message exceeds 48 bytes.
LEMMA MessageDecodes ==
  ASSUME NEW kind \in Kind
  PROVE  /\ DecodeMessage(TypeOf(kind), EncodeMessage(kind)) = {<<kind, Said(kind)>>}
         /\ EncodeMessage(kind) \in Seq(Cell) /\ Len(EncodeMessage(kind)) \in 0..48
<1> DEFINE fields == Fields(EncodeLayout[kind])
<1>1. /\ fields \in Seq(Cell) /\ Len(fields) \in 0..48
      /\ kind \in DOMAIN AdminCode => Len(fields) \in 0..4
  BY LayoutsSound, FieldsFit
<1>2. Named(kind, Read(DecodeLayout[kind], fields)) = {<<kind, Said(kind)>>}
  BY MessageReads, NamedOne
<1> HIDE DEF fields
<1>3. CASE kind \in DOMAIN AdminCode
  <2>1. EncodeMessage(kind) = Number(AdminCode[kind], 1) \o fields /\ TypeOf(kind) = "Admin"
    BY <1>3 DEF EncodeMessage, TypeOf, fields
  <2> DEFINE payload == EncodeMessage(kind)
  <2>2. /\ payload \in Seq(Cell) /\ Len(payload) = Len(fields) + 1
        /\ payload # <<>> /\ payload[1] = <<"Byte", AdminCode[kind]>> /\ Tail(payload) = fields
    <3>1. AdminCode[kind] \in Nat
      BY <1>3, Codes
    <3> QED BY <1>1, <2>1, <3>1, Coded
  <2> HIDE DEF payload
  <2>3. {k \in DOMAIN AdminCode : payload # <<>> /\ payload[1] = <<"Byte", AdminCode[k]>>} = {kind}
    BY <1>3, <2>2, Codes
  <2>4. DecodeMessage("Admin", payload)
          = UNION {Named(k, Read(DecodeLayout[k], Tail(payload))) :
                     k \in {k \in DOMAIN AdminCode : payload # <<>> /\ payload[1] = <<"Byte", AdminCode[k]>>}}
    BY DEF DecodeMessage
  <2>5. DecodeMessage("Admin", payload) = Named(kind, Read(DecodeLayout[kind], fields))
    BY <2>2, <2>3, <2>4
  <2>6. Len(payload) \in 0..48
    <3>1. Len(fields) \in 0..4
      BY <1>1, <1>3
    <3>2. Len(payload) = Len(fields) + 1
      BY <2>2
    <3>3. Len(payload) \in 1..4 + 1
      BY <3>1, <3>2, OneMore, Zenon
    <3> QED BY <3>3
  <2>7. DecodeMessage("Admin", payload) = {<<kind, Said(kind)>>}
    BY <1>2, <2>5
  <2> QED BY <2>1, <2>2, <2>6, <2>7 DEF payload
<1>4. CASE kind \notin DOMAIN AdminCode
  <2>1. TypeOf(kind) = kind /\ kind # "Admin"
    BY <1>4, Kinds DEF TypeOf
  <2>2. EncodeMessage(kind) = fields
    BY <1>1, <1>4 DEF EncodeMessage, fields
  <2> QED BY <1>1, <1>2, <1>4, <2>1, <2>2 DEF DecodeMessage
<1> QED BY <1>3, <1>4

\* decode undoes encode for the commands of the journal.
LEMMA RecordDecodes ==
  ASSUME NEW kind \in DOMAIN RecordKind
  PROVE  /\ DecodeRecord(Payload(kind)) = {<<kind, Said(kind)>>}
         /\ Payload(kind) \in Seq(Cell) /\ Len(Payload(kind)) \in 1..40
<1> DEFINE fields == Fields(EncodeLayout[kind])
           payload == Payload(kind)
<1>0. kind \in Kind
  BY Kinds
<1>1. fields \in Seq(Cell) /\ Len(fields) \in 0..39
  BY <1>0, LayoutsSound, FieldsFit
<1>2. Named(kind, Read(DecodeLayout[kind], fields)) = {<<kind, Said(kind)>>}
  BY <1>0, MessageReads, NamedOne
<1> HIDE DEF fields
<1>3. payload = Number(RecordKind[kind], 1) \o fields
  BY DEF Payload, fields
<1>4. /\ payload \in Seq(Cell) /\ Len(payload) = Len(fields) + 1
      /\ payload[1] = <<"Byte", RecordKind[kind]>> /\ Tail(payload) = fields
  <2>1. RecordKind[kind] \in Nat
    BY Codes
  <2> QED BY <1>1, <1>3, <2>1, Coded
<1> HIDE DEF payload
<1>5. {k \in DOMAIN RecordKind : payload[1] = <<"Byte", RecordKind[k]>>} = {kind}
  BY <1>4, Codes
<1>6. DecodeRecord(payload) = Named(kind, Read(DecodeLayout[kind], fields))
  BY <1>4, <1>5 DEF DecodeRecord
<1>7. DecodeRecord(payload) = {<<kind, Said(kind)>>}
  BY <1>2, <1>6
<1>8. Len(payload) \in 1..40
  <2>1. Len(fields) \in 0..39
    BY <1>1
  <2>2. Len(payload) = Len(fields) + 1
    BY <1>4
  <2>3. Len(payload) \in 1..39 + 1
    BY <2>1, <2>2, OneMore, Zenon
  <2> QED BY <2>3
<1> QED BY <1>4, <1>7, <1>8 DEF payload

-----------------------------------------------------------------------------
(***************************************************************************)
(* Frames.                                                                 *)
(***************************************************************************)
\* What is where in a header.
LEMMA HeaderBytes ==
  ASSUME NEW kind \in Kind, NEW length \in Nat
  PROVE  LET header == HeaderOf(kind, length)
         IN  /\ header \in Seq(Cell) /\ Len(header) = 20
             /\ \A i \in 1..4 : header[i] = Field(<<"MAGIC", 4>>)[i]
             /\ header[5] = <<"Byte", 1>>
             /\ header[6] = <<TypeOf(kind), 0>>
             /\ \A i \in 9..16 : header[i] = Field(u64("frame_sequence"))[i - 8]
             /\ \A i \in 17..20 : header[i] = Number(length, 4)[i - 16]
<1> DEFINE magic == Field(<<"MAGIC", 4>>)
           type == <<<<TypeOf(kind), 0>>>>
           flags == Number(0, 2)
           sequence == Field(u64("frame_sequence"))
           size == Number(length, 4)
<1>1. magic \in Seq(Cell) /\ Len(magic) = 4
  <2>1. <<"MAGIC", 4>> \in Column
    BY DEF Column, Name
  <2> QED BY <2>1, FieldFits
<1>2. sequence \in Seq(Cell) /\ Len(sequence) = 8
  <2>1. u64("frame_sequence") \in Column /\ u64("frame_sequence")[2] = 8
    BY DEF Column, Name, u64
  <2> QED BY <2>1, FieldFits
<1>3. flags \in Seq(Cell) /\ Len(flags) = 2 /\ size \in Seq(Cell) /\ Len(size) = 4
  BY NumberFits
<1>4. Version \in Seq(Cell) /\ Len(Version) = 1 /\ Version[1] = <<"Byte", 1>>
  <2>1. <<"Byte", 1>> \in Cell
    BY DEF Cell, Name
  <2> QED BY <2>1 DEF Version
<1>5. type \in Seq(Cell) /\ Len(type) = 1 /\ type[1] = <<TypeOf(kind), 0>>
  <2>1. TypeOf(kind) \in Name
    BY Kinds DEF TypeOf, Name
  <2>2. <<TypeOf(kind), 0>> \in Cell
    BY <2>1 DEF Cell
  <2> QED BY <2>2
<1>6. HeaderOf(kind, length) = ((((magic \o Version) \o type) \o flags) \o sequence) \o size
  BY DEF HeaderOf
<1> HIDE DEF magic, type, flags, sequence, size
<1>7. PICK h2 : h2 = magic \o Version
  OBVIOUS
<1>8. /\ h2 \in Seq(Cell) /\ Len(h2) = 5
      /\ \A i \in 1..4 : h2[i] = magic[i]
      /\ h2[5] = <<"Byte", 1>>
  <2>1. Joins(h2, magic, Version)
    BY <1>1, <1>4, <1>7, Joined
  <2> QED BY <1>1, <1>4, <2>1 DEF Joins
<1>9. PICK h3 : h3 = h2 \o type
  OBVIOUS
<1>10. /\ h3 \in Seq(Cell) /\ Len(h3) = 6
       /\ \A i \in 1..4 : h3[i] = magic[i]
       /\ h3[5] = <<"Byte", 1>> /\ h3[6] = <<TypeOf(kind), 0>>
  <2>1. Joins(h3, h2, type)
    BY <1>8, <1>5, <1>9, Joined
  <2> QED BY <1>8, <1>5, <2>1 DEF Joins
<1>11. PICK h4 : h4 = h3 \o flags
  OBVIOUS
<1>12. /\ h4 \in Seq(Cell) /\ Len(h4) = 8
       /\ \A i \in 1..4 : h4[i] = magic[i]
       /\ h4[5] = <<"Byte", 1>> /\ h4[6] = <<TypeOf(kind), 0>>
  <2>1. Joins(h4, h3, flags)
    BY <1>10, <1>3, <1>11, Joined
  <2> QED BY <1>10, <1>3, <2>1 DEF Joins
<1>13. PICK h5 : h5 = h4 \o sequence
  OBVIOUS
<1>14. /\ h5 \in Seq(Cell) /\ Len(h5) = 16
       /\ \A i \in 1..4 : h5[i] = magic[i]
       /\ h5[5] = <<"Byte", 1>> /\ h5[6] = <<TypeOf(kind), 0>>
       /\ \A i \in 9..16 : h5[i] = sequence[i - 8]
  <2>1. Joins(h5, h4, sequence)
    BY <1>12, <1>2, <1>13, Joined
  <2> QED BY <1>12, <1>2, <2>1 DEF Joins
<1>15. PICK h6 : h6 = h5 \o size
  OBVIOUS
<1>16. /\ h6 \in Seq(Cell) /\ Len(h6) = 20
       /\ \A i \in 1..4 : h6[i] = magic[i]
       /\ h6[5] = <<"Byte", 1>> /\ h6[6] = <<TypeOf(kind), 0>>
       /\ \A i \in 9..16 : h6[i] = sequence[i - 8]
       /\ \A i \in 17..20 : h6[i] = size[i - 16]
  <2>1. Joint(h6, h5, size, 16, 20)
    <3>1. h5 \in Seq(Cell) /\ Len(h5) = 16
      BY <1>14
    <3>2. size \in Seq(Cell) /\ 20 = 16 + Len(size) /\ 16 \in Nat /\ 20 \in Nat
      BY <1>3
    <3> QED BY <1>15, <3>1, <3>2, JointOf
  <2>2. h6 \in Seq(Cell) /\ Len(h6) = 20
    BY <2>1 DEF Joint
  <2>3. \A i \in 1..16 : h6[i] = h5[i]
    BY <2>1 DEF Joint
  <2>4. \A i \in 17..20 : h6[i] = size[i - 16]
    <3>1. \A i \in 17..20 : i \in 16 + 1..20
      OBVIOUS
    <3> QED BY <2>1, <3>1, Zenon DEF Joint
  <2>5. \A i \in 1..4 : h6[i] = magic[i]
    <3>1. \A i \in 1..4 : h5[i] = magic[i]
      BY <1>14
    <3> QED BY <2>3, <3>1
  <2>6. h6[5] = h5[5] /\ h6[6] = h5[6]
    BY <2>3
  <2>7. \A i \in 9..16 : h6[i] = sequence[i - 8]
    <3>1. \A i \in 9..16 : h5[i] = sequence[i - 8]
      BY <1>14
    <3> QED BY <2>3, <3>1
  <2> QED BY <1>14, <2>2, <2>4, <2>5, <2>6, <2>7, Zenon
<1>17. HeaderOf(kind, length) = h6
  BY <1>6, <1>7, <1>9, <1>11, <1>13, <1>15
<1> QED BY <1>16, <1>17 DEF magic, sequence, size

LEMMA Slice ==
  ASSUME NEW s \in Seq(Cell), NEW t \in Seq(Cell), NEW a \in Nat, NEW b \in Nat,
         b <= Len(s), Len(t) = b - a,
         \A i \in a + 1..b : s[i] = t[i - a]
  PROVE  SubSeq(s, a + 1, b) = t
<1>1. \A i \in a + 1..b : s[i] \in Cell
  OBVIOUS
<1>2. /\ SubSeq(s, a + 1, b) \in Seq(Cell)
      /\ Len(SubSeq(s, a + 1, b)) = b - a
      /\ \A i \in 1..b - a : SubSeq(s, a + 1, b)[i] = s[a + i]
  OBVIOUS
<1>3. \A i \in 1..b - a : s[a + i] = t[i]
  <2> SUFFICES ASSUME NEW i \in 1..b - a PROVE s[a + i] = t[i]
    OBVIOUS
  <2>1. a + i \in a + 1..b /\ (a + i) - a = i
    OBVIOUS
  <2> QED BY <2>1
<1> QED BY <1>2, <1>3, SeqEqual

\* What is where in the frame of a message.
FrameOf(frame, kind) ==
  /\ frame \in Seq(Cell) /\ Len(frame) = HeaderLen + Len(EncodeMessage(kind))
  /\ SubSeq(frame, 1, 4) = Field(<<"MAGIC", 4>>)
  /\ SubSeq(frame, 5, 5) = Version
  /\ frame[6][1] = TypeOf(kind)
  /\ SubSeq(frame, 9, 16) = Field(u64("frame_sequence"))
  /\ SubSeq(frame, 17, 20) = Number(Len(EncodeMessage(kind)), 4)
  /\ SubSeq(frame, 21, 24) = Field(<<"CRC", 4>>)
  /\ SubSeq(frame, HeaderLen + 1, Len(frame)) = EncodeMessage(kind)

LEMMA FrameBytes ==
  ASSUME NEW kind \in Kind
  PROVE  FrameOf(EncodeFrame(kind), kind)
<1>0. EncodeMessage(kind) \in Seq(Cell) /\ Len(EncodeMessage(kind)) \in Nat
  BY MessageDecodes
<1>1. PICK payload \in Seq(Cell) : payload = EncodeMessage(kind)
  BY <1>0
<1>2. PICK size \in Nat : Len(payload) = size
  BY <1>0, <1>1
<1>3. PICK magic, sequence, number, crc : /\ magic = Field(<<"MAGIC", 4>>)
                                          /\ sequence = Field(u64("frame_sequence"))
                                          /\ number = Number(size, 4)
                                          /\ crc = Field(<<"CRC", 4>>)
  OBVIOUS
<1>4. magic \in Seq(Cell) /\ Len(magic) = 4 /\ crc \in Seq(Cell) /\ Len(crc) = 4
  <2>1. <<"MAGIC", 4>> \in Column /\ <<"CRC", 4>> \in Column
    BY DEF Column, Name
  <2> QED BY <1>3, <2>1, FieldFits
<1>5. sequence \in Seq(Cell) /\ Len(sequence) = 8
  <2>1. u64("frame_sequence") \in Column /\ u64("frame_sequence")[2] = 8
    BY DEF Column, Name, u64
  <2> QED BY <1>3, <2>1, FieldFits
<1>6. number \in Seq(Cell) /\ Len(number) = 4
  BY <1>3, NumberFits
<1>7. Version \in Seq(Cell) /\ Len(Version) = 1 /\ Version[1] = <<"Byte", 1>>
  <2>1. <<"Byte", 1>> \in Cell
    BY DEF Cell, Name
  <2> QED BY <2>1 DEF Version
<1>8. PICK header : header = HeaderOf(kind, size)
  OBVIOUS
<1>9. /\ header \in Seq(Cell) /\ Len(header) = 20
      /\ \A i \in 1..4 : header[i] = magic[i]
      /\ header[5] = <<"Byte", 1>>
      /\ header[6] = <<TypeOf(kind), 0>>
      /\ \A i \in 9..16 : header[i] = sequence[i - 8]
      /\ \A i \in 17..20 : header[i] = number[i - 16]
  BY <1>3, <1>8, HeaderBytes
<1>10. PICK front : front = header \o crc
  OBVIOUS
<1>11. PICK frame : frame = front \o payload
  OBVIOUS
<1>12. frame = EncodeFrame(kind)
  BY <1>1, <1>2, <1>3, <1>8, <1>10, <1>11 DEF EncodeFrame
<1>13. Joint(front, header, crc, 20, 24)
  <2>1. header \in Seq(Cell) /\ Len(header) = 20
    BY <1>9
  <2>2. 24 = 20 + Len(crc) /\ 20 \in Nat /\ 24 \in Nat
    BY <1>4
  <2> QED BY <1>4, <1>10, <2>1, <2>2, JointOf
<1>14. front \in Seq(Cell) /\ Len(front) = 24
  BY <1>13 DEF Joint
<1>15. Joint(frame, front, payload, 24, 24 + size)
  <2>1. 24 + size = 24 + Len(payload) /\ 24 + size \in Nat /\ 24 \in Nat
    BY <1>2
  <2> QED BY <1>1, <1>11, <1>14, <2>1, JointOf
<1>16. frame \in Seq(Cell) /\ Len(frame) = 24 + size
  BY <1>15 DEF Joint
<1>17. \A i \in 1..24 : frame[i] = front[i]
  BY <1>15 DEF Joint
<1>18. \A i \in 1..20 : frame[i] = header[i]
  <2>1. \A i \in 1..20 : front[i] = header[i]
    BY <1>13 DEF Joint
  <2>2. \A i \in 1..20 : i \in 1..24
    OBVIOUS
  <2> QED BY <1>17, <2>1, <2>2, Zenon
<1>19. SubSeq(frame, 0 + 1, 4) = magic
  <2>1. \A i \in 0 + 1..4 : frame[i] = magic[i - 0]
    <3>1. \A i \in 1..4 : header[i] = magic[i]
      BY <1>9
    <3> QED BY <1>18, <3>1
  <2> QED BY <1>4, <1>16, <2>1, Slice
<1>20. SubSeq(frame, 4 + 1, 5) = Version
  <2>1. \A i \in 4 + 1..5 : frame[i] = Version[i - 4]
    <3>1. \A i \in 4 + 1..5 : i = 5 /\ i - 4 = 1
      OBVIOUS
    <3>2. frame[5] = <<"Byte", 1>>
      BY <1>9, <1>18
    <3>3. frame[5] = Version[1]
      BY <1>7, <3>2
    <3> QED BY <3>1, <3>3
  <2> QED BY <1>7, <1>16, <2>1, Slice
<1>21. frame[6][1] = TypeOf(kind)
  <2>1. frame[6] = header[6]
    BY <1>18
  <2> QED BY <1>9, <2>1
<1>22. SubSeq(frame, 8 + 1, 16) = sequence
  <2>1. \A i \in 8 + 1..16 : frame[i] = sequence[i - 8]
    <3>1. \A i \in 9..16 : header[i] = sequence[i - 8]
      BY <1>9
    <3>2. \A i \in 8 + 1..16 : i \in 9..16 /\ i \in 1..20
      OBVIOUS
    <3> QED BY <1>18, <3>1, <3>2, Zenon
  <2> QED BY <1>5, <1>16, <2>1, Slice
<1>23. SubSeq(frame, 16 + 1, 20) = number
  <2>1. \A i \in 16 + 1..20 : frame[i] = number[i - 16]
    <3>1. \A i \in 17..20 : header[i] = number[i - 16]
      BY <1>9
    <3>2. \A i \in 16 + 1..20 : i \in 17..20 /\ i \in 1..20
      OBVIOUS
    <3> QED BY <1>18, <3>1, <3>2, Zenon
  <2> QED BY <1>6, <1>16, <2>1, Slice
<1>24. SubSeq(frame, 20 + 1, 24) = crc
  <2>1. \A i \in 20 + 1..24 : front[i] = crc[i - 20]
    BY <1>13 DEF Joint
  <2>2. \A i \in 20 + 1..24 : i \in 1..24
    OBVIOUS
  <2>3. \A i \in 20 + 1..24 : frame[i] = crc[i - 20]
    BY <1>17, <2>1, <2>2, Zenon
  <2> QED BY <1>4, <1>16, <2>3, Slice
<1>25. SubSeq(frame, 24 + 1, 24 + size) = payload
  <2>1. \A i \in 24 + 1..24 + size : frame[i] = payload[i - 24]
    BY <1>15 DEF Joint
  <2>2. 24 \in Nat /\ 24 + size \in Nat /\ size = (24 + size) - 24 /\ 24 + size <= 24 + size
    OBVIOUS
  <2> QED BY <1>2, <1>16, <2>1, <2>2, Slice
<1>26. SubSeq(frame, 1, 4) = magic /\ SubSeq(frame, 5, 5) = Version /\ SubSeq(frame, 9, 16) = sequence
  BY <1>19, <1>20, <1>22
<1>27. SubSeq(frame, 17, 20) = number /\ SubSeq(frame, 21, 24) = crc
  BY <1>23, <1>24
<1>28. SubSeq(frame, 24 + 1, Len(frame)) = payload
  BY <1>16, <1>25, Zenon
<1>29. FrameOf(frame, kind)
  BY <1>1, <1>2, <1>3, <1>16, <1>21, <1>26, <1>27, <1>28, Zenon DEF FrameOf, HeaderLen
<1> QED BY <1>12, <1>29

\* A frame that arrives as it was encoded is read as what was encoded.
LEMMA FrameDecodes ==
  ASSUME NEW kind \in Kind, NEW frame, frame = EncodeFrame(kind)
  PROVE  DecodeFrame(frame, Checksummed(frame)) = {<<Field(u64("frame_sequence")), <<kind, Said(kind)>>>>}
<1>1. FrameOf(frame, kind)
  BY FrameBytes
<1>2. /\ DecodeMessage(TypeOf(kind), EncodeMessage(kind)) = {<<kind, Said(kind)>>}
      /\ EncodeMessage(kind) \in Seq(Cell) /\ Len(EncodeMessage(kind)) \in 0..48
  BY MessageDecodes
<1>3. PICK payload : payload = EncodeMessage(kind)
  OBVIOUS
<1>4. PICK length : length = NumberIn(SubSeq(frame, 17, 20))
  OBVIOUS
<1>5. length = Len(payload)
  <2> DEFINE cells == Number(Len(payload), 4)
  <2>1. Len(cells) = 4 /\ \A k \in 1..4 : cells[k] = <<"Byte", IF k = 1 THEN Len(payload) ELSE 0>>
    <3>1. Len(payload) \in Nat /\ 4 \in Nat
      BY <1>2, <1>3
    <3> QED BY <3>1, NumberFits
  <2>2. SubSeq(frame, 17, 20) = cells
    BY <1>1, <1>3 DEF FrameOf
  <2> HIDE DEF cells
  <2>3. cells[1] = <<"Byte", Len(payload)>> /\ \A k \in 2..Len(cells) : cells[k] = <<"Byte", 0>>
    BY <2>1
  <2>4. NumberIn(cells) = Len(payload)
    BY <2>3 DEF NumberIn
  <2> QED BY <1>4, <2>2, <2>4
<1>6. Len(frame) = HeaderLen + length /\ ~(Len(frame) < HeaderLen) /\ length <= MaxPayload
  <2>1. Len(frame) = HeaderLen + Len(payload)
    BY <1>1, <1>3 DEF FrameOf
  <2>2. Len(payload) \in 0..48
    BY <1>2, <1>3
  <2>3. PICK n \in 0..48 : n = Len(payload)
    BY <2>2
  <2>4. length = n /\ Len(frame) = 24 + n
    BY <1>5, <2>1, <2>3 DEF HeaderLen
  <2> QED BY <2>4, CodecAssumption DEF HeaderLen
<1>7. TypeOf(kind) \in MessageType
  BY DEF MessageType
<1>8. DecodeFrame(frame, Checksummed(frame))
        = {<<SubSeq(frame, 9, 16), message>> :
             message \in DecodeMessage(TypeOf(kind), SubSeq(frame, HeaderLen + 1, Len(frame)))}
  BY <1>1, <1>4, <1>6, <1>7 DEF DecodeFrame, FrameOf
<1>9. SubSeq(frame, 9, 16) = Field(u64("frame_sequence"))
      /\ SubSeq(frame, HeaderLen + 1, Len(frame)) = EncodeMessage(kind)
  BY <1>1 DEF FrameOf
<1>10. DecodeFrame(frame, Checksummed(frame))
         = {<<Field(u64("frame_sequence")), message>> : message \in {<<kind, Said(kind)>>}}
  <2>1. DecodeMessage(TypeOf(kind), SubSeq(frame, HeaderLen + 1, Len(frame))) = {<<kind, Said(kind)>>}
    BY <1>2, <1>9
  <2> QED BY <1>8, <1>9, <2>1
<1> QED BY <1>10

LEMMA SliceAt ==
  ASSUME NEW s \in Seq(Cell), NEW a \in Nat, NEW b \in Nat, b <= Len(s)
  PROVE  \A i \in a + 1..b : SubSeq(s, a + 1, b)[i - a] = s[i]
<1> SUFFICES ASSUME NEW i \in a + 1..b PROVE SubSeq(s, a + 1, b)[i - a] = s[i]
  OBVIOUS
<1>1. i - a \in 1..b - a /\ a + (i - a) = i
  OBVIOUS
<1>2. \A k \in 1..b - a : SubSeq(s, a + 1, b)[k] = s[a + k]
  OBVIOUS
<1> QED BY <1>1, <1>2

\* What the checksum covers: everything but the first four bytes and its own four.
LEMMA ChecksummedBytes ==
  ASSUME NEW f \in Seq(Cell), NEW n \in Nat, Len(f) = HeaderLen + n
  PROVE  /\ Checksummed(f) \in Seq(Cell) /\ Len(Checksummed(f)) = 16 + n
         /\ \A i \in 1..16 : Checksummed(f)[i] = f[i + 4]
         /\ \A i \in 17..16 + n : Checksummed(f)[i] = f[i + 8]
<1>1. PICK s : s = SubSeq(f, 5, 20)
  OBVIOUS
<1>2. PICK t : t = SubSeq(f, 25, 24 + n)
  OBVIOUS
<1>3. s \in Seq(Cell) /\ Len(s) = 16 /\ \A i \in 1..16 : s[i] = f[i + 4]
  BY <1>1 DEF HeaderLen
<1>4. t \in Seq(Cell) /\ Len(t) = n /\ \A i \in 1..n : t[i] = f[i + 24]
  BY <1>2 DEF HeaderLen
<1>5. Checksummed(f) = s \o t
  BY <1>1, <1>2 DEF Checksummed, HeaderLen
<1>6. Joins(Checksummed(f), s, t)
  BY <1>3, <1>4, <1>5, Joined
<1>7. /\ Checksummed(f) \in Seq(Cell) /\ Len(Checksummed(f)) = 16 + n
      /\ \A i \in 1..16 + n : Checksummed(f)[i] = IF i <= 16 THEN s[i] ELSE t[i - 16]
  BY <1>3, <1>4, <1>6 DEF Joins
<1>8. ASSUME NEW i \in 1..16 PROVE Checksummed(f)[i] = f[i + 4]
  <2>1. i \in 1..16 + n /\ i <= 16
    OBVIOUS
  <2>2. Checksummed(f)[i] = s[i]
    BY <1>7, <2>1
  <2> QED BY <1>3, <2>2
<1>9. ASSUME NEW i \in 17..16 + n PROVE Checksummed(f)[i] = f[i + 8]
  <2>1. i - 16 \in 1..n /\ (i - 16) + 24 = i + 8 /\ i \in 1..16 + n /\ ~(i <= 16)
    OBVIOUS
  <2> QED BY <1>4, <1>7, <2>1
<1> QED BY <1>7, <1>8, <1>9

\* A frame with the magic, the checksum and everything the checksum covers of
\* another is that one.
LEMMA ChecksumDecides ==
  ASSUME NEW f \in Seq(Cell), NEW g \in Seq(Cell),
         Len(f) \in Nat, ~(Len(f) < HeaderLen), ~(Len(g) < HeaderLen),
         SubSeq(f, 1, 4) = SubSeq(g, 1, 4), SubSeq(f, 21, 24) = SubSeq(g, 21, 24),
         Checksummed(f) = Checksummed(g)
  PROVE  f = g
<1>1. PICK n \in Nat : Len(f) = HeaderLen + n
  <2>1. Len(f) - 24 \in Nat /\ Len(f) = 24 + (Len(f) - 24)
    BY DEF HeaderLen
  <2> QED BY <2>1 DEF HeaderLen
<1>2. PICK m \in Nat : Len(g) = HeaderLen + m
  <2>1. Len(g) - 24 \in Nat /\ Len(g) = 24 + (Len(g) - 24)
    BY DEF HeaderLen
  <2> QED BY <2>1 DEF HeaderLen
<1>3. PICK c : c = Checksummed(f)
  OBVIOUS
<1>4. /\ Len(c) = 16 + n
      /\ \A i \in 1..16 : c[i] = f[i + 4]
      /\ \A i \in 17..16 + n : c[i] = f[i + 8]
  BY <1>1, <1>3, ChecksummedBytes
<1>5. /\ Len(c) = 16 + m
      /\ \A i \in 1..16 : c[i] = g[i + 4]
      /\ \A i \in 17..16 + m : c[i] = g[i + 8]
  <2>1. c = Checksummed(g)
    BY <1>3
  <2> QED BY <1>2, <2>1, ChecksummedBytes
<1>6. n = m
  <2>1. 16 + n = 16 + m
    BY <1>4, <1>5
  <2> QED BY <2>1
<1>7. \A i \in 1..4 : f[i] = g[i]
  <2>1. 4 <= Len(f) /\ 4 <= Len(g)
    BY <1>1, <1>2 DEF HeaderLen
  <2>2. \A i \in 1..4 : SubSeq(f, 1, 4)[i] = f[i]
    BY <2>1
  <2>3. \A i \in 1..4 : SubSeq(g, 1, 4)[i] = g[i]
    BY <2>1
  <2> QED BY <2>2, <2>3
<1>8. \A i \in 20 + 1..24 : f[i] = g[i]
  <2>1. 24 <= Len(f) /\ 24 <= Len(g)
    BY <1>1, <1>2 DEF HeaderLen
  <2>2. \A i \in 20 + 1..24 : SubSeq(f, 20 + 1, 24)[i - 20] = f[i]
    BY <2>1, SliceAt
  <2>3. \A i \in 20 + 1..24 : SubSeq(g, 20 + 1, 24)[i - 20] = g[i]
    BY <2>1, SliceAt
  <2> QED BY <2>2, <2>3
<1>9. ASSUME NEW i \in 1..24 + n PROVE f[i] = g[i]
  <2>1. CASE i \in 1..4 \/ i \in 20 + 1..24
    BY <1>7, <1>8, <2>1, Zenon
  <2>2. CASE i \in 5..20
    <3>1. i - 4 \in 1..16 /\ (i - 4) + 4 = i
      BY <2>2
    <3> QED BY <1>4, <1>5, <3>1
  <2>3. CASE i \in 25..24 + n
    <3>1. i - 8 \in 17..16 + n /\ (i - 8) + 8 = i
      BY <2>3
    <3> QED BY <1>4, <1>5, <1>6, <3>1
  <2>4. i \in 1..4 \/ i \in 5..20 \/ i \in 20 + 1..24 \/ i \in 25..24 + n
    OBVIOUS
  <2> QED BY <2>1, <2>2, <2>3, <2>4
<1>10. Len(f) = 24 + n /\ Len(g) = 24 + n
  BY <1>1, <1>2, <1>6 DEF HeaderLen
<1> QED BY <1>9, <1>10, SeqEqual

\* Whatever arrives, it is what was encoded or it is refused.
LEMMA OnlyOwnFrame ==
  ASSUME NEW kind \in Kind, NEW other \in Seq(Cell), other # EncodeFrame(kind)
  PROVE  DecodeFrame(other, Checksummed(EncodeFrame(kind))) = {}
<1>1. PICK frame : frame = EncodeFrame(kind)
  OBVIOUS
<1>2. FrameOf(frame, kind)
  BY <1>1, FrameBytes
<1>3. frame \in Seq(Cell) /\ ~(Len(frame) < HeaderLen)
  <2>1. Len(EncodeMessage(kind)) \in 0..48
    BY MessageDecodes
  <2>2. PICK n \in 0..48 : n = Len(EncodeMessage(kind))
    BY <2>1
  <2>3. frame \in Seq(Cell) /\ Len(frame) = HeaderLen + n
    BY <1>2, <2>2 DEF FrameOf
  <2> QED BY <2>2, <2>3 DEF HeaderLen
<1> SUFFICES ASSUME DecodeFrame(other, Checksummed(frame)) # {} PROVE other = frame
  BY <1>1
<1>4. /\ ~(Len(other) < HeaderLen)
      /\ SubSeq(other, 1, 4) = Field(<<"MAGIC", 4>>)
      /\ SubSeq(other, 21, 24) = Field(<<"CRC", 4>>)
      /\ Checksummed(other) = Checksummed(frame)
  BY DEF DecodeFrame
<1>5. /\ SubSeq(frame, 1, 4) = Field(<<"MAGIC", 4>>)
      /\ SubSeq(frame, 21, 24) = Field(<<"CRC", 4>>)
  BY <1>2 DEF FrameOf
<1>6. Len(other) \in Nat
  OBVIOUS
<1> QED BY <1>3, <1>4, <1>5, <1>6, ChecksumDecides

-----------------------------------------------------------------------------
(***************************************************************************)
(* Records of the command journal.                                         *)
(***************************************************************************)
RecordOf(record, kind) ==
  /\ record \in Seq(Cell) /\ Len(record) = RecordHeader + Len(Payload(kind))
  /\ SubSeq(record, 1, 4) = Field(<<"MAGIC", 4>>)
  /\ SubSeq(record, 5, 6) = Number(1, 2)
  /\ SubSeq(record, 9, 12) = Number(Len(Payload(kind)), 4)
  /\ SubSeq(record, 13, 16) = Field(<<"CRC", 4>>)
  /\ SubSeq(record, RecordHeader + 1, Len(record)) = Payload(kind)

LEMMA RecordBytes ==
  ASSUME NEW kind \in DOMAIN RecordKind
  PROVE  RecordOf(JournalRecord(kind), kind)
<1> DEFINE magic == Field(<<"MAGIC", 4>>)
           version == Number(1, 2)
           code == Number(RecordKind[kind], 1)
           spare == Number(0, 1)
           crc == Field(<<"CRC", 4>>)
           payload == Payload(kind)
           size == Number(Len(payload), 4)
<1>1. magic \in Seq(Cell) /\ Len(magic) = 4 /\ crc \in Seq(Cell) /\ Len(crc) = 4
  <2>1. <<"MAGIC", 4>> \in Column /\ <<"CRC", 4>> \in Column
    BY DEF Column, Name
  <2> QED BY <2>1, FieldFits
<1>2. payload \in Seq(Cell) /\ Len(payload) \in Nat
  BY RecordDecodes
<1>3. /\ version \in Seq(Cell) /\ Len(version) = 2
      /\ spare \in Seq(Cell) /\ Len(spare) = 1
      /\ size \in Seq(Cell) /\ Len(size) = 4
  <2> HIDE DEF payload
  <2> QED BY <1>2, NumberFits
<1>4. code \in Seq(Cell) /\ Len(code) = 1
  BY Codes, NumberFits
<1>5. JournalRecord(kind) = (((((magic \o version) \o code) \o spare) \o size) \o crc) \o payload
  BY DEF JournalRecord
<1> HIDE DEF magic, version, code, spare, crc, size, payload
<1>6. PICK h2 : h2 = magic \o version
  OBVIOUS
<1>7. /\ h2 \in Seq(Cell) /\ Len(h2) = 6
      /\ \A i \in 1..4 : h2[i] = magic[i]
      /\ \A i \in 5..6 : h2[i] = version[i - 4]
  <2>1. Joins(h2, magic, version)
    BY <1>1, <1>3, <1>6, Joined
  <2> QED BY <1>1, <1>3, <2>1 DEF Joins
<1>8. PICK h3 : h3 = h2 \o code
  OBVIOUS
<1>9. h3 \in Seq(Cell) /\ Len(h3) = 7 /\ \A i \in 1..6 : h3[i] = h2[i]
  <2>1. Joins(h3, h2, code)
    BY <1>4, <1>7, <1>8, Joined
  <2> QED BY <1>4, <1>7, <2>1 DEF Joins
<1>10. PICK h4 : h4 = h3 \o spare
  OBVIOUS
<1>11. h4 \in Seq(Cell) /\ Len(h4) = 8 /\ \A i \in 1..6 : h4[i] = h2[i]
  <2>1. Joins(h4, h3, spare)
    BY <1>3, <1>9, <1>10, Joined
  <2> QED BY <1>3, <1>9, <2>1 DEF Joins
<1>12. PICK h5 : h5 = h4 \o size
  OBVIOUS
<1>13. /\ h5 \in Seq(Cell) /\ Len(h5) = 12 /\ \A i \in 1..6 : h5[i] = h2[i]
       /\ \A i \in 9..12 : h5[i] = size[i - 8]
  <2>1. Joins(h5, h4, size)
    BY <1>3, <1>11, <1>12, Joined
  <2> QED BY <1>3, <1>11, <2>1 DEF Joins
<1>14. PICK h6 : h6 = h5 \o crc
  OBVIOUS
<1>15. /\ h6 \in Seq(Cell) /\ Len(h6) = 16 /\ \A i \in 1..6 : h6[i] = h2[i]
       /\ \A i \in 9..12 : h6[i] = size[i - 8]
       /\ \A i \in 13..16 : h6[i] = crc[i - 12]
  <2>1. Joins(h6, h5, crc)
    BY <1>1, <1>13, <1>14, Joined
  <2> QED BY <1>1, <1>13, <2>1 DEF Joins
<1>16. PICK record : record = h6 \o payload
  OBVIOUS
<1>17. /\ record \in Seq(Cell) /\ Len(record) = 16 + Len(payload)
       /\ \A i \in 1..16 : record[i] = h6[i]
       /\ \A i \in 17..16 + Len(payload) : record[i] = payload[i - 16]
  <2>1. Joins(record, h6, payload)
    BY <1>2, <1>15, <1>16, Joined
  <2>2. /\ record \in Seq(Cell) /\ Len(record) = 16 + Len(payload)
        /\ \A i \in 1..16 + Len(payload) : record[i] = IF i <= 16 THEN h6[i] ELSE payload[i - 16]
    BY <1>15, <2>1 DEF Joins
  <2>3. \A i \in 1..16 : i \in 1..16 + Len(payload) /\ i <= 16
    BY <1>2
  <2>4. \A i \in 17..16 + Len(payload) : i \in 1..16 + Len(payload) /\ ~(i <= 16)
    BY <1>2
  <2> QED BY <2>2, <2>3, <2>4
<1>18. SubSeq(record, 0 + 1, 4) = magic
  <2>1. \A i \in 0 + 1..4 : record[i] = magic[i - 0]
    BY <1>7, <1>15, <1>17
  <2>2. 4 <= Len(record)
    BY <1>2, <1>17
  <2> QED BY <1>1, <1>17, <2>1, <2>2, Slice
<1>19. SubSeq(record, 4 + 1, 6) = version
  <2>1. \A i \in 4 + 1..6 : record[i] = version[i - 4]
    BY <1>7, <1>15, <1>17
  <2>2. 6 <= Len(record)
    BY <1>2, <1>17
  <2> QED BY <1>3, <1>17, <2>1, <2>2, Slice
<1>20. SubSeq(record, 8 + 1, 12) = size
  <2>1. \A i \in 8 + 1..12 : record[i] = size[i - 8]
    BY <1>15, <1>17
  <2>2. 12 <= Len(record)
    BY <1>2, <1>17
  <2> QED BY <1>3, <1>17, <2>1, <2>2, Slice
<1>21. SubSeq(record, 12 + 1, 16) = crc
  <2>1. \A i \in 12 + 1..16 : record[i] = crc[i - 12]
    BY <1>15, <1>17
  <2>2. 16 <= Len(record)
    BY <1>2, <1>17
  <2> QED BY <1>1, <1>17, <2>1, <2>2, Slice
<1>22. SubSeq(record, 16 + 1, 16 + Len(payload)) = payload
  BY <1>2, <1>17, Slice
<1>23. JournalRecord(kind) = record
  BY <1>5, <1>6, <1>8, <1>10, <1>12, <1>14, <1>16
<1> QED
  BY <1>17, <1>18, <1>19, <1>20, <1>21, <1>22, <1>23
  DEF RecordOf, RecordHeader, magic, version, size, crc, payload

\* Whatever stands at the front of a file, it is a record that carries the
\* command's own bytes or it is refused.
LEMMA OnlyOwnRecord ==
  ASSUME NEW kind \in DOMAIN RecordKind, NEW left \in Seq(Cell),
         NEW n, n = RecordLength(left, Payload(kind)), n # 0
  PROVE  /\ n = RecordHeader + Len(Payload(kind)) /\ n <= Len(left)
         /\ SubSeq(left, RecordHeader + 1, n) = Payload(kind)
<1>1. PICK length : length = NumberIn(SubSeq(left, 9, 12))
  OBVIOUS
<1>2. PICK payload : payload = Payload(kind)
  OBVIOUS
<1>3. /\ length \in 1..MaxRecord /\ n = RecordHeader + length /\ n <= Len(left)
      /\ SubSeq(left, RecordHeader + 1, n) = payload
  BY <1>1, <1>2 DEF RecordLength
<1>4. Len(SubSeq(left, RecordHeader + 1, n)) = length
  <2>1. length \in Nat
    BY <1>3, CodecAssumption
  <2> QED BY <1>3, <2>1 DEF RecordHeader
<1> QED BY <1>2, <1>3, <1>4

\* A record that is there is read.
LEMMA RecordReads ==
  ASSUME NEW kind \in DOMAIN RecordKind, NEW left \in Seq(Cell),
         NEW record, record = JournalRecord(kind), Len(record) <= Len(left),
         \A i \in 1..Len(record) : left[i] = record[i]
  PROVE  RecordLength(left, Payload(kind)) = Len(record)
<1>1. RecordOf(record, kind)
  BY RecordBytes
<1>2. PICK payload : payload = Payload(kind)
  OBVIOUS
<1>3. PICK p \in 1..40 : p = Len(payload)
  BY <1>2, RecordDecodes
<1>4. record \in Seq(Cell) /\ Len(record) = 16 + p
  BY <1>1, <1>2, <1>3 DEF RecordOf, RecordHeader
<1>5. ASSUME NEW a \in 1..16, NEW b \in 1..16 PROVE SubSeq(left, a, b) = SubSeq(record, a, b)
  <2>1. \A i \in a..b : left[i] = record[i] /\ i \in 1..Len(left) /\ i \in 1..Len(record)
    BY <1>4
  <2> QED BY <1>4, <2>1
<1>6. /\ SubSeq(left, 1, 4) = Field(<<"MAGIC", 4>>)
      /\ SubSeq(left, 5, 6) = Number(1, 2)
      /\ SubSeq(left, 9, 12) = Number(p, 4)
      /\ SubSeq(left, 13, 16) = Field(<<"CRC", 4>>)
  <2>1. SubSeq(left, 1, 4) = SubSeq(record, 1, 4)
    <3>1. 1 \in 1..16 /\ 4 \in 1..16
      OBVIOUS
    <3> QED BY <1>5, <3>1
  <2>2. SubSeq(left, 5, 6) = SubSeq(record, 5, 6)
    <3>1. 5 \in 1..16 /\ 6 \in 1..16
      OBVIOUS
    <3> QED BY <1>5, <3>1
  <2>3. SubSeq(left, 9, 12) = SubSeq(record, 9, 12)
    <3>1. 9 \in 1..16 /\ 12 \in 1..16
      OBVIOUS
    <3> QED BY <1>5, <3>1
  <2>4. SubSeq(left, 13, 16) = SubSeq(record, 13, 16)
    <3>1. 13 \in 1..16 /\ 16 \in 1..16
      OBVIOUS
    <3> QED BY <1>5, <3>1
  <2> QED BY <1>1, <1>2, <1>3, <2>1, <2>2, <2>3, <2>4 DEF RecordOf
<1>7. SubSeq(left, 16 + 1, 16 + p) = payload
  <2>1. \A i \in 16 + 1..16 + p : left[i] = record[i] /\ i \in 1..Len(left) /\ i \in 1..Len(record)
    BY <1>4
  <2>2. SubSeq(left, 16 + 1, 16 + p) = SubSeq(record, 16 + 1, 16 + p)
    BY <1>4, <2>1
  <2> QED BY <1>1, <1>2, <1>4, <2>2 DEF RecordOf, RecordHeader
<1>8. NumberIn(SubSeq(left, 9, 12)) = p
  <2> DEFINE cells == Number(p, 4)
  <2>1. Len(cells) = 4 /\ \A k \in 1..4 : cells[k] = <<"Byte", IF k = 1 THEN p ELSE 0>>
    <3>1. p \in Nat /\ 4 \in Nat
      OBVIOUS
    <3> QED BY <3>1, NumberFits
  <2> HIDE DEF cells
  <2>2. cells[1] = <<"Byte", p>> /\ \A k \in 2..Len(cells) : cells[k] = <<"Byte", 0>>
    BY <2>1
  <2>3. NumberIn(cells) = p
    BY <2>2 DEF NumberIn
  <2> QED BY <1>6, <2>3 DEF cells
<1>9. p \in 1..MaxRecord
  BY CodecAssumption
<1>10. 16 + p <= Len(left) /\ ~(Len(left) < 16)
  <2>1. PICK m \in Nat : m = Len(left)
    OBVIOUS
  <2>2. 16 + p <= m
    BY <1>4, <2>1
  <2>3. ~(m < 16)
    BY <2>2
  <2> QED BY <2>1, <2>2, <2>3
<1> QED BY <1>2, <1>4, <1>6, <1>7, <1>8, <1>9, <1>10 DEF RecordLength, RecordHeader

-----------------------------------------------------------------------------
(***************************************************************************)
(* Files of records.                                                       *)
(***************************************************************************)
LEMMA PrefixesTyped ==
  ASSUME NEW S, NEW seqs \in Seq(Seq(S)), NEW g, IsPrefixes(g, seqs)
  PROVE  \A m \in 1..Len(seqs) : g[m] \in Seq(S)
<1> DEFINE Typed == {k \in Nat : k + 1 \in 1..Len(seqs) => g[k + 1] \in Seq(S)}
<1>1. 0 \in Typed
  BY DEF IsPrefixes
<1>2. ASSUME NEW k \in Nat, k \in Typed, (k + 1) + 1 \in 1..Len(seqs) PROVE g[(k + 1) + 1] \in Seq(S)
  <2>1. k + 1 \in 1..Len(seqs) - 1 /\ k + 1 \in 1..Len(seqs)
    BY <1>2
  <2>2. g[k + 1] \in Seq(S) /\ seqs[(k + 1) + 1] \in Seq(S)
    BY <1>2, <2>1
  <2>3. g[(k + 1) + 1] = g[k + 1] \o seqs[(k + 1) + 1]
    BY <2>1 DEF IsPrefixes
  <2> QED BY <2>2, <2>3
<1>3. Nat \subseteq Typed
  <2>1. \A k \in Nat : k \in Typed => k + 1 \in Typed
    BY <1>2
  <2> HIDE DEF Typed
  <2> QED BY <1>1, <2>1, Induction
<1>4. ASSUME NEW m \in 1..Len(seqs) PROVE g[m] \in Seq(S)
  <2>1. m - 1 \in Nat /\ (m - 1) + 1 = m
    OBVIOUS
  <2> QED BY <1>3, <2>1
<1> QED BY <1>4

\* Where the record behind the first m begins, less one.
Start(kinds, m) == Len(File(SubSeq(kinds, 1, m)))

\* The m-th turn starts where the one before ended and finds its own record.
RecordAt(kinds, m) ==
  /\ Start(kinds, m) \in Nat /\ Start(kinds, m + 1) \in Nat
  /\ Start(kinds, m + 1) = Start(kinds, m) + Len(JournalRecord(kinds[m + 1]))
  /\ Start(kinds, m + 1) <= Len(File(kinds))
  /\ SubSeq(File(kinds), Start(kinds, m) + 1, Start(kinds, m + 1)) = JournalRecord(kinds[m + 1])

\* Every record stands in the file behind the ones before it.
LEMMA FileParts ==
  ASSUME NEW kinds \in Seq(DOMAIN RecordKind)
  PROVE  /\ File(kinds) \in Seq(Cell)
         /\ Start(kinds, 0) = 0 /\ Start(kinds, Len(kinds)) = Len(File(kinds))
         /\ \A m \in 0..Len(kinds) - 1 : RecordAt(kinds, m)
<1> DEFINE seqs == [i \in DOMAIN kinds |-> JournalRecord(kinds[i])]
           n == Len(kinds)
<1>1. /\ seqs \in Seq(Seq(Cell)) /\ Len(seqs) = n /\ n \in Nat
      /\ \A i \in 1..n : seqs[i] = JournalRecord(kinds[i]) /\ Len(seqs[i]) \in Nat
  <2>1. \A i \in DOMAIN kinds : JournalRecord(kinds[i]) \in Seq(Cell)
    <3>1. \A i \in DOMAIN kinds : kinds[i] \in DOMAIN RecordKind
      OBVIOUS
    <3> QED BY <3>1, RecordBytes DEF RecordOf
  <2>2. DOMAIN kinds = 1..n /\ n \in Nat
    OBVIOUS
  <2>3. seqs \in [1..n -> Seq(Cell)]
    BY <2>1, <2>2
  <2>4. seqs \in Seq(Seq(Cell)) /\ Len(seqs) = n
    BY <2>2, <2>3
  <2> QED BY <2>1, <2>2, <2>4
<1>2. File(kinds) = FlattenSeq(seqs)
  BY DEF File
<1>3. SubSeq(kinds, 1, 0) = <<>> /\ SubSeq(kinds, 1, n) = kinds
  OBVIOUS
<1>4. Start(kinds, 0) = 0
  <2>1. File(<<>>) = <<>>
    BY DEF File, FlattenSeq
  <2>2. Len(<<>>) = 0
    OBVIOUS
  <2>3. Start(kinds, 0) = Len(<<>>)
    BY <1>3, <2>1 DEF Start
  <2> QED BY <2>2, <2>3
<1>5. Start(kinds, n) = Len(File(kinds))
  BY <1>3 DEF Start
<1>6. ASSUME NEW m \in 1..n PROVE File(SubSeq(kinds, 1, m)) = FlattenSeq(SubSeq(seqs, 1, m))
  <2>1. [i \in DOMAIN SubSeq(kinds, 1, m) |-> JournalRecord(SubSeq(kinds, 1, m)[i])] = SubSeq(seqs, 1, m)
    <3>1. DOMAIN SubSeq(kinds, 1, m) = 1..m /\ \A i \in 1..m : SubSeq(kinds, 1, m)[i] = kinds[i]
      OBVIOUS
    <3>2. SubSeq(seqs, 1, m) = [i \in 1..m |-> JournalRecord(kinds[i])]
      BY <1>1
    <3> QED BY <3>1, <3>2
  <2> QED BY <2>1 DEF File
<1> HIDE DEF seqs, n
<1>7. CASE n = 0
  <2>1. File(kinds) \in Seq(Cell)
    BY <1>1, <1>2, <1>7 DEF FlattenSeq
  <2> QED BY <1>4, <1>5, <1>7, <2>1 DEF n
<1>8. CASE n # 0
  <2>1. n \in Nat \ {0} /\ n \in 1..n
    BY <1>1, <1>8
  <2>2. PICK g : IsPrefixes(g, seqs)
    BY <1>1, <2>1, Flattens
  <2>3. \A m \in 1..n : g[m] \in Seq(Cell)
    BY <1>1, <2>2, PrefixesTyped
  <2>4. \A m \in 1..n : File(SubSeq(kinds, 1, m)) = g[m]
    BY <1>1, <1>6, <2>2, FlattensFirst
  <2>5. File(kinds) = g[n]
    BY <1>1, <1>2, <2>2 DEF IsPrefixes
  <2> DEFINE at == [i \in 1..n + 1 |-> Start(kinds, i - 1)]
  <2>6. \A m \in 1..n : Start(kinds, m) = Len(g[m]) /\ Start(kinds, m) \in Nat
    BY <2>3, <2>4 DEF Start
  <2>7. \A m \in 0..n : Start(kinds, m) \in Nat /\ at[m + 1] = Start(kinds, m)
    BY <1>1, <1>4, <2>6
  <2>8. ASSUME NEW i \in 1..n PROVE at[i + 1] = at[i] + Len(seqs[i])
    <3>1. CASE i = 1
      <4>1. g[1] = seqs[1]
        BY <2>2 DEF IsPrefixes
      <4>2. at[1] = 0 /\ at[1 + 1] = Start(kinds, 1)
        BY <1>1, <1>4, <2>1
      <4>3. Len(seqs[1]) \in Nat /\ Start(kinds, 1) = Len(seqs[1])
        BY <1>1, <2>1, <2>6, <4>1
      <4> QED BY <3>1, <4>2, <4>3
    <3>2. CASE i # 1
      <4>1. i - 1 \in 1..n - 1 /\ i - 1 \in 1..n /\ (i - 1) + 1 = i
        BY <1>1, <3>2
      <4>2. g[i] = g[i - 1] \o seqs[i]
        BY <1>1, <2>2, <4>1 DEF IsPrefixes
      <4>3. seqs[i] \in Seq(Cell) /\ g[i - 1] \in Seq(Cell)
        BY <1>1, <2>3, <4>1
      <4>4. Len(g[i]) = Len(g[i - 1]) + Len(seqs[i])
        BY <4>2, <4>3
      <4>5. at[i + 1] = Start(kinds, i) /\ at[i] = Start(kinds, i - 1)
        BY <1>1
      <4>6. Start(kinds, i) = Len(g[i]) /\ Start(kinds, i - 1) = Len(g[i - 1])
        BY <2>6, <4>1
      <4> QED BY <4>4, <4>5, <4>6
    <3> QED BY <3>1, <3>2
  <2>9. at[1] = 0
    BY <1>1, <1>4
  <2> HIDE DEF at
  <2>10. PartsAt(g[n], seqs, at, n)
    BY <1>1, <2>1, <2>2, <2>8, <2>9, PartsUnderCursor
  <2>11. ASSUME NEW m \in 0..n - 1 PROVE RecordAt(kinds, m)
    <3>1. m + 1 \in 1..n /\ m \in 0..n /\ m + 1 \in 0..n /\ n \in 0..n
      BY <1>1
    <3>2. /\ at[m + 1] = Start(kinds, m) /\ at[(m + 1) + 1] = Start(kinds, m + 1)
          /\ at[n + 1] = Len(File(kinds))
      BY <1>5, <2>7, <3>1
    <3>3. /\ at[(m + 1) + 1] <= at[n + 1]
          /\ SubSeq(g[n], at[m + 1] + 1, at[(m + 1) + 1]) = seqs[m + 1]
      BY <2>10, <3>1 DEF PartsAt
    <3>4. at[(m + 1) + 1] = at[m + 1] + Len(seqs[m + 1])
      BY <2>8, <3>1
    <3>5. seqs[m + 1] = JournalRecord(kinds[m + 1])
      BY <1>1, <3>1
    <3>6. Start(kinds, m) \in Nat /\ Start(kinds, m + 1) \in Nat
      BY <2>7, <3>1
    <3> QED BY <2>5, <3>2, <3>3, <3>4, <3>5, <3>6 DEF RecordAt
  <2>12. File(kinds) \in Seq(Cell)
    BY <2>1, <2>3, <2>5
  <2> QED BY <1>4, <1>5, <2>11, <2>12 DEF n
<1> QED BY <1>7, <1>8

-----------------------------------------------------------------------------
(***************************************************************************)
(* The loop of decode_records.  FoldLeft takes the records in order; so    *)
(* there is a sequence of the loop's states.                               *)
(***************************************************************************)
IsReading(g, base, kinds, C) ==
  g = [T \in C |-> IF T = {} THEN base ELSE ReadRecord(g[T \ {Max(T)}], kinds[Max(T)])]

\* FoldLeft is defined by recursion over sets of indices.
LEMMA FoldIsReading ==
  ASSUME NEW base, NEW kinds
  PROVE  FoldLeft(ReadRecord, base, kinds)
           = (CHOOSE g : IsReading(g, base, kinds, SUBSET (DOMAIN kinds)))[DOMAIN kinds]
BY DEF FoldLeft, MapThenFoldSet, IsReading

LEMMA LastOfFirst ==
  ASSUME NEW n \in Nat
  PROVE  Max(1..n + 1) = n + 1 /\ (1..n + 1) \ {n + 1} = 1..n
<1>1. n + 1 \in 1..n + 1 /\ \A y \in 1..n + 1 : n + 1 >= y
  OBVIOUS
<1>2. \A x \in 1..n + 1 : (\A y \in 1..n + 1 : x >= y) => x = n + 1
  OBVIOUS
<1> QED BY <1>1, <1>2 DEF Max

LEMMA LastIn ==
  ASSUME NEW n \in Nat, NEW T \in SUBSET (1..n), T # {}
  PROVE  Max(T) \in T
<1> DEFINE Rest == {n - x : x \in T}
<1>1. Rest \subseteq Nat /\ Rest # {}
  <2>1. \A x \in T : n - x \in Nat
    OBVIOUS
  <2> QED BY <2>1
<1> HIDE DEF Rest
<1>2. PICK r \in Rest : \A y \in Rest : r <= y
  BY <1>1, LeastNumber
<1>3. PICK x \in T : r = n - x
  BY <1>2 DEF Rest
<1>4. ASSUME NEW y \in T PROVE x >= y
  <2>1. n - y \in Rest
    BY DEF Rest
  <2>2. r <= n - y
    BY <1>2, <2>1
  <2> QED BY <1>3, <2>2
<1> QED BY <1>3, <1>4 DEF Max

\* The equation of the fold has a solution.
LEMMA ReadingExists ==
  ASSUME NEW base, NEW kinds, NEW n \in Nat
  PROVE  \E g : IsReading(g, base, kinds, SUBSET (1..n))
<1>S. PICK S : S = 1..n
  OBVIOUS
<1> DEFINE Small(k) == {T \in SUBSET S : Cardinality(T) <= k}
           Some == {k \in Nat : \E g : IsReading(g, base, kinds, Small(k))}
<1>f. IsFiniteSet(S) /\ Cardinality(S) \in Nat
  BY <1>S, FS_Interval
<1>m. \A T \in SUBSET S : T # {} => Max(T) \in T
  BY <1>S, LastIn
<1>0. \A T \in SUBSET S : IsFiniteSet(T) /\ Cardinality(T) \in Nat
  BY <1>f, FS_Subset, FS_CardinalityType
<1>1. 0 \in Some
  <2> DEFINE g == [T \in Small(0) |-> base]
  <2>1. \A T \in Small(0) : T = {}
    BY <1>0, FS_EmptySet
  <2>2. g = [T \in Small(0) |-> IF T = {} THEN base ELSE ReadRecord(g[T \ {Max(T)}], kinds[Max(T)])]
    BY <2>1
  <2> QED BY <2>2 DEF IsReading
<1>2. ASSUME NEW k \in Nat, k \in Some PROVE k + 1 \in Some
  <2>1. PICK g : IsReading(g, base, kinds, Small(k))
    BY <1>2
  <2>h. PICK h : h = [T \in Small(k + 1) |->
                        IF T = {} THEN base ELSE ReadRecord(g[T \ {Max(T)}], kinds[Max(T)])]
    OBVIOUS
  <2>2. ASSUME NEW T \in Small(k + 1), T # {} PROVE T \ {Max(T)} \in Small(k)
    <3>1. Max(T) \in T
      BY <1>m, <2>2
    <3>2. Cardinality(T \ {Max(T)}) = Cardinality(T) - 1
      BY <1>0, <3>1, RemoveOne
    <3> QED BY <1>0, <2>2, <3>2
  <2>3. ASSUME NEW T \in Small(k) PROVE h[T] = g[T]
    <3>1. T \in Small(k + 1)
      BY <1>0
    <3> QED BY <2>1, <2>h, <3>1 DEF IsReading
  <2>4. h = [T \in Small(k + 1) |-> IF T = {} THEN base ELSE ReadRecord(h[T \ {Max(T)}], kinds[Max(T)])]
    BY <2>h, <2>2, <2>3
  <2>5. IsReading(h, base, kinds, Small(k + 1))
    BY <2>4 DEF IsReading
  <2>6. \E w : IsReading(w, base, kinds, Small(k + 1))
    BY <2>5, Zenon
  <2>7. k + 1 \in Nat
    OBVIOUS
  <2> HIDE DEF Small
  <2> QED BY <2>6, <2>7, Zenon
<1>3. Nat \subseteq Some
  <2> HIDE DEF Some
  <2> QED BY <1>1, <1>2, Induction
<1>4. PICK g : IsReading(g, base, kinds, Small(Cardinality(S)))
  BY <1>f, <1>3
<1>5. Small(Cardinality(S)) = SUBSET S
  BY <1>f, FS_Subset
<1> QED BY <1>S, <1>4, <1>5

\* The states of the loop: before the first record, and behind each.
IsLoop(at, base, kinds) ==
  /\ at[0] = base
  /\ \A m \in 0..Len(kinds) - 1 : at[m + 1] = ReadRecord(at[m], kinds[m + 1])
  /\ at[Len(kinds)] = FoldLeft(ReadRecord, base, kinds)

\* The fold is a loop over the records.
LEMMA LoopRuns ==
  ASSUME NEW base, NEW S, NEW kinds \in Seq(S)
  PROVE  \E at : IsLoop(at, base, kinds)
<1> DEFINE n == Len(kinds)
           g == CHOOSE w : IsReading(w, base, kinds, SUBSET (1..n))
           at == [m \in 0..n |-> g[1..m]]
<1>1. n \in Nat /\ DOMAIN kinds = 1..n
  OBVIOUS
<1> HIDE DEF n
<1>2. IsReading(g, base, kinds, SUBSET (1..n))
  BY <1>1, ReadingExists
<1>3. FoldLeft(ReadRecord, base, kinds) = g[1..n]
  BY <1>1, FoldIsReading
<1> HIDE DEF g
<1>4. \A T \in SUBSET (1..n) : g[T] = IF T = {} THEN base ELSE ReadRecord(g[T \ {Max(T)}], kinds[Max(T)])
  BY <1>2 DEF IsReading
<1>5. at[0] = base
  <2>1. 1..0 = {} /\ {} \in SUBSET (1..n) /\ 0 \in 0..n
    BY <1>1
  <2> QED BY <1>4, <2>1
<1>6. ASSUME NEW m \in 0..n - 1 PROVE at[m + 1] = ReadRecord(at[m], kinds[m + 1])
  <2>1. m \in Nat /\ m \in 0..n /\ m + 1 \in 0..n /\ (1..m + 1) \in SUBSET (1..n) /\ m + 1 \in 1..m + 1
    BY <1>1
  <2>2. Max(1..m + 1) = m + 1 /\ (1..m + 1) \ {m + 1} = 1..m
    BY <2>1, LastOfFirst
  <2>3. g[1..m + 1] = ReadRecord(g[(1..m + 1) \ {m + 1}], kinds[m + 1])
    BY <1>4, <2>1, <2>2
  <2> QED BY <2>1, <2>2, <2>3
<1>7. at[n] = FoldLeft(ReadRecord, base, kinds)
  BY <1>1, <1>3
<1> HIDE DEF at
<1>8. IsLoop(at, base, kinds)
  BY <1>5, <1>6, <1>7 DEF IsLoop, n
<1> QED BY <1>8

\* What is behind the first n of a sequence.
LEMMA Remainder ==
  ASSUME NEW s \in Seq(Cell), NEW n \in Nat, n <= Len(s)
  PROVE  LET rest == SubSeq(s, n + 1, Len(s))
         IN  /\ rest \in Seq(Cell) /\ Len(rest) = Len(s) - n
             /\ \A i \in 1..Len(s) - n : rest[i] = s[n + i]
OBVIOUS

LEMMA FunctionIsSeq ==
  ASSUME NEW S, NEW n \in Nat, NEW t \in [1..n -> S]
  PROVE  t \in Seq(S) /\ Len(t) = n
OBVIOUS

LEMMA MeantNext ==
  ASSUME NEW S, NEW kinds \in Seq(S), NEW j \in 0..Len(kinds) - 1
  PROVE  Append(Meant(SubSeq(kinds, 1, j)), <<kinds[j + 1], Said(kinds[j + 1])>>)
           = Meant(SubSeq(kinds, 1, j + 1))
<1>1. /\ DOMAIN SubSeq(kinds, 1, j) = 1..j /\ \A i \in 1..j : SubSeq(kinds, 1, j)[i] = kinds[i]
      /\ DOMAIN SubSeq(kinds, 1, j + 1) = 1..j + 1
      /\ \A i \in 1..j + 1 : SubSeq(kinds, 1, j + 1)[i] = kinds[i]
  OBVIOUS
<1>2. Meant(SubSeq(kinds, 1, j)) = [i \in 1..j |-> <<kinds[i], Said(kinds[i])>>]
  BY <1>1 DEF Meant
<1>3. Meant(SubSeq(kinds, 1, j + 1)) = [i \in 1..j + 1 |-> <<kinds[i], Said(kinds[i])>>]
  BY <1>1 DEF Meant
<1> DEFINE Reading == {<<kinds[i], Said(kinds[i])>> : i \in 1..j + 1}
<1>4. PICK s : s = Meant(SubSeq(kinds, 1, j))
  OBVIOUS
<1>5. PICK t : t = Meant(SubSeq(kinds, 1, j + 1))
  OBVIOUS
<1>6. PICK c : c = <<kinds[j + 1], Said(kinds[j + 1])>>
  OBVIOUS
<1>7. s \in Seq(Reading) /\ Len(s) = j /\ \A i \in 1..j : s[i] = <<kinds[i], Said(kinds[i])>>
  <2>1. s = [i \in 1..j |-> <<kinds[i], Said(kinds[i])>>]
    BY <1>2, <1>4, Zenon
  <2>2. j \in Nat /\ \A i \in 1..j : i \in 1..j + 1
    OBVIOUS
  <2>3. s \in [1..j -> Reading]
    BY <2>1, <2>2, Zenon
  <2>4. s \in Seq(Reading) /\ Len(s) = j
    BY <2>2, <2>3, FunctionIsSeq
  <2> QED BY <2>1, <2>4, Zenon
<1>8. t \in Seq(Reading) /\ Len(t) = j + 1 /\ \A i \in 1..j + 1 : t[i] = <<kinds[i], Said(kinds[i])>>
  <2>1. t \in [1..j + 1 -> Reading] /\ j + 1 \in Nat
    BY <1>3, <1>5
  <2>2. t \in Seq(Reading) /\ Len(t) = j + 1
    BY <2>1, FunctionIsSeq
  <2>3. \A i \in 1..j + 1 : t[i] = <<kinds[i], Said(kinds[i])>>
    BY <1>3, <1>5
  <2> QED BY <2>2, <2>3
<1>9. c \in Reading
  BY <1>6
<1> HIDE DEF Reading
<1>10. /\ Append(s, c) \in Seq(Reading) /\ Len(Append(s, c)) = j + 1
       /\ \A i \in 1..j : Append(s, c)[i] = s[i]
       /\ Append(s, c)[j + 1] = c
  BY <1>7, <1>9
<1>11. ASSUME NEW i \in 1..j + 1 PROVE Append(s, c)[i] = t[i]
  <2>1. CASE i = j + 1
    BY <1>6, <1>8, <1>10, <2>1
  <2>2. CASE i # j + 1
    <3>1. i \in 1..j
      BY <2>2
    <3> QED BY <1>7, <1>8, <1>10, <3>1
  <2> QED BY <2>1, <2>2
<1>12. Append(s, c) = t
  BY <1>8, <1>10, <1>11, SeqEqual
<1> QED BY <1>4, <1>5, <1>6, <1>12

\* The loop is behind the first m records, all of which it has read.
Behind(so, from, kinds, m) ==
  /\ so.read = {Meant(SubSeq(kinds, 1, m))}
  /\ Start(kinds, m) <= Len(from)
  /\ so.left = SubSeq(from, Start(kinds, m) + 1, Len(from))

Extended(read, contents) == {Append(commands, c) : commands \in read, c \in contents}

LEMMA ReadsRecord ==
  ASSUME NEW so, NEW kind, NEW n, n = RecordLength(so.left, Payload(kind)), n # 0, so.left # <<>>
  PROVE  ReadRecord(so, kind)
           = [left |-> SubSeq(so.left, n + 1, Len(so.left)),
              read |-> Extended(so.read, DecodeRecord(SubSeq(so.left, RecordHeader + 1, n)))]
BY SMT DEF ReadRecord, Extended

LEMMA ExtendedByOne ==
  ASSUME NEW x, NEW c
  PROVE  Extended({x}, {c}) = {Append(x, c)}
BY DEF Extended

LEMMA FieldsOfRecord ==
  ASSUME NEW so, NEW x, NEW y, so = [left |-> x, read |-> y]
  PROVE  so.left = x /\ so.read = y
OBVIOUS

\* A turn that refuses nothing reads the next record and stands behind it.
LEMMA TurnReads ==
  ASSUME NEW kinds \in Seq(DOMAIN RecordKind), NEW from \in Seq(Cell),
         NEW m \in 0..Len(kinds) - 1, NEW so, Behind(so, from, kinds, m), so.left # <<>>,
         RecordLength(so.left, Payload(kinds[m + 1])) # 0
  PROVE  Behind(ReadRecord(so, kinds[m + 1]), from, kinds, m + 1)
<1>0. kinds[m + 1] \in DOMAIN RecordKind
  OBVIOUS
<1>1. PICK kind \in DOMAIN RecordKind : kind = kinds[m + 1]
  BY <1>0
<1>2. PICK left : left = so.left
  OBVIOUS
<1>3. PICK a \in Nat : a = Start(kinds, m)
  BY FileParts DEF RecordAt
<1>4. PICK n : n = RecordLength(left, Payload(kind))
  OBVIOUS
<1>5. a <= Len(from) /\ left = SubSeq(from, a + 1, Len(from)) /\ so.read = {Meant(SubSeq(kinds, 1, m))}
  BY <1>2, <1>3 DEF Behind
<1>6. left \in Seq(Cell) /\ Len(left) = Len(from) - a /\ \A i \in 1..Len(left) : left[i] = from[a + i]
  BY <1>5
<1>7. /\ n = RecordHeader + Len(Payload(kind)) /\ n <= Len(left)
      /\ SubSeq(left, RecordHeader + 1, n) = Payload(kind)
  BY <1>1, <1>2, <1>4, <1>6, OnlyOwnRecord
<1>8. /\ DecodeRecord(Payload(kind)) = {<<kind, Said(kind)>>}
      /\ Len(Payload(kind)) \in 1..40
  BY RecordDecodes
<1>9. n \in Nat /\ n # 0
  <2>1. PICK p \in 1..40 : p = Len(Payload(kind))
    BY <1>8
  <2> QED BY <1>7, <2>1 DEF RecordHeader
<1>10. PICK b \in Nat : b = Start(kinds, m + 1) /\ b = a + n
  <2>1. RecordAt(kinds, m)
    BY FileParts
  <2>2. Len(JournalRecord(kind)) = n
    BY <1>7, RecordBytes DEF RecordOf
  <2> QED BY <1>1, <1>3, <2>1, <2>2 DEF RecordAt
<1>11. b <= Len(from)
  <2>1. n <= Len(from) - a
    BY <1>6, <1>7
  <2> QED BY <1>9, <1>10, <2>1
<1>12. SubSeq(left, n + 1, Len(left)) = SubSeq(from, b + 1, Len(from))
  <2> DEFINE s == SubSeq(left, n + 1, Len(left))
             t == SubSeq(from, b + 1, Len(from))
  <2>1. s \in Seq(Cell) /\ Len(s) = Len(left) - n /\ \A i \in 1..Len(left) - n : s[i] = left[n + i]
    BY <1>6, <1>7, <1>9, Remainder
  <2>2. t \in Seq(Cell) /\ Len(t) = Len(from) - b /\ \A i \in 1..Len(from) - b : t[i] = from[b + i]
    BY <1>11, Remainder
  <2> HIDE DEF s, t
  <2>3. Len(left) - n = Len(from) - b /\ Len(from) - b \in Nat
    BY <1>6, <1>9, <1>10, <1>11
  <2>4. PICK rest \in Nat : rest = Len(from) - b /\ rest = Len(left) - n
    BY <2>3
  <2>5. ASSUME NEW i \in 1..rest PROVE s[i] = t[i]
    <3>0. n + i \in 1..Len(left)
      <4>1. PICK l \in Nat : l = Len(left)
        BY <1>6
      <4>2. rest = l - n
        BY <2>4, <4>1
      <4> QED BY <1>9, <4>1, <4>2
    <3>1. n + i \in 1..Len(left) /\ a + (n + i) = b + i
      BY <1>9, <1>10, <3>0
    <3>2. s[i] = left[n + i] /\ t[i] = from[b + i]
      BY <2>1, <2>2, <2>4
    <3>3. left[n + i] = from[a + (n + i)]
      BY <1>6, <3>1
    <3> QED BY <3>1, <3>2, <3>3
  <2>6. Len(s) = rest /\ Len(t) = rest
    BY <2>1, <2>2, <2>4
  <2>7. s = t
    BY <2>1, <2>2, <2>5, <2>6, SeqEqual
  <2> QED BY <2>7 DEF s, t
<1>13. DecodeRecord(SubSeq(left, RecordHeader + 1, n)) = {<<kind, Said(kind)>>}
  BY <1>7, <1>8
<1>14. Extended(so.read, DecodeRecord(SubSeq(left, RecordHeader + 1, n)))
         = {Append(Meant(SubSeq(kinds, 1, m)), <<kind, Said(kind)>>)}
  BY <1>5, <1>13, ExtendedByOne
<1>15. ReadRecord(so, kind)
         = [left |-> SubSeq(left, n + 1, Len(left)),
            read |-> Extended(so.read, DecodeRecord(SubSeq(left, RecordHeader + 1, n)))]
  BY <1>2, <1>4, <1>9, ReadsRecord
<1>16. Append(Meant(SubSeq(kinds, 1, m)), <<kind, Said(kind)>>) = Meant(SubSeq(kinds, 1, m + 1))
  BY <1>1, MeantNext
<1>17. PICK rest, said, after : /\ rest = SubSeq(left, n + 1, Len(left))
                                /\ said = Extended(so.read, DecodeRecord(SubSeq(left, RecordHeader + 1, n)))
                                /\ after = ReadRecord(so, kind)
  OBVIOUS
<1>18. after = [left |-> rest, read |-> said]
  BY <1>15, <1>17, Zenon
<1>19. after.left = rest /\ after.read = said
  BY ONLY <1>18, FieldsOfRecord
<1>20. after.left = SubSeq(from, b + 1, Len(from))
  BY <1>12, <1>17, <1>19, Zenon
<1>21. after.read = {Meant(SubSeq(kinds, 1, m + 1))}
  BY <1>14, <1>16, <1>17, <1>19, Zenon
<1> QED BY <1>1, <1>10, <1>11, <1>17, <1>20, <1>21 DEF Behind

\* What the loop can have come to at its j-th turn, whatever the bytes are: it
\* has refused them, or it has read what they begin with, and ends there or has
\* not fallen behind.
Reached(so, from, kinds, j) ==
  \/ so.left = <<>> /\ so.read = {}
  \/ \E m \in 0..j : Behind(so, from, kinds, m) /\ (m = j \/ so.left = <<>>)

\* A turn of the loop, over any bytes.
LEMMA TurnKeeps ==
  ASSUME NEW kinds \in Seq(DOMAIN RecordKind), NEW from \in Seq(Cell),
         NEW j \in 0..Len(kinds) - 1, NEW so, Reached(so, from, kinds, j)
  PROVE  Reached(ReadRecord(so, kinds[j + 1]), from, kinds, j + 1)
<1>1. CASE so.left = <<>>
  <2>1. ReadRecord(so, kinds[j + 1]) = so
    BY <1>1 DEF ReadRecord
  <2>2. Reached(so, from, kinds, j + 1)
    BY <1>1 DEF Reached
  <2> QED BY <2>1, <2>2
<1>2. CASE so.left # <<>> /\ RecordLength(so.left, Payload(kinds[j + 1])) = 0
  <2>1. ReadRecord(so, kinds[j + 1]) = [left |-> <<>>, read |-> {}]
    BY <1>2 DEF ReadRecord, Refused
  <2> QED BY <2>1 DEF Reached
<1>3. CASE so.left # <<>> /\ RecordLength(so.left, Payload(kinds[j + 1])) # 0
  <2>1. Behind(so, from, kinds, j)
    BY <1>3 DEF Reached
  <2>2. Behind(ReadRecord(so, kinds[j + 1]), from, kinds, j + 1)
    BY <1>3, <2>1, TurnReads
  <2>3. j + 1 \in 0..j + 1
    OBVIOUS
  <2> QED BY <2>2, <2>3 DEF Reached
<1> QED BY <1>1, <1>2, <1>3

\* A turn in a file as it was written reads the record.
LEMMA TurnInOwnFile ==
  ASSUME NEW kinds \in Seq(DOMAIN RecordKind), NEW j \in 0..Len(kinds) - 1,
         NEW so, Behind(so, File(kinds), kinds, j)
  PROVE  Behind(ReadRecord(so, kinds[j + 1]), File(kinds), kinds, j + 1)
<1>0. kinds[j + 1] \in DOMAIN RecordKind
  OBVIOUS
<1>1. PICK kind \in DOMAIN RecordKind : kind = kinds[j + 1]
  BY <1>0
<1>2. PICK file \in Seq(Cell) : file = File(kinds)
  BY FileParts
<1>3. RecordAt(kinds, j)
  BY FileParts
<1>4. PICK a \in Nat, b \in Nat : a = Start(kinds, j) /\ b = Start(kinds, j + 1)
  BY <1>3 DEF RecordAt
<1>5. PICK record : record = JournalRecord(kind)
  OBVIOUS
<1>6. record \in Seq(Cell) /\ Len(record) \in Nat /\ Len(record) # 0
  <2>1. record \in Seq(Cell) /\ Len(record) = RecordHeader + Len(Payload(kind))
    BY <1>5, RecordBytes DEF RecordOf
  <2>2. PICK p \in 1..40 : p = Len(Payload(kind))
    BY RecordDecodes
  <2> QED BY <2>1, <2>2 DEF RecordHeader
<1>7. /\ b = a + Len(record) /\ b <= Len(file)
      /\ SubSeq(file, a + 1, b) = record
  BY <1>1, <1>2, <1>3, <1>4, <1>5 DEF RecordAt
<1>8. PICK left : left = so.left
  OBVIOUS
<1>9. left = SubSeq(file, a + 1, Len(file))
  BY <1>2, <1>4, <1>8 DEF Behind
<1>10. left \in Seq(Cell) /\ Len(left) = Len(file) - a /\ \A i \in 1..Len(left) : left[i] = file[a + i]
  BY <1>6, <1>7, <1>9
<1>11. Len(record) <= Len(left) /\ left # <<>>
  <2>1. Len(record) <= Len(file) - a
    BY <1>6, <1>7
  <2>2. Len(left) # 0
    BY <1>6, <1>10, <2>1
  <2> QED BY <1>10, <2>1, <2>2
<1>12. ASSUME NEW i \in 1..Len(record) PROVE left[i] = record[i]
  <2>1. i \in 1..Len(left)
    BY <1>6, <1>10, <1>11
  <2>2. SubSeq(file, a + 1, b)[i] = file[a + i]
    BY <1>6, <1>7
  <2> QED BY <1>7, <1>10, <2>1, <2>2
<1>13. RecordLength(left, Payload(kind)) = Len(record)
  BY <1>5, <1>10, <1>11, <1>12, RecordReads
<1> QED BY <1>1, <1>2, <1>6, <1>8, <1>11, <1>13, TurnReads

LEMMA FirstOf ==
  ASSUME NEW S, NEW s \in Seq(S), NEW m \in 0..Len(s)
  PROVE  /\ SubSeq(s, 1, m) \in Seq(S) /\ Len(SubSeq(s, 1, m)) = m
         /\ \A i \in 1..m : SubSeq(s, 1, m)[i] = s[i]
OBVIOUS

\* The commands of the first m records are the first m commands.
LEMMA MeantFirst ==
  ASSUME NEW S, NEW kinds \in Seq(S), NEW m \in 0..Len(kinds), NEW commands,
         commands = Meant(SubSeq(kinds, 1, m)), Len(commands) = m
  PROVE  IsPrefix(commands, Meant(kinds))
<1> DEFINE T == S \X {Said(k) : k \in S}
<1>1. Meant(kinds) \in Seq(T) /\ Len(Meant(kinds)) = Len(kinds)
      /\ \A i \in 1..Len(kinds) : Meant(kinds)[i] = <<kinds[i], Said(kinds[i])>>
  <2>1. DOMAIN kinds = 1..Len(kinds) /\ Len(kinds) \in Nat
    OBVIOUS
  <2>2. Meant(kinds) \in [1..Len(kinds) -> T]
    BY <2>1 DEF Meant
  <2> QED BY <2>1, <2>2, FunctionIsSeq DEF Meant
<1>2. PICK first \in Seq(S) : first = SubSeq(kinds, 1, m) /\ Len(first) = m
                             /\ \A i \in 1..m : first[i] = kinds[i]
  <2> DEFINE front == SubSeq(kinds, 1, m)
  <2>1. front \in Seq(S) /\ Len(front) = m /\ \A i \in 1..m : front[i] = kinds[i]
    BY FirstOf
  <2> HIDE DEF front
  <2> QED BY <2>1 DEF front
<1>3. commands \in Seq(T) /\ \A i \in 1..m : commands[i] = <<kinds[i], Said(kinds[i])>>
  <2>1. DOMAIN first = 1..m
    BY <1>2
  <2>2. Meant(first) \in [1..m -> T]
    BY <1>2, <2>1 DEF Meant
  <2> QED BY <1>2, <2>1, <2>2, FunctionIsSeq DEF Meant
<1> QED BY <1>1, <1>3 DEF IsPrefix

\* Before the first turn nothing has been read.
LEMMA AtTheFront ==
  ASSUME NEW kinds \in Seq(DOMAIN RecordKind), NEW from \in Seq(Cell),
         NEW so, so = [left |-> from, read |-> {<<>>}]
  PROVE  Behind(so, from, kinds, 0)
<1>1. so.left = from /\ so.read = {<<>>}
  BY FieldsOfRecord
<1>2. Start(kinds, 0) = 0
  BY FileParts
<1>3. PICK n \in Nat : n = Len(from)
  OBVIOUS
<1>4. SubSeq(from, 1, n) = from
  BY <1>3
<1>5. Meant(SubSeq(kinds, 1, 0)) = <<>>
  BY DEF Meant
<1> QED BY <1>1, <1>2, <1>3, <1>4, <1>5 DEF Behind

\* What decode_records makes of any bytes whatever: nothing, or the commands of
\* the records that are all there is in them.
LEMMA YieldsWhatIsThere ==
  ASSUME NEW kinds \in Seq(DOMAIN RecordKind), NEW from \in Seq(Cell),
         NEW commands \in DecodeRecords(from, kinds)
  PROVE  IsPrefix(commands, Meant(kinds)) /\ Len(from) = Start(kinds, Len(commands))
<1>1. PICK base : base = [left |-> from, read |-> {<<>>}]
  OBVIOUS
<1>2. PICK at : IsLoop(at, base, kinds)
  BY LoopRuns
<1> DEFINE Known == {j \in Nat : j \in 0..Len(kinds) => Reached(at[j], from, kinds, j)}
<1>3. 0 \in Known
  <2>1. Behind(base, from, kinds, 0)
    BY <1>1, AtTheFront
  <2> QED BY <1>2, <2>1 DEF Reached, IsLoop
<1>4. ASSUME NEW j \in Nat, j \in Known PROVE j + 1 \in Known
  <2> SUFFICES ASSUME j + 1 \in 0..Len(kinds) PROVE Reached(at[j + 1], from, kinds, j + 1)
    OBVIOUS
  <2>1. j \in 0..Len(kinds) - 1 /\ j \in 0..Len(kinds)
    OBVIOUS
  <2>2. Reached(at[j], from, kinds, j)
    BY <1>4, <2>1
  <2>3. Reached(ReadRecord(at[j], kinds[j + 1]), from, kinds, j + 1)
    BY <2>1, <2>2, TurnKeeps
  <2> QED BY <1>2, <2>1, <2>3 DEF IsLoop
<1> HIDE DEF Known
<1>5. Nat \subseteq Known
  BY <1>3, <1>4, Induction
<1>6. PICK last : last = at[Len(kinds)]
  OBVIOUS
<1>7. Reached(last, from, kinds, Len(kinds))
  BY <1>5, <1>6 DEF Known
<1>8. last.left = <<>> /\ commands \in last.read
  <2>1. last = FoldLeft(ReadRecord, [left |-> from, read |-> {<<>>}], kinds)
    BY <1>1, <1>2, <1>6 DEF IsLoop
  <2>2. DecodeRecords(from, kinds) = IF last.left = <<>> THEN last.read ELSE Refused(last).read
    BY <2>1, Zenon DEF DecodeRecords
  <2> QED BY <2>2 DEF Refused
<1>9. PICK m \in 0..Len(kinds) : Behind(last, from, kinds, m)
  BY <1>7, <1>8 DEF Reached
<1>10. PICK first \in Seq(DOMAIN RecordKind) : first = SubSeq(kinds, 1, m) /\ Len(first) = m
  BY FirstOf
<1>11. commands = Meant(first)
  BY <1>8, <1>9, <1>10 DEF Behind
<1>12. Len(commands) = m
  BY <1>10, <1>11 DEF Meant
<1>13. PICK a \in Nat : a = Start(kinds, m) /\ a <= Len(from)
  <2>1. Start(kinds, m) \in Nat
    <3>1. CASE m = Len(kinds)
      BY <3>1, FileParts
    <3>2. CASE m \in 0..Len(kinds) - 1
      BY <3>2, FileParts DEF RecordAt
    <3> QED BY <3>1, <3>2
  <2> QED BY <1>9, <2>1 DEF Behind
<1>14. Len(from) = a
  <2>1. SubSeq(from, a + 1, Len(from)) = <<>>
    BY <1>8, <1>9, <1>13 DEF Behind
  <2>2. Len(SubSeq(from, a + 1, Len(from))) = Len(from) - a
    BY <1>13, Remainder
  <2>3. PICK n \in Nat : n = Len(from)
    OBVIOUS
  <2>4. Len(<<>>) = 0
    OBVIOUS
  <2>5. n - a = 0
    BY <2>1, <2>2, <2>3, <2>4
  <2> QED BY <1>13, <2>3, <2>5
<1>15. IsPrefix(commands, Meant(kinds))
  BY <1>10, <1>11, <1>12, MeantFirst
<1> QED BY <1>12, <1>13, <1>14, <1>15

\* And what it makes of a file as it was written: everything.
LEMMA YieldsEverything ==
  ASSUME NEW kinds \in Seq(DOMAIN RecordKind)
  PROVE  DecodeRecords(File(kinds), kinds) = {Meant(kinds)}
<1>1. PICK from \in Seq(Cell) : from = File(kinds)
  BY FileParts
<1>2. PICK base : base = [left |-> from, read |-> {<<>>}]
  OBVIOUS
<1>3. PICK at : IsLoop(at, base, kinds)
  BY LoopRuns
<1> DEFINE Known == {j \in Nat : j \in 0..Len(kinds) => Behind(at[j], from, kinds, j)}
<1>4. 0 \in Known
  BY <1>2, <1>3, AtTheFront DEF IsLoop
<1>5. ASSUME NEW j \in Nat, j \in Known PROVE j + 1 \in Known
  <2> SUFFICES ASSUME j + 1 \in 0..Len(kinds) PROVE Behind(at[j + 1], from, kinds, j + 1)
    OBVIOUS
  <2>1. j \in 0..Len(kinds) - 1 /\ j \in 0..Len(kinds)
    OBVIOUS
  <2>2. Behind(at[j], File(kinds), kinds, j)
    BY <1>1, <1>5, <2>1
  <2>3. Behind(ReadRecord(at[j], kinds[j + 1]), File(kinds), kinds, j + 1)
    BY <2>1, <2>2, TurnInOwnFile
  <2> QED BY <1>1, <1>3, <2>1, <2>3 DEF IsLoop
<1> HIDE DEF Known
<1>6. Nat \subseteq Known
  BY <1>4, <1>5, Induction
<1>7. PICK last : last = at[Len(kinds)]
  OBVIOUS
<1>8. Behind(last, from, kinds, Len(kinds))
  BY <1>6, <1>7 DEF Known
<1>9. last.left = <<>>
  <2>1. Start(kinds, Len(kinds)) = Len(from)
    BY <1>1, FileParts
  <2>2. PICK n \in Nat : n = Len(from)
    OBVIOUS
  <2>3. SubSeq(from, n + 1, n) = <<>>
    BY <2>2
  <2> QED BY <1>8, <2>1, <2>2, <2>3 DEF Behind
<1>10. last.read = {Meant(kinds)}
  <2>1. SubSeq(kinds, 1, Len(kinds)) = kinds
    OBVIOUS
  <2> QED BY <1>8, <2>1 DEF Behind
<1>11. last = FoldLeft(ReadRecord, [left |-> File(kinds), read |-> {<<>>}], kinds)
  BY <1>1, <1>2, <1>3, <1>7 DEF IsLoop
<1> QED BY <1>9, <1>10, <1>11, Zenon DEF DecodeRecords

-----------------------------------------------------------------------------
(***************************************************************************)
(* The bytes on their way, for every bound on the length of a file.        *)
(***************************************************************************)
CodecInv ==
  /\ \/ carrier = "Frame" /\ written \in {<<kind>> : kind \in Kind}
        /\ (damaged <=> bytes # EncodeFrame(written[1]))
     \/ carrier = "Journal" /\ written \in Seq(DOMAIN RecordKind)
        /\ (~damaged => bytes = File(written))
  /\ bytes \in Seq(Cell)
  /\ damaged \in BOOLEAN /\ decoded \in BOOLEAN
  /\ FrameExactOrRefused /\ JournalYieldsWhatIsThere

LEMMA FilesTyped ==
  UNION {[1..n -> DOMAIN RecordKind] : n \in 0..FileLength} \subseteq Seq(DOMAIN RecordKind)
BY CodecAssumption, FunctionIsSeq DEF CodecAssumption

LEMMA InitCodec == CodecInit => CodecInv
<1> SUFFICES ASSUME CodecInit PROVE CodecInv
  OBVIOUS
<1>1. FrameExactOrRefused /\ JournalYieldsWhatIsThere /\ damaged = FALSE /\ decoded = FALSE
  BY DEF CodecInit, FrameExactOrRefused, JournalYieldsWhatIsThere
<1>2. CASE carrier = "Frame"
  <2>1. PICK kind \in Kind : written = <<kind>>
    BY <1>2 DEF CodecInit
  <2>2. bytes = EncodeFrame(kind) /\ written[1] = kind
    BY <1>2, <2>1 DEF CodecInit
  <2>3. bytes \in Seq(Cell)
    BY <2>2, FrameBytes DEF FrameOf
  <2> QED BY <1>1, <1>2, <2>1, <2>2, <2>3 DEF CodecInv
<1>3. CASE carrier = "Journal"
  <2>1. written \in Seq(DOMAIN RecordKind) /\ bytes = File(written)
    BY <1>3, FilesTyped DEF CodecInit
  <2>2. bytes \in Seq(Cell)
    BY <2>1, FileParts
  <2> QED BY <1>1, <1>3, <2>1, <2>2 DEF CodecInv
<1> QED BY <1>2, <1>3 DEF CodecInit

\* What a byte changes into is a byte.
LEMMA ForgedTyped ==
  ASSUME NEW cell \in Cell
  PROVE  Forged(cell) \subseteq Cell
<1>1. PICK name \in Name, k \in Nat : cell = <<name, k>>
  BY DEF Cell
<1>2. cell[1] = name /\ cell[2] = k
  BY <1>1
<1>3. "Byte" \in Name /\ "Noise" \in Name /\ "side" \in Name
  BY DEF Name
<1>4. Noise \in Cell /\ <<"side", 2>> \in Cell /\ \A n \in Nat : <<"Byte", n>> \in Cell
  BY <1>3 DEF Noise, Cell
<1>5. <<"Byte", cell[2] + 1>> \in Cell
  BY <1>2, <1>4
<1>6. ASSUME NEW type \in MessageType PROVE <<type, 0>> \in Cell
  <2>1. type \in Name
    BY Kinds DEF MessageType, TypeOf, Name
  <2> QED BY <2>1 DEF Cell
<1> QED BY <1>4, <1>5, <1>6 DEF Forged

\* Every change there is changes the bytes, and leaves bytes behind.
LEMMA DamageChanges ==
  ASSUME CodecInv, Damage
  PROVE  bytes' \in Seq(Cell) /\ bytes' # bytes
<1>0. bytes \in Seq(Cell)
  BY DEF CodecInv
<1>1. CASE \E i \in DOMAIN bytes : \E cell \in Forged(bytes[i]) \ {bytes[i]} :
             bytes' = [bytes EXCEPT ![i] = cell]
  <2>0. PICK i \in DOMAIN bytes : \E cell \in Forged(bytes[i]) \ {bytes[i]} :
                                     bytes' = [bytes EXCEPT ![i] = cell]
    BY <1>1
  <2>1. PICK cell \in Forged(bytes[i]) \ {bytes[i]} : bytes' = [bytes EXCEPT ![i] = cell]
    BY <2>0
  <2>2. bytes[i] \in Cell
    BY <1>0
  <2>3. cell \in Cell /\ cell # bytes[i]
    BY <2>2, ForgedTyped
  <2>4. bytes'[i] = cell
    BY <2>1
  <2> QED BY <1>0, <2>1, <2>3, <2>4
<1>2. CASE \E n \in 0..Len(bytes) - 1 : bytes' = SubSeq(bytes, 1, n)
  <2>1. PICK n \in 0..Len(bytes) - 1 : bytes' = SubSeq(bytes, 1, n)
    BY <1>2
  <2>2. PICK l \in Nat : l = Len(bytes)
    BY <1>0
  <2>3. n \in 0..Len(bytes) /\ n # l
    BY <2>2
  <2>4. bytes' \in Seq(Cell) /\ Len(bytes') = n
    BY <1>0, <2>1, <2>3, FirstOf
  <2> QED BY <2>2, <2>3, <2>4
<1>3. CASE bytes' = Append(bytes, Noise)
  <2>1. Noise \in Cell
    BY DEF Noise, Cell, Name
  <2>2. PICK l \in Nat : l = Len(bytes)
    BY <1>0
  <2>3. bytes' \in Seq(Cell) /\ Len(bytes') = l + 1
    BY <1>0, <1>3, <2>1, <2>2
  <2> QED BY <2>2, <2>3
<1> QED BY <1>1, <1>2, <1>3 DEF Damage

LEMMA DamageKeeps ==
  ASSUME CodecInv, Damage
  PROVE  CodecInv'
<1>1. /\ ~damaged /\ ~decoded /\ damaged' = TRUE /\ decoded' = decoded
      /\ carrier' = carrier /\ written' = written
  BY DEF Damage
<1>2. bytes' \in Seq(Cell) /\ bytes' # bytes
  BY DamageChanges
<1>3. FrameExactOrRefused' /\ JournalYieldsWhatIsThere'
  BY <1>1 DEF FrameExactOrRefused, JournalYieldsWhatIsThere
<1>4. CASE carrier = "Frame"
  <2>1. written \in {<<kind>> : kind \in Kind} /\ bytes = EncodeFrame(written[1])
    BY <1>1, <1>4 DEF CodecInv
  <2>2. bytes' # EncodeFrame(written'[1])
    BY <1>1, <1>2, <2>1
  <2> QED BY <1>1, <1>2, <1>3, <1>4, <2>1, <2>2 DEF CodecInv
<1>5. CASE carrier = "Journal"
  <2>1. written \in Seq(DOMAIN RecordKind)
    BY <1>5 DEF CodecInv
  <2> QED BY <1>1, <1>2, <1>3, <1>5, <2>1 DEF CodecInv
<1> QED BY <1>4, <1>5 DEF CodecInv

LEMMA DecodeKeeps ==
  ASSUME CodecInv, Decode
  PROVE  CodecInv'
<1>1. /\ ~decoded /\ decoded' = TRUE /\ bytes' = bytes /\ damaged' = damaged
      /\ carrier' = carrier /\ written' = written
  BY DEF Decode
<1>2. bytes \in Seq(Cell) /\ damaged \in BOOLEAN
  BY DEF CodecInv
<1>3. CASE carrier = "Frame"
  <2>1. PICK kind \in Kind : written = <<kind>>
    BY <1>3 DEF CodecInv
  <2>2. written[1] = kind
    BY <2>1
  <2>3. damaged <=> bytes # EncodeFrame(kind)
    BY <1>3, <2>2 DEF CodecInv
  <2>4. PICK sent : sent = EncodeFrame(kind)
    OBVIOUS
  <2>5. result' = DecodeFrame(bytes, Checksummed(sent))
    BY <1>3, <2>2, <2>4 DEF Decode
  <2>6. Meant(written)[1] = <<kind, Said(kind)>>
    BY <2>1 DEF Meant
  <2>7. ASSUME damaged PROVE FrameExactOrRefused'
    <3>1. result' = {}
      BY <1>2, <2>3, <2>4, <2>5, <2>7, OnlyOwnFrame
    <3> QED BY <1>1, <2>7, <3>1 DEF FrameExactOrRefused
  <2>8. ASSUME ~damaged PROVE FrameExactOrRefused'
    <3>1. result' = {<<Field(u64("frame_sequence")), <<kind, Said(kind)>>>>}
      BY <2>3, <2>4, <2>5, <2>8, FrameDecodes
    <3> QED BY <1>1, <2>6, <2>8, <3>1 DEF FrameExactOrRefused
  <2>9. FrameExactOrRefused'
    BY <1>2, <2>7, <2>8
  <2>10. JournalYieldsWhatIsThere'
    BY <1>1, <1>3 DEF JournalYieldsWhatIsThere
  <2> QED BY <1>1, <1>2, <1>3, <2>1, <2>2, <2>3, <2>9, <2>10 DEF CodecInv
<1>4. CASE carrier = "Journal"
  <2>1. written \in Seq(DOMAIN RecordKind) /\ (~damaged => bytes = File(written))
    BY <1>4 DEF CodecInv
  <2>2. result' = DecodeRecords(bytes, written)
    BY <1>4 DEF Decode
  <2>3. ~damaged => result' = {Meant(written)}
    BY <2>1, <2>2, YieldsEverything
  <2>4. ASSUME NEW commands \in result'
        PROVE  /\ IsPrefix(commands, Meant(written))
               /\ Len(bytes) = Len(File(SubSeq(written, 1, Len(commands))))
    BY <1>2, <2>1, <2>2, YieldsWhatIsThere DEF Start
  <2>5. JournalYieldsWhatIsThere'
    BY <1>1, <2>3, <2>4 DEF JournalYieldsWhatIsThere
  <2>6. FrameExactOrRefused'
    BY <1>1, <1>4 DEF FrameExactOrRefused
  <2> QED BY <1>1, <1>2, <1>4, <2>1, <2>5, <2>6 DEF CodecInv
<1> QED BY <1>3, <1>4 DEF CodecInv

LEMMA CodecSafe == CodecSpec => []CodecInv
<1>1. ASSUME CodecInv, UNCHANGED codecVars PROVE CodecInv'
  BY <1>1 DEF CodecInv, codecVars, FrameExactOrRefused, JournalYieldsWhatIsThere
<1>2. CodecInv /\ [CodecNext]_codecVars => CodecInv'
  BY <1>1, DamageKeeps, DecodeKeeps DEF CodecNext
<1> QED BY <1>2, InitCodec, PTL DEF CodecSpec

\* Whatever happens to the bytes of one frame, it is read as what was encoded,
\* each field of each message with its own bytes, or refused: when it has lost,
\* gained or changed a byte anywhere, in its type, its number and its length as
\* well as in its payload (encode_message, decode_message, frame_crc).
THEOREM FramesAreExact == CodecSpec => []FrameExactOrRefused
<1>1. CodecInv => FrameExactOrRefused
  BY DEF CodecInv
<1> QED BY <1>1, CodecSafe, PTL

\* A journal of any number of commands yields nothing but the commands that were
\* written, in order, and all of those whose bytes are in the file, wherever it
\* was cut or changed; a file that was left alone yields everything (append,
\* decode_records).
THEOREM JournalsAreExact == CodecSpec => []JournalYieldsWhatIsThere
<1>1. CodecInv => JournalYieldsWhatIsThere
  BY DEF CodecInv
<1> QED BY <1>1, CodecSafe, PTL
=============================================================================
