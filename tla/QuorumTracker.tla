--------------------------- MODULE QuorumTracker ----------------------------
(***************************************************************************)
(* The replication log of one leader and the tracker of its quorum         *)
(* (exchange_core/src/quorum.rs).                                          *)
(*                                                                         *)
(* The leader appends commands, replicas store them and acknowledge what   *)
(* they stored, and the tracker commits one index after another.  Nothing  *)
(* in src/ carries entries or acknowledgements yet: they may be lost,      *)
(* repeated, delayed and overtaken, and those of an older leader still     *)
(* arrive.  Of an entry the model keeps its generation and its index.      *)
(***************************************************************************)
EXTENDS Naturals, FiniteSets

CONSTANTS ClusterSize,
          Leader,       \* the generation of this log and tracker
          Old,          \* generations of earlier leaders
          MaxIndex      \* bound: entries of one log

ASSUME QuorumAssumption ==
  /\ ClusterSize \in Nat /\ ClusterSize % 2 = 1
  /\ Leader \notin Old
  /\ MaxIndex \in Nat

VARIABLES lastIndex, \* of the leader's log, ReplicationLog::next_index - 1
          committed,
          acked,     \* the replicas that acknowledged the next index
          holds      \* what each replica has ever stored, and may acknowledge

quorumVars == <<lastIndex, committed, acked, holds>>

Replica == 0..ClusterSize - 1
Entry == [generation : Old \cup {Leader}, index : 1..MaxIndex]

\* quorum
QuorumSize == ClusterSize \div 2 + 1

QuorumInit ==
  /\ lastIndex = 0
  /\ committed = 0
  /\ acked = {}
  /\ holds \in [Replica -> SUBSET {e \in Entry : e.generation \in Old}]

\* append; an append of another generation is refused.
AppendEntry ==
  /\ lastIndex < MaxIndex
  /\ lastIndex' = lastIndex + 1
  /\ UNCHANGED <<committed, acked, holds>>

\* An entry reaches a replica.
Store(r) ==
  /\ \E k \in 1..lastIndex : holds' = [holds EXCEPT ![r] = @ \cup {[generation |-> Leader, index |-> k]}]
  /\ UNCHANGED <<lastIndex, committed, acked>>

Counts(e) == e.generation = Leader /\ e.index = committed + 1

\* A slip the properties must catch: the acknowledgements of one index also count
\* for the next.
AckedAfterKeeping(replicas) == replicas

\* What the tracker remembers once an index has its quorum.
AckedAfter(replicas) == {}

\* ack; one that does not count, or counts already, is refused.
Ack(r, e) ==
  /\ e \in holds[r]
  /\ Counts(e)
  /\ r \notin acked
  /\ LET replicas == acked \cup {r}
     IN  IF Cardinality(replicas) >= QuorumSize
         THEN committed' = e.index /\ acked' = AckedAfter(replicas)
         ELSE committed' = committed /\ acked' = replicas
  /\ UNCHANGED <<lastIndex, holds>>

QuorumNext ==
  \/ AppendEntry
  \/ \E r \in Replica : Store(r)
  \/ \E r \in Replica : \E e \in holds[r] : Ack(r, e)

QuorumSpec == QuorumInit /\ [][QuorumNext]_quorumVars

-----------------------------------------------------------------------------
Holders(k) == {r \in Replica : [generation |-> Leader, index |-> k] \in holds[r]}

QuorumTypeOK ==
  /\ lastIndex \in 0..MaxIndex /\ committed \in 0..MaxIndex
  /\ acked \subseteq Replica
  /\ holds \in [Replica -> SUBSET Entry]

\* Every committed index is in the log of the leader and stored by a majority,
\* each replica for itself: neither repeated and late acknowledgements nor those
\* of an older leader nor those of another index make up for one (ack).
CommittedHeld ==
  /\ committed <= lastIndex
  /\ \A k \in 1..committed : Cardinality(Holders(k)) >= QuorumSize
=============================================================================
