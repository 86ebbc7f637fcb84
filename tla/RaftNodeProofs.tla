--------------------------- MODULE RaftNodeProofs ---------------------------
(***************************************************************************)
(* Proofs about RaftNode for every cluster RaftNode::new accepts and every *)
(* value of the bounds: type correctness, that no term has two leaders,    *)
(* that logs match and that a leader's log only grows; and, as long as no  *)
(* follower has claimed more than it was sent, that the states of the      *)
(* application agree, that what a leader commits in its term is on a       *)
(* majority, and that no node aborts.                                      *)
(***************************************************************************)
EXTENDS RaftNode, FiniteSetTheorems, SequenceTheorems, WellFoundedInduction, TLAPS

-----------------------------------------------------------------------------
(***************************************************************************)
(* The values the handlers compute have the types of their fields.         *)
(***************************************************************************)

\* What a handler may rely on in a message it reads.
LEMMA MessageFields ==
  ASSUME NEW m \in Message
  PROVE  /\ m.to \in Node /\ m.from \in Node /\ m.term \in Term
         /\ m.type = "RequestVote" => m.lastIndex \in Nat /\ m.lastTerm \in Term
         /\ m.type = "VoteResponse" => m.granted \in BOOLEAN
         /\ m.type = "AppendEntries" =>
              /\ m.prev \in Nat /\ m.prevTerm \in Term
              /\ m.entries \in Seq(Entry) /\ m.commit \in Nat
         /\ m.type = "AppendResponse" => m.success \in BOOLEAN /\ m.match \in Nat
BY DEF Message

LEMMA TermIsNat == \A t \in Term : t \in Nat
BY BoundAssumption DEF Term

LEMMA LastTermType == ASSUME NEW lg \in Seq(Entry) PROVE LastTerm(lg) \in Term
<1>1. CASE lg = <<>>
  BY <1>1, BoundAssumption DEF LastTerm, Term
<1>2. CASE lg # <<>>
  <2>1. Len(lg) \in 1..Len(lg)
    BY <1>2, EmptySeq
  <2>2. lg[Len(lg)] \in Entry
    BY <2>1, ElementOfSeq
  <2> QED BY <1>2, <2>2 DEF LastTerm, Entry
<1> QED BY <1>1, <1>2

\* A request built from a log it does not overrun is a message.
LEMMA AppendRequestType ==
  ASSUME TypeOK, NEW n \in Node, NEW p \in Node, NEW lg \in Seq(Entry),
         NEW next \in Nat \ {0}, ~RequestPanics(lg, next)
  PROVE  AppendRequest(n, p, lg, next) \in Message
<1> DEFINE r == AppendRequest(n, p, lg, next)
<1>1. r.entries \in Seq(Entry)
  <2>1. \A i \in next..Len(lg) : lg[i] \in Entry
    BY ElementOfSeq
  <2> QED BY <2>1, SubSeqProperties, LenProperties DEF AppendRequest
<1>2. r.prevTerm \in Term
  <2>1. CASE next = 1
    BY <2>1, BoundAssumption DEF AppendRequest, Term
  <2>2. CASE next # 1
    <3>1. next - 1 \in 1..Len(lg)
      BY <2>2, LenProperties DEF RequestPanics
    <3>2. lg[next - 1] \in Entry
      BY <3>1, ElementOfSeq
    <3> QED BY <2>2, <3>2 DEF AppendRequest, Entry
  <2> QED BY <2>1, <2>2
<1> QED BY <1>1, <1>2 DEF AppendRequest, Message, TypeOK

LEMMA RequestsToAllType ==
  ASSUME TypeOK, NEW n \in Node, NEW lg \in Seq(Entry),
         NEW next \in [Node -> Nat \ {0}],
         \A p \in Node \ {n} : ~RequestPanics(lg, next[p])
  PROVE  RequestsToAll(n, lg, next) \subseteq Message
BY AppendRequestType DEF RequestsToAll

\* The loop of handle_append_entries yields a log.
LEMMA MergedLogType ==
  ASSUME NEW lg \in Seq(Entry), NEW entries \in Seq(Entry),
         NEW prev \in Nat, prev <= Len(lg)
  PROVE  MergedLog(lg, prev, entries) \in Seq(Entry)
<1>1. \A i \in 1..prev : lg[i] \in Entry
  BY ElementOfSeq, LenProperties
<1>2. SubSeq(lg, 1, prev) \in Seq(Entry)
  BY <1>1, SubSeqProperties
<1> QED BY <1>2, ConcatProperties DEF MergedLog

LEMMA BecomeFollowerType ==
  ASSUME TypeOK, NEW n \in Node, NEW t \in Term, NEW l \in Node \cup {Nil},
         BecomeFollower(n, t, l)
  PROVE  /\ currentTerm'   \in [Node -> Term]
         /\ votedFor'      \in [Node -> Node \cup {Nil}]
         /\ role'          \in [Node -> Role]
         /\ leaderId'      \in [Node -> Node \cup {Nil}]
         /\ votesReceived' \in [Node -> SUBSET Node]
BY DEF TypeOK, BecomeFollower, Role

-----------------------------------------------------------------------------
(***************************************************************************)
(* Type correctness, one handler at a time.                                *)
(***************************************************************************)

LEMMA InitType == Init => TypeOK
<1> SUFFICES ASSUME Init PROVE TypeOK
  OBVIOUS
<1> USE BoundAssumption DEF Init
<1>1. \A S : <<>> \in Seq(S)
  BY EmptySeq
<1>2. /\ log \in [Node -> Seq(Entry)] /\ applied \in [Node -> Seq(Entry)]
  BY <1>1
<1>3. /\ currentTerm \in [Node -> Term] /\ role \in [Node -> Role]
      /\ commitIndex \in [Node -> Nat]
      /\ nextIndex \in [Node -> [Node -> Nat \ {0}]]
      /\ matchIndex \in [Node -> [Node -> Nat]]
  BY DEF Term, Role
<1> QED BY <1>2, <1>3 DEF TypeOK

LEMMA PanicType ==
  ASSUME TypeOK, NEW n \in Node, Panic(n) PROVE TypeOK'
BY DEF TypeOK, Panic, electionVars, leaderVars, logVars

LEMMA StartElectionType ==
  ASSUME TypeOK, NEW n \in Node, StartElection(n) PROVE TypeOK'
<1> USE DEF TypeOK, StartElection, leaderVars, logVars
<1>1. currentTerm' \in [Node -> Term]
  BY BoundAssumption DEF Term
<1>2. msgs' \subseteq Message
  <2>1. LastTerm(log[n]) \in Term /\ Len(log[n]) \in Nat
    BY LastTermType, LenProperties
  <2>2. currentTerm[n] + 1 \in Term
    BY BoundAssumption DEF Term
  <2>3. \A p \in Node : VoteRequest(n, p, currentTerm[n] + 1) \in Message
    BY <2>1, <2>2 DEF VoteRequest, Message
  <2> QED BY <2>3 DEF Send
<1> QED BY <1>1, <1>2 DEF Role

LEMMA HeartbeatType ==
  ASSUME TypeOK, NEW n \in Node, Heartbeat(n) PROVE TypeOK'
<1>1. CASE \E p \in Node \ {n} : RequestPanics(log[n], nextIndex[n][p])
  BY <1>1, PanicType DEF Heartbeat
<1>2. CASE ~ \E p \in Node \ {n} : RequestPanics(log[n], nextIndex[n][p])
  <2>1. RequestsToAll(n, log[n], nextIndex[n]) \subseteq Message
    BY <1>2, RequestsToAllType DEF TypeOK
  <2> QED BY <1>2, <2>1 DEF Heartbeat, TypeOK, Send, electionVars, leaderVars, logVars
<1> QED BY <1>1, <1>2

LEMMA ProposeType ==
  ASSUME TypeOK, NEW n \in Node, NEW c \in Command, Propose(n, c) PROVE TypeOK'
<1> DEFINE newLog == Append(log[n], [term |-> currentTerm[n], command |-> c])
<1>1. newLog \in Seq(Entry)
  BY AppendProperties DEF TypeOK, Entry
<1>2. CASE \E p \in Node \ {n} : RequestPanics(newLog, nextIndex[n][p])
  BY <1>2, PanicType DEF Propose
<1>3. CASE ~ \E p \in Node \ {n} : RequestPanics(newLog, nextIndex[n][p])
  <2>1. RequestsToAll(n, newLog, nextIndex[n]) \subseteq Message
    BY <1>1, <1>3, RequestsToAllType DEF TypeOK
  <2> QED BY <1>1, <1>3, <2>1 DEF Propose, TypeOK, Send, electionVars, leaderVars
<1> QED BY <1>2, <1>3

LEMMA TakeCommittedType ==
  ASSUME TypeOK, NEW n \in Node, TakeCommitted(n) PROVE TypeOK'
<1>1. CASE commitIndex[n] > Len(log[n])
  BY <1>1, PanicType DEF TakeCommitted
<1>2. CASE ~(commitIndex[n] > Len(log[n]))
  <2> DEFINE taken == SubSeq(log[n], Len(applied[n]) + 1, commitIndex[n])
  <2>1. /\ log[n] \in Seq(Entry) /\ applied[n] \in Seq(Entry)
        /\ Len(log[n]) \in Nat /\ Len(applied[n]) \in Nat /\ commitIndex[n] \in Nat
    BY LenProperties DEF TypeOK
  <2>2. \A i \in (Len(applied[n]) + 1)..commitIndex[n] : log[n][i] \in Entry
    BY <1>2, <2>1, ElementOfSeq
  <2>3. taken \in Seq(Entry)
    BY <2>1, <2>2, SubSeqProperties
  <2>4. applied[n] \o taken \in Seq(Entry)
    BY <2>1, <2>3, ConcatProperties
  <2> QED BY <1>2, <2>4 DEF TakeCommitted, TypeOK, electionVars, leaderVars
<1> QED BY <1>1, <1>2

LEMMA HandleRequestVoteType ==
  ASSUME TypeOK, NEW n \in Node, NEW m \in msgs, HandleRequestVote(n, m)
  PROVE  TypeOK'
<1>1. m \in Message
  BY DEF TypeOK
<1>2. m.from \in Node /\ m.term \in Term /\ currentTerm[n] \in Term
  BY <1>1, MessageFields DEF TypeOK
<1>3. \A t \in Term, granted \in BOOLEAN : VoteAnswer(n, m, t, granted) \in Message
  BY <1>2 DEF VoteAnswer, Message
<1>4. LogIsUpToDate(m, log[n]) \in BOOLEAN /\ CanVote(n, m) \in BOOLEAN
  BY DEF LogIsUpToDate, CanVote
<1>5. UNCHANGED <<leaderVars, logVars, panicked, overstated>>
  BY DEF HandleRequestVote
<1> USE DEF TypeOK, leaderVars, logVars
<1>6. CASE /\ Send({VoteAnswer(n, m, currentTerm[n], FALSE)})
           /\ UNCHANGED electionVars
  BY <1>2, <1>3, <1>5, <1>6 DEF electionVars, Send
<1>7. CASE /\ LET granted == CanVote(n, m) /\ LogIsUpToDate(m, log[n])
              IN  /\ votedFor' = [votedFor EXCEPT ![n] = IF granted THEN m.from ELSE @]
                  /\ Send({VoteAnswer(n, m, m.term, granted)})
           /\ UNCHANGED <<currentTerm, role, leaderId, votesReceived>>
  <2> DEFINE granted == CanVote(n, m) /\ LogIsUpToDate(m, log[n])
  <2>1. granted \in BOOLEAN
    BY <1>4
  <2> HIDE DEF granted
  <2>2. msgs' \subseteq Message
    BY <1>2, <1>3, <1>7, <2>1 DEF granted, Send
  <2>3. votedFor' \in [Node -> Node \cup {Nil}]
    BY <1>2, <1>7, <2>1 DEF granted
  <2> QED BY <1>5, <1>7, <2>2, <2>3
<1>8. CASE /\ LET granted == LogIsUpToDate(m, log[n])
              IN  /\ votedFor' = [votedFor EXCEPT ![n] = IF granted THEN m.from ELSE Nil]
                  /\ Send({VoteAnswer(n, m, m.term, granted)})
           /\ currentTerm'   = [currentTerm EXCEPT ![n] = m.term]
           /\ role'          = [role EXCEPT ![n] = "Follower"]
           /\ leaderId'      = [leaderId EXCEPT ![n] = Nil]
           /\ votesReceived' = [votesReceived EXCEPT ![n] = {}]
  <2>1. msgs' \subseteq Message
    BY <1>2, <1>3, <1>4, <1>8 DEF Send
  <2>2. votedFor' \in [Node -> Node \cup {Nil}]
    BY <1>2, <1>4, <1>8
  <2>3. /\ currentTerm' \in [Node -> Term] /\ role' \in [Node -> Role]
        /\ leaderId' \in [Node -> Node \cup {Nil}]
        /\ votesReceived' \in [Node -> SUBSET Node]
    BY <1>2, <1>8 DEF Role
  <2> QED BY <1>5, <2>1, <2>2, <2>3
<1> QED BY <1>6, <1>7, <1>8 DEF HandleRequestVote

LEMMA BecomeLeaderType ==
  ASSUME TypeOK, NEW n \in Node, BecomeLeader(n),
         UNCHANGED <<logVars, panicked, overstated>>
  PROVE  TypeOK'
<1> DEFINE next == [p \in Node |-> Len(log[n]) + 1]
<1>1. Len(log[n]) \in Nat
  BY LenProperties DEF TypeOK
<1>2. next \in [Node -> Nat \ {0}]
  BY <1>1
<1>3. \A p \in Node \ {n} : ~RequestPanics(log[n], next[p])
  BY <1>1 DEF RequestPanics
<1>4. RequestsToAll(n, log[n], next) \subseteq Message
  BY <1>2, <1>3, RequestsToAllType DEF TypeOK
<1>5. nextIndex' \in [Node -> [Node -> Nat \ {0}]] /\ matchIndex' \in [Node -> [Node -> Nat]]
  BY <1>1, <1>2 DEF TypeOK, BecomeLeader
<1>6. msgs' \subseteq Message
  BY <1>4 DEF TypeOK, BecomeLeader, Send
<1> QED BY <1>5, <1>6 DEF TypeOK, BecomeLeader, logVars, Role

LEMMA HandleVoteResponseType ==
  ASSUME TypeOK, NEW n \in Node, NEW m \in msgs, HandleVoteResponse(n, m)
  PROVE  TypeOK'
<1>1. m.from \in Node /\ m.term \in Term
  BY MessageFields DEF TypeOK
<1>2. UNCHANGED <<logVars, panicked, overstated>>
  BY DEF HandleVoteResponse
<1> DEFINE votes == votesReceived[n] \cup {m.from}
<1>3. CASE BecomeFollower(n, m.term, Nil) /\ UNCHANGED <<leaderVars, msgs>>
  BY <1>1, <1>2, <1>3, BecomeFollowerType DEF TypeOK, leaderVars, logVars
<1>4. CASE BecomeLeader(n)
  BY <1>2, <1>4, BecomeLeaderType
<1>5. CASE /\ votesReceived' = [votesReceived EXCEPT ![n] = votes]
           /\ UNCHANGED <<currentTerm, votedFor, role, leaderId, leaderVars, msgs>>
  BY <1>1, <1>2, <1>5 DEF TypeOK, leaderVars, logVars
<1> QED BY <1>3, <1>4, <1>5 DEF HandleVoteResponse

LEMMA FollowLeaderType ==
  ASSUME TypeOK, NEW n \in Node, NEW m \in msgs, FollowLeader(n, m)
  PROVE  /\ currentTerm'   \in [Node -> Term]
         /\ votedFor'      \in [Node -> Node \cup {Nil}]
         /\ role'          \in [Node -> Role]
         /\ leaderId'      \in [Node -> Node \cup {Nil}]
         /\ votesReceived' \in [Node -> SUBSET Node]
<1>1. m.from \in Node /\ m.term \in Term
  BY MessageFields DEF TypeOK
<1>2. CASE BecomeFollower(n, m.term, m.from)
  BY <1>1, <1>2, BecomeFollowerType
<1>3. CASE /\ leaderId' = [leaderId EXCEPT ![n] = m.from]
           /\ UNCHANGED <<currentTerm, votedFor, role, votesReceived>>
  BY <1>1, <1>3 DEF TypeOK
<1> QED BY <1>2, <1>3 DEF FollowLeader

LEMMA HandleAppendEntriesType ==
  ASSUME TypeOK, NEW n \in Node, NEW m \in msgs, HandleAppendEntries(n, m)
  PROVE  TypeOK'
<1>1. /\ m.from \in Node /\ m.term \in Term /\ m.prev \in Nat
      /\ m.entries \in Seq(Entry) /\ m.commit \in Nat
  BY MessageFields DEF TypeOK, HandleAppendEntries
<1>2. \A t \in Term, ok \in BOOLEAN, i \in Nat : AppendAnswer(n, m, t, ok, i) \in Message
  BY <1>1 DEF AppendAnswer, Message
<1>3. /\ log[n] \in Seq(Entry) /\ Len(log[n]) \in Nat /\ currentTerm[n] \in Term
      /\ UNCHANGED <<leaderVars, applied, panicked>>
  BY LenProperties DEF TypeOK, HandleAppendEntries
<1>4. CASE /\ Send({AppendAnswer(n, m, currentTerm[n], FALSE, 0)})
           /\ UNCHANGED <<electionVars, log, commitIndex, overstated>>
  BY <1>2, <1>3, <1>4 DEF TypeOK, Send, electionVars, leaderVars
<1>5. CASE /\ FollowLeader(n, m)
           /\ Send({AppendAnswer(n, m, m.term, FALSE, 0)})
           /\ UNCHANGED <<log, commitIndex, overstated>>
  BY <1>1, <1>2, <1>3, <1>5, FollowLeaderType DEF TypeOK, Send, leaderVars
<1>6. CASE /\ m.prev \in 1..Len(log[n])
           /\ FollowLeader(n, m)
           /\ log' = [log EXCEPT ![n] = SubSeq(@, 1, m.prev - 1)]
           /\ Send({AppendAnswer(n, m, m.term, FALSE, 0)})
           /\ UNCHANGED <<commitIndex, overstated>>
  <2>1. \A i \in 1..(m.prev - 1) : log[n][i] \in Entry
    BY <1>1, <1>3, <1>6, ElementOfSeq
  <2>2. SubSeq(log[n], 1, m.prev - 1) \in Seq(Entry)
    BY <1>1, <2>1, SubSeqProperties
  <2> QED BY <1>1, <1>2, <1>3, <1>6, <2>2, FollowLeaderType DEF TypeOK, Send, leaderVars
<1>7. CASE /\ m.prev <= Len(log[n])
           /\ FollowLeader(n, m)
           /\ LET newLog == MergedLog(log[n], m.prev, m.entries)
              IN  /\ log' = [log EXCEPT ![n] = newLog]
                  /\ commitIndex' = [commitIndex EXCEPT ![n] =
                                       Larger(@, Smaller(m.commit, Len(newLog)))]
                  /\ Send({AppendAnswer(n, m, m.term, TRUE, Len(newLog))})
                  /\ overstated' = (overstated \/ Len(newLog) > m.prev + Len(m.entries))
  <2> DEFINE newLog == MergedLog(log[n], m.prev, m.entries)
  <2>1. newLog \in Seq(Entry)
    BY <1>1, <1>3, <1>7, MergedLogType
  <2>2. Len(newLog) \in Nat
    BY <2>1, LenProperties
  <2>3. Larger(commitIndex[n], Smaller(m.commit, Len(newLog))) \in Nat
    BY <1>1, <2>2 DEF Larger, Smaller, TypeOK
  <2> HIDE DEF newLog
  <2>4. log' \in [Node -> Seq(Entry)] /\ commitIndex' \in [Node -> Nat]
    BY <1>7, <2>1, <2>3 DEF TypeOK, newLog
  <2>5. msgs' \subseteq Message /\ overstated' \in BOOLEAN
    BY <1>1, <1>2, <1>7, <2>2 DEF TypeOK, Send, newLog
  <2> QED BY <1>3, <1>7, <2>4, <2>5, FollowLeaderType DEF TypeOK, leaderVars
<1> QED BY <1>4, <1>5, <1>6, <1>7 DEF HandleAppendEntries

LEMMA HandleAppendResponseType ==
  ASSUME TypeOK, NEW n \in Node, NEW m \in msgs, HandleAppendResponse(n, m)
  PROVE  TypeOK'
<1>1. m.from \in Node /\ m.term \in Term /\ m.match \in Nat
  BY MessageFields DEF TypeOK, HandleAppendResponse
<1>2. UNCHANGED <<log, applied, overstated>>
  BY DEF HandleAppendResponse
<1> DEFINE match == [matchIndex[n] EXCEPT ![m.from] = m.match]
           retry == Larger(nextIndex[n][m.from] - 1, 1)
<1>3. CASE /\ BecomeFollower(n, m.term, Nil)
           /\ UNCHANGED <<leaderVars, commitIndex, panicked, msgs>>
  BY <1>1, <1>2, <1>3, BecomeFollowerType DEF TypeOK, leaderVars
<1>4. CASE /\ matchIndex' = [matchIndex EXCEPT ![n] = match]
           /\ AdvanceCommit(n, match)
           /\ nextIndex' = [nextIndex EXCEPT ![n][m.from] = m.match + 1]
           /\ UNCHANGED <<electionVars, panicked, msgs>>
  <2>1. match \in [Node -> Nat]
    BY <1>1 DEF TypeOK
  <2>2. Committable(n, match) \subseteq Nat
    BY LenProperties DEF Committable, TypeOK
  <2>3. commitIndex' \in [Node -> Nat]
    BY <1>4, <2>2 DEF AdvanceCommit, TypeOK
  <2> HIDE DEF match
  <2>4. matchIndex' \in [Node -> [Node -> Nat]]
    BY <1>4, <2>1 DEF TypeOK
  <2>5. nextIndex' \in [Node -> [Node -> Nat \ {0}]]
    <3> DEFINE i == m.match + 1
    <3>1. i \in Nat \ {0}
      BY <1>1
    <3> HIDE DEF i
    <3>2. nextIndex' = [nextIndex EXCEPT ![n] = [@ EXCEPT ![m.from] = i]]
      BY <1>4 DEF i
    <3> QED BY <1>1, <3>1, <3>2 DEF TypeOK
  <2> QED BY <1>2, <1>4, <2>3, <2>4, <2>5 DEF TypeOK, electionVars
<1>5. CASE RequestPanics(log[n], retry) /\ Panic(n)
  BY <1>5, PanicType
<1>6. CASE /\ ~RequestPanics(log[n], retry)
           /\ nextIndex' = [nextIndex EXCEPT ![n][m.from] = retry]
           /\ Send({AppendRequest(n, m.from, log[n], retry)})
           /\ UNCHANGED <<electionVars, matchIndex, commitIndex, panicked>>
  <2>1. retry \in Nat \ {0}
    BY <1>1, SMTT(20) DEF TypeOK, Larger
  <2>2. AppendRequest(n, m.from, log[n], retry) \in Message
    BY <1>1, <1>6, <2>1, AppendRequestType DEF TypeOK
  <2> HIDE DEF retry
  <2> QED BY <1>1, <1>2, <1>6, <2>1, <2>2 DEF TypeOK, Send, electionVars
<1> QED BY <1>3, <1>4, <1>5, <1>6 DEF HandleAppendResponse

\* RaftNode keeps the types of its fields and of the messages it sends: in
\* particular next_index never reaches 0, whatever the follower answers.
THEOREM TypeCorrect == Spec => []TypeOK
<1>1. TypeOK /\ [Next]_vars => TypeOK'
  <2> SUFFICES ASSUME TypeOK, [Next]_vars PROVE TypeOK'
    OBVIOUS
  <2>1. CASE UNCHANGED vars
    BY <2>1 DEF TypeOK, vars, electionVars, leaderVars, logVars
  <2>2. ASSUME NEW n \in Node \ panicked, NodeStep(n) PROVE TypeOK'
    <3>1. CASE StartElection(n)
      BY <3>1, StartElectionType
    <3>2. CASE Heartbeat(n)
      BY <3>2, HeartbeatType
    <3>3. ASSUME NEW c \in Command, Propose(n, c) PROVE TypeOK'
      BY <3>3, ProposeType
    <3>4. CASE TakeCommitted(n)
      BY <3>4, TakeCommittedType
    <3>5. ASSUME NEW m \in msgs, Receive(n, m) PROVE TypeOK'
      BY <3>5, HandleRequestVoteType, HandleVoteResponseType,
         HandleAppendEntriesType, HandleAppendResponseType DEF Receive
    <3> QED BY <2>2, <3>1, <3>2, <3>3, <3>4, <3>5 DEF NodeStep
  <2> QED BY <2>1, <2>2 DEF Next
<1> QED BY InitType, <1>1, PTL DEF Spec

-----------------------------------------------------------------------------
(***************************************************************************)
(* Election safety.  First what a step may add to the ballots and to the   *)
(* announcements of leaders.                                               *)
(***************************************************************************)

\* Two members that handle_vote_response would count as majorities share one.
LEMMA MajoritiesMeet ==
  ASSUME NEW P \in SUBSET Node, NEW Q \in SUBSET Node,
         IsMajority(P), IsMajority(Q)
  PROVE  \E v \in Node : v \in P /\ v \in Q
<1>1. /\ IsFiniteSet(P) /\ IsFiniteSet(Q)
      /\ Cardinality(P) \in Nat /\ Cardinality(Q) \in Nat /\ Cardinality(Node) \in Nat
  BY MembershipAssumption, FS_Subset, FS_CardinalityType
<1>2. Cardinality(P) + Cardinality(Q) > Cardinality(Node)
  BY <1>1 DEF IsMajority
<1>3. P \cap Q # {}
  BY <1>1, <1>2, MembershipAssumption, FS_MajoritiesIntersect
<1> QED BY <1>3

\* A node has peers to announce itself to.
LEMMA PeerExists == ASSUME NEW n \in Node PROVE \E p \in Node : p # n
<1> SUFFICES ASSUME \A p \in Node : p = n PROVE FALSE
  OBVIOUS
<1>1. Node = {n}
  OBVIOUS
<1>2. Cardinality(Node) = 1
  BY <1>1, FS_Singleton
<1> QED BY <1>2, MembershipAssumption

LEMMA BallotsOfUnion ==
  ASSUME NEW S, msgs' = msgs \cup S,
         \A m \in S : m.type # "RequestVote",
         \A m \in S : m.type = "VoteResponse" => ~m.granted
  PROVE  Ballots' = Ballots
BY DEF Ballots

LEMMA LeadsOfUnion ==
  ASSUME NEW S, msgs' = msgs \cup S,
         \A m \in S : m.type = "AppendEntries" => <<m.from, m.term>> \in Leads
  PROVE  Leads' = Leads
BY DEF Leads

\* Requests for votes are a ballot of the candidate for itself.
LEMMA CandidateBallot ==
  ASSUME NEW n \in Node, NEW t \in Term,
         msgs' = msgs \cup {VoteRequest(n, p, t) : p \in Node \ {n}}
  PROVE  Ballots' = Ballots \cup {<<n, n, t>>} /\ Leads' = Leads
<1> DEFINE S == {VoteRequest(n, p, t) : p \in Node \ {n}}
<1>1. \A m \in S : m.type = "RequestVote" /\ m.from = n /\ m.term = t
  BY DEF VoteRequest
<1>2. S # {}
  BY PeerExists
<1>3. msgs' = msgs \cup S
  OBVIOUS
<1> HIDE DEF S
<1>4. Leads' = Leads
  BY <1>1, <1>3 DEF Leads
<1>5. <<n, n, t>> \in Ballots'
  <2>1. PICK m \in S : m.type = "RequestVote" /\ m.from = n /\ m.term = t
    BY <1>1, <1>2
  <2>2. m \in msgs'
    BY <1>3
  <2> QED BY <2>1, <2>2 DEF Ballots
<1>6. Ballots \subseteq Ballots' /\ Ballots' \subseteq Ballots \cup {<<n, n, t>>}
  BY <1>1, <1>3 DEF Ballots
<1> QED BY <1>4, <1>5, <1>6

\* An answer is a ballot exactly when it grants the vote.
LEMMA AnswerBallot ==
  ASSUME NEW n \in Node, NEW m \in msgs, NEW t \in Term, NEW g \in BOOLEAN,
         msgs' = msgs \cup {VoteAnswer(n, m, t, g)}
  PROVE  /\ Leads' = Leads
         /\ g => Ballots' = Ballots \cup {<<n, m.from, t>>}
         /\ ~g => Ballots' = Ballots
<1> DEFINE r == VoteAnswer(n, m, t, g)
<1>1. /\ r.type = "VoteResponse" /\ r.from = n /\ r.to = m.from
      /\ r.term = t /\ r.granted = g
  BY DEF VoteAnswer
<1> HIDE DEF r
<1>2. msgs' = msgs \cup {r}
  BY DEF r
<1>3. Leads' = Leads
  BY <1>1, <1>2 DEF Leads
<1>4. ~g => Ballots' = Ballots
  BY <1>1, <1>2 DEF Ballots
<1>5. ASSUME g PROVE Ballots' = Ballots \cup {<<n, m.from, t>>}
  BY <1>1, <1>2, <1>5, ZenonT(40) DEF Ballots
<1> QED BY <1>3, <1>4, <1>5

\* A leader's requests announce it, and nothing else.
LEMMA RequestsAnnounce ==
  ASSUME NEW n \in Node, NEW lg, NEW next,
         msgs' = msgs \cup RequestsToAll(n, lg, next)
  PROVE  /\ Ballots' = Ballots
         /\ Leads' = Leads \cup {<<n, currentTerm[n]>>}
         /\ NoSelfMessage => NoSelfMessage'
<1>1. \A p \in Node : LET r == AppendRequest(n, p, lg, next[p])
                      IN  /\ r.type = "AppendEntries" /\ r.from = n
                          /\ r.to = p /\ r.term = currentTerm[n]
  BY DEF AppendRequest
<1>2. \A r \in RequestsToAll(n, lg, next) :
        /\ r.type = "AppendEntries" /\ r.from = n /\ r.to # n
        /\ r.term = currentTerm[n]
  BY <1>1 DEF RequestsToAll
<1>3. Ballots' = Ballots
  BY <1>2, BallotsOfUnion
<1>4. <<n, currentTerm[n]>> \in Leads'
  <2>1. PICK p \in Node : p # n
    BY PeerExists
  <2>2. AppendRequest(n, p, lg, next[p]) \in msgs'
    BY <2>1 DEF RequestsToAll
  <2> QED BY <1>1, <2>2 DEF Leads
<1>5. Leads \subseteq Leads' /\ Leads' \subseteq Leads \cup {<<n, currentTerm[n]>>}
  BY <1>2 DEF Leads
<1>6. NoSelfMessage => NoSelfMessage'
  BY <1>2 DEF NoSelfMessage
<1> QED BY <1>3, <1>4, <1>5, <1>6

-----------------------------------------------------------------------------
(***************************************************************************)
(* The four things a step can do to the votes of a term.                   *)
(***************************************************************************)

\* Two leaders of one term would be bound to the same voter.
LEMMA OneLeader ==
  ASSUME LeadersElected, NEW a \in Node, NEW b \in Node, NEW t \in Term,
         <<a, t>> \in Leads, <<b, t>> \in Leads
  PROVE  a = b
<1>1. PICK P \in SUBSET Node : IsMajority(P) /\ \A v \in P : Bound(v, a, t)
  BY DEF LeadersElected
<1>2. PICK Q \in SUBSET Node : IsMajority(Q) /\ \A v \in Q : Bound(v, b, t)
  BY DEF LeadersElected
<1>3. PICK v \in Node : v \in P /\ v \in Q
  BY <1>1, <1>2, MajoritiesMeet
<1> QED BY <1>1, <1>2, <1>3 DEF Bound

VotesKept == OneOpenBallot /\ BallotStands /\ LeadersElected

LEMMA VotesUntouched ==
  ASSUME VotesKept, UNCHANGED <<currentTerm, votedFor>>,
         Ballots' = Ballots, Leads' = Leads
  PROVE  VotesKept'
BY DEF VotesKept, OneOpenBallot, BallotStands, LeadersElected, Bound, Announced

\* n enters a later term and gives no ballot in it (yet).
LEMMA VotesMoveOn ==
  ASSUME TypeOK, VotesKept, NEW n \in Node, NEW t \in Term, t > currentTerm[n],
         currentTerm' = [currentTerm EXCEPT ![n] = t],
         votedFor' = [votedFor EXCEPT ![n] = Nil],
         Ballots' = Ballots, Leads' = Leads
  PROVE  VotesKept'
<1> USE TermIsNat DEF VotesKept
<1>1. /\ currentTerm \in [Node -> Term] /\ votedFor \in [Node -> Node \cup {Nil}]
      /\ t \in Nat /\ currentTerm[n] \in Nat
  BY DEF TypeOK
<1>2. \A c \in Node, u \in Term : <<n, c, u>> \in Ballots => u < t
  BY <1>1 DEF BallotStands
<1>3. OneOpenBallot'
  BY DEF OneOpenBallot, Announced
<1>4. BallotStands'
  <2>1. \A u \in Term : Announced(u)' <=> Announced(u)
    BY DEF Announced
  <2>2. /\ currentTerm'[n] = t
        /\ \A v \in Node \ {n} : currentTerm'[v] = currentTerm[v] /\ votedFor'[v] = votedFor[v]
    BY <1>1
  <2> QED BY <1>1, <1>2, <2>1, <2>2 DEF BallotStands
<1>5. LeadersElected'
  <2>1. ASSUME NEW l \in Node, NEW u \in Term, NEW v \in Node, Bound(v, l, u)
        PROVE  Bound(v, l, u)'
    BY <1>1, <1>2, <2>1 DEF Bound
  <2> QED BY <2>1 DEF LeadersElected, IsMajority
<1> QED BY <1>3, <1>4, <1>5

\* n gives a ballot to c, in a later term or where its vote allows it.
LEMMA VotesCast ==
  ASSUME TypeOK, VotesKept, NEW n \in Node, NEW c \in Node, NEW t \in Term,
         \/ t > currentTerm[n]
         \/ t = currentTerm[n] /\ votedFor[n] \in {Nil, c},
         currentTerm' = [currentTerm EXCEPT ![n] = t],
         votedFor' = [votedFor EXCEPT ![n] = c],
         Ballots' = Ballots \cup {<<n, c, t>>}, Leads' = Leads
  PROVE  VotesKept'
<1> USE TermIsNat DEF VotesKept
<1>1. /\ currentTerm \in [Node -> Term] /\ votedFor \in [Node -> Node \cup {Nil}]
      /\ Nil \notin Node /\ t \in Nat /\ currentTerm[n] \in Nat
  BY MembershipAssumption DEF TypeOK
<1>2. /\ currentTerm'[n] = t /\ votedFor'[n] = c
      /\ \A v \in Node \ {n} : currentTerm'[v] = currentTerm[v] /\ votedFor'[v] = votedFor[v]
  BY <1>1
<1>3. \A v, d \in Node, u \in Term :
        <<v, d, u>> \in Ballots' <=> \/ <<v, d, u>> \in Ballots
                                     \/ v = n /\ d = c /\ u = t
  OBVIOUS
<1>4. \A u \in Term : Announced(u)' <=> Announced(u)
  BY DEF Announced
<1>5. \A d \in Node, u \in Term : <<n, d, u>> \in Ballots => u <= t
  BY <1>1 DEF BallotStands
<1>6. \A d \in Node : <<n, d, t>> \in Ballots => t = currentTerm[n]
  BY <1>1 DEF BallotStands
<1>7. \A d \in Node : <<n, d, t>> \in Ballots /\ ~Announced(t) => d = c
  BY <1>1, <1>6 DEF BallotStands
<1>8. OneOpenBallot'
  BY <1>3, <1>4, <1>7 DEF OneOpenBallot
<1>9. BallotStands'
  BY <1>1, <1>2, <1>3, <1>4, <1>5, <1>7 DEF BallotStands
<1>10. LeadersElected'
  <2>1. ASSUME NEW l \in Node, NEW u \in Term, NEW v \in Node, Bound(v, l, u)
        PROVE  Bound(v, l, u)'
    <3>1. v = n /\ u = t => l = c
      BY <1>1, <1>6, <2>1 DEF Bound
    <3>2. v = n => (currentTerm'[v] = u => votedFor'[v] = l)
      BY <1>2, <3>1
    <3> QED BY <1>2, <1>3, <2>1, <3>1, <3>2 DEF Bound
  <2> QED BY <2>1 DEF LeadersElected, IsMajority
<1> QED BY <1>8, <1>9, <1>10

\* A candidate whose term has another leader forgets its vote.
LEMMA VoteForgotten ==
  ASSUME TypeOK, VotesKept, NEW n \in Node, NEW l \in Node, l # n,
         <<l, currentTerm[n]>> \in Leads, votedFor[n] = n,
         currentTerm' = currentTerm, votedFor' = [votedFor EXCEPT ![n] = Nil],
         Ballots' = Ballots, Leads' = Leads
  PROVE  VotesKept'
<1> USE DEF VotesKept
<1>1. /\ currentTerm \in [Node -> Term] /\ votedFor \in [Node -> Node \cup {Nil}]
  BY DEF TypeOK
<1>2. Announced(currentTerm[n])
  BY DEF Announced
<1>3. OneOpenBallot'
  BY DEF OneOpenBallot, Announced
<1>4. BallotStands'
  BY <1>1, <1>2 DEF BallotStands, Announced
<1>5. LeadersElected'
  <2>1. ASSUME NEW k \in Node, NEW u \in Term, NEW v \in Node,
               <<k, u>> \in Leads, Bound(v, k, u)
        PROVE  Bound(v, k, u)'
    <3>1. CASE v = n /\ u = currentTerm[n]
      <4>1. k = n
        BY <2>1, <3>1 DEF Bound
      <4>2. k = l
        BY <1>1, <2>1, <3>1, OneLeader
      <4> QED BY <4>1, <4>2
    <3>2. CASE ~(v = n /\ u = currentTerm[n])
      BY <1>1, <2>1, <3>2 DEF Bound
    <3> QED BY <3>1, <3>2
  <2> QED BY <2>1 DEF LeadersElected, IsMajority
<1> QED BY <1>3, <1>4, <1>5

\* A node with a majority of the ballots of its term announces itself.
LEMMA VotesElect ==
  ASSUME TypeOK, VotesKept, NEW n \in Node, NEW Q \in SUBSET Node, IsMajority(Q),
         \A v \in Q : <<v, n, currentTerm[n]>> \in Ballots,
         UNCHANGED <<currentTerm, votedFor>>,
         Ballots' = Ballots, Leads' = Leads \cup {<<n, currentTerm[n]>>}
  PROVE  VotesKept'
<1> USE DEF VotesKept
<1> DEFINE t == currentTerm[n]
<1>1. t \in Term
  BY DEF TypeOK
<1>2. \A u \in Term : Announced(u) => Announced(u)'
  BY DEF Announced
<1>3. \A v \in Node, k \in Node, u \in Term : Bound(v, k, u) => Bound(v, k, u)'
  BY DEF Bound
<1>4. \E P \in SUBSET Node : IsMajority(P) /\ \A v \in P : Bound(v, n, t)
  <2>1. CASE Announced(t)
    <3>1. PICK l \in Node : <<l, t>> \in Leads
      BY <2>1 DEF Announced
    <3>2. PICK P \in SUBSET Node : IsMajority(P) /\ \A v \in P : Bound(v, l, t)
      BY <1>1, <3>1 DEF LeadersElected
    <3>3. PICK v \in Node : v \in P /\ v \in Q
      BY <3>2, MajoritiesMeet
    <3>4. l = n
      BY <3>2, <3>3 DEF Bound
    <3> QED BY <3>2, <3>4
  <2>2. CASE ~Announced(t)
    <3>1. \A v \in Q : Bound(v, n, t)
      BY <1>1, <2>2 DEF Bound, OneOpenBallot, BallotStands
    <3> QED BY <3>1
  <2> QED BY <2>1, <2>2
<1>5. OneOpenBallot' /\ BallotStands'
  BY <1>2 DEF OneOpenBallot, BallotStands
<1>6. LeadersElected'
  <2> SUFFICES ASSUME NEW l \in Node, NEW u \in Term, <<l, u>> \in Leads'
               PROVE  \E P \in SUBSET Node : IsMajority(P) /\ \A v \in P : Bound(v, l, u)'
    BY DEF LeadersElected, IsMajority
  <2>1. \E P \in SUBSET Node : IsMajority(P) /\ \A v \in P : Bound(v, l, u)
    BY <1>4 DEF LeadersElected
  <2> QED BY <1>3, <2>1
<1> QED BY <1>5, <1>6

-----------------------------------------------------------------------------
(***************************************************************************)
(* The inductive step, one handler at a time.                              *)
(***************************************************************************)

\* Only n changes its role, its vote or its term.
LEMMA RolesOfOthers ==
  ASSUME TypeOK, ElectionInv, NEW n \in Node, RoleEarned(n)',
         \A p \in Node \ {n} : /\ currentTerm'[p] = currentTerm[p]
                               /\ votedFor'[p] = votedFor[p]
                               /\ role'[p] = role[p]
                               /\ votesReceived'[p] = votesReceived[p],
         Ballots \subseteq Ballots', Leads \subseteq Leads'
  PROVE  \A p \in Node : RoleEarned(p)'
<1> SUFFICES ASSUME NEW p \in Node \ {n} PROVE RoleEarned(p)'
  OBVIOUS
<1>1. RoleEarned(p)
  BY DEF ElectionInv
<1> QED BY <1>1 DEF RoleEarned

LEMMA ElectionQuiet ==
  ASSUME TypeOK, ElectionInv, UNCHANGED <<currentTerm, votedFor, role, votesReceived>>,
         Ballots' = Ballots, Leads' = Leads, NoSelfMessage'
  PROVE  ElectionInv'
<1>1. VotesKept'
  BY VotesUntouched DEF ElectionInv, VotesKept
<1>2. \A p \in Node : RoleEarned(p)'
  BY DEF ElectionInv, RoleEarned
<1> QED BY <1>1, <1>2 DEF ElectionInv, VotesKept

LEMMA ElectionPanic ==
  ASSUME TypeOK, ElectionInv, NEW n \in Node, Panic(n) PROVE ElectionInv'
<1>1. UNCHANGED <<currentTerm, votedFor, role, votesReceived, msgs>>
  BY DEF Panic, electionVars
<1> QED BY <1>1, ElectionQuiet DEF Ballots, Leads, NoSelfMessage, ElectionInv

\* A leader that sends requests has announced itself before.
LEMMA ElectionRequests ==
  ASSUME TypeOK, ElectionInv, NEW n \in Node, role[n] = "Leader", NEW lg, NEW next,
         Send(RequestsToAll(n, lg, next)), UNCHANGED electionVars
  PROVE  ElectionInv'
<1>1. <<n, currentTerm[n]>> \in Leads
  BY DEF ElectionInv, RoleEarned
<1>2. Ballots' = Ballots /\ Leads' = Leads /\ NoSelfMessage'
  BY <1>1, RequestsAnnounce DEF Send, ElectionInv
<1> QED BY <1>2, ElectionQuiet DEF electionVars

LEMMA ElectionStepDown ==
  ASSUME TypeOK, ElectionInv, NEW n \in Node, NEW t \in Term, NEW l,
         t > currentTerm[n], BecomeFollower(n, t, l),
         Ballots' = Ballots, Leads' = Leads, NoSelfMessage'
  PROVE  ElectionInv'
<1>1. VotesKept'
  BY VotesMoveOn DEF ElectionInv, VotesKept, BecomeFollower
<1>2. RoleEarned(n)'
  BY DEF BecomeFollower, RoleEarned, TypeOK
<1>3. \A p \in Node : RoleEarned(p)'
  BY <1>2, RolesOfOthers DEF BecomeFollower, TypeOK
<1> QED BY <1>1, <1>3 DEF ElectionInv, VotesKept

LEMMA ElectionStartElection ==
  ASSUME TypeOK, ElectionInv, NEW n \in Node, StartElection(n) PROVE ElectionInv'
<1> DEFINE t == currentTerm[n] + 1
<1>1. t \in Term /\ t > currentTerm[n]
  BY BoundAssumption DEF StartElection, TypeOK, Term
<1>2. msgs' = msgs \cup {VoteRequest(n, p, t) : p \in Node \ {n}}
  BY DEF StartElection, Send
<1>3. /\ currentTerm' = [currentTerm EXCEPT ![n] = t]
      /\ role' = [role EXCEPT ![n] = "Candidate"]
      /\ votedFor' = [votedFor EXCEPT ![n] = n]
      /\ votesReceived' = [votesReceived EXCEPT ![n] = {n}]
  BY DEF StartElection
<1> HIDE DEF t
<1>4. Ballots' = Ballots \cup {<<n, n, t>>} /\ Leads' = Leads
  BY <1>1, <1>2, CandidateBallot
<1>5. VotesKept'
  BY <1>1, <1>3, <1>4, VotesCast DEF ElectionInv, VotesKept
<1>6. RoleEarned(n)'
  BY <1>3, <1>4 DEF RoleEarned, TypeOK
<1>7. \A p \in Node : RoleEarned(p)'
  BY <1>3, <1>4, <1>6, RolesOfOthers DEF TypeOK
<1>8. NoSelfMessage'
  BY <1>2 DEF NoSelfMessage, ElectionInv, VoteRequest
<1> QED BY <1>5, <1>7, <1>8 DEF ElectionInv, VotesKept

LEMMA ElectionHeartbeat ==
  ASSUME TypeOK, ElectionInv, NEW n \in Node, Heartbeat(n) PROVE ElectionInv'
BY ElectionPanic, ElectionRequests DEF Heartbeat

LEMMA ElectionPropose ==
  ASSUME TypeOK, ElectionInv, NEW n \in Node, NEW c \in Command, Propose(n, c)
  PROVE  ElectionInv'
BY ElectionPanic, ElectionRequests DEF Propose

LEMMA ElectionTakeCommitted ==
  ASSUME TypeOK, ElectionInv, NEW n \in Node, TakeCommitted(n) PROVE ElectionInv'
<1>1. UNCHANGED <<electionVars, msgs>>
  BY DEF TakeCommitted, Panic
<1> QED BY <1>1, ElectionQuiet DEF electionVars, Ballots, Leads, NoSelfMessage, ElectionInv

LEMMA ElectionHandleRequestVote ==
  ASSUME TypeOK, ElectionInv, NEW n \in Node, NEW m \in msgs, m.to = n,
         HandleRequestVote(n, m)
  PROVE  ElectionInv'
<1>1. m.from \in Node /\ m.term \in Term /\ m.from # n /\ currentTerm[n] \in Term
  BY MessageFields DEF TypeOK, ElectionInv, NoSelfMessage
<1>2. ASSUME NEW t, NEW g, Send({VoteAnswer(n, m, t, g)}) PROVE NoSelfMessage'
  BY <1>1, <1>2 DEF NoSelfMessage, ElectionInv, VoteAnswer, Send
<1> USE TermIsNat
<1>3. CASE /\ Send({VoteAnswer(n, m, currentTerm[n], FALSE)})
           /\ UNCHANGED electionVars
  <2>1. Ballots' = Ballots /\ Leads' = Leads
    BY <1>1, <1>3, AnswerBallot DEF Send
  <2> QED BY <1>2, <1>3, <2>1, ElectionQuiet DEF electionVars
<1>4. CASE /\ m.term = currentTerm[n]
           /\ LET granted == CanVote(n, m) /\ LogIsUpToDate(m, log[n])
              IN  /\ votedFor' = [votedFor EXCEPT ![n] = IF granted THEN m.from ELSE @]
                  /\ Send({VoteAnswer(n, m, m.term, granted)})
           /\ UNCHANGED <<currentTerm, role, leaderId, votesReceived>>
  <2> DEFINE granted == CanVote(n, m) /\ LogIsUpToDate(m, log[n])
  <2>1. granted \in BOOLEAN
    BY DEF CanVote, LogIsUpToDate
  <2>2. granted => votedFor[n] \in {Nil, m.from}
    BY DEF CanVote
  <2>3. /\ votedFor' = [votedFor EXCEPT ![n] = IF granted THEN m.from ELSE @]
        /\ Send({VoteAnswer(n, m, m.term, granted)})
    BY <1>4
  <2> HIDE DEF granted
  <2>4. /\ Leads' = Leads
        /\ granted => Ballots' = Ballots \cup {<<n, m.from, m.term>>}
        /\ ~granted => Ballots' = Ballots
    BY <1>1, <2>1, <2>3, AnswerBallot DEF Send
  <2>5. NoSelfMessage'
    BY <1>2, <2>3
  <2>6. CASE ~granted
    <3>1. votedFor' = votedFor
      BY <2>3, <2>6 DEF TypeOK
    <3> QED BY <1>4, <2>4, <2>5, <2>6, <3>1, ElectionQuiet
  <2>7. CASE granted
    <3>1. /\ votedFor' = [votedFor EXCEPT ![n] = m.from]
          /\ currentTerm' = [currentTerm EXCEPT ![n] = m.term]
      <4>1. currentTerm' = currentTerm /\ m.term = currentTerm[n]
        BY <1>4
      <4>2. currentTerm \in [Node -> Term]
        BY DEF TypeOK
      <4>3. currentTerm = [currentTerm EXCEPT ![n] = currentTerm[n]]
        BY <4>2
      <4> QED BY <2>3, <2>7, <4>1, <4>3
    <3>2. VotesKept'
      <4>1. m.term = currentTerm[n] /\ votedFor[n] \in {Nil, m.from}
        BY <1>4, <2>2, <2>7
      <4>2. Ballots' = Ballots \cup {<<n, m.from, m.term>>} /\ Leads' = Leads
        BY <2>4, <2>7
      <4> QED BY <1>1, <3>1, <4>1, <4>2, VotesCast DEF ElectionInv, VotesKept
    <3>3. RoleEarned(n)'
      <4>1. RoleEarned(n)
        BY DEF ElectionInv
      <4>2. role[n] # "Follower" => votedFor[n] = n
        BY <4>1 DEF RoleEarned
      <4>3. role[n] = "Follower"
        BY <1>1, <2>2, <2>7, <4>2, MembershipAssumption
      <4> QED BY <1>4, <4>3 DEF RoleEarned
    <3>4. \A p \in Node : RoleEarned(p)'
      BY <1>4, <2>4, <2>7, <3>1, <3>3, RolesOfOthers DEF TypeOK
    <3> QED BY <2>5, <3>2, <3>4 DEF ElectionInv, VotesKept
  <2> QED BY <2>6, <2>7
<1>5. CASE /\ m.term > currentTerm[n]
           /\ LET granted == LogIsUpToDate(m, log[n])
              IN  /\ votedFor' = [votedFor EXCEPT ![n] = IF granted THEN m.from ELSE Nil]
                  /\ Send({VoteAnswer(n, m, m.term, granted)})
           /\ currentTerm'   = [currentTerm EXCEPT ![n] = m.term]
           /\ role'          = [role EXCEPT ![n] = "Follower"]
           /\ leaderId'      = [leaderId EXCEPT ![n] = Nil]
           /\ votesReceived' = [votesReceived EXCEPT ![n] = {}]
  <2> DEFINE granted == LogIsUpToDate(m, log[n])
  <2>1. granted \in BOOLEAN
    BY DEF LogIsUpToDate
  <2>2. /\ votedFor' = [votedFor EXCEPT ![n] = IF granted THEN m.from ELSE Nil]
        /\ Send({VoteAnswer(n, m, m.term, granted)})
    BY <1>5
  <2> HIDE DEF granted
  <2>3. /\ Leads' = Leads
        /\ granted => Ballots' = Ballots \cup {<<n, m.from, m.term>>}
        /\ ~granted => Ballots' = Ballots
    BY <1>1, <2>1, <2>2, AnswerBallot DEF Send
  <2>4. VotesKept'
    <3>1. CASE granted
      <4>1. votedFor' = [votedFor EXCEPT ![n] = m.from]
        BY <2>2, <3>1
      <4>2. Ballots' = Ballots \cup {<<n, m.from, m.term>>} /\ Leads' = Leads
        BY <2>3, <3>1
      <4>3. currentTerm' = [currentTerm EXCEPT ![n] = m.term] /\ m.term > currentTerm[n]
        BY <1>5
      <4> QED BY <1>1, <4>1, <4>2, <4>3, VotesCast DEF ElectionInv, VotesKept
    <3>2. CASE ~granted
      <4>1. votedFor' = [votedFor EXCEPT ![n] = Nil]
        BY <2>2, <3>2
      <4>2. Ballots' = Ballots /\ Leads' = Leads
        BY <2>3, <3>2
      <4>3. currentTerm' = [currentTerm EXCEPT ![n] = m.term] /\ m.term > currentTerm[n]
        BY <1>5
      <4> QED BY <1>1, <4>1, <4>2, <4>3, VotesMoveOn DEF ElectionInv, VotesKept
    <3> QED BY <3>1, <3>2
  <2>5. RoleEarned(n)'
    BY <1>5 DEF RoleEarned, TypeOK
  <2>6. \A p \in Node : RoleEarned(p)'
    BY <1>5, <2>1, <2>2, <2>3, <2>5, RolesOfOthers DEF TypeOK
  <2> QED BY <1>2, <2>2, <2>4, <2>6 DEF ElectionInv, VotesKept
<1> QED BY <1>3, <1>4, <1>5 DEF HandleRequestVote

LEMMA ElectionHandleVoteResponse ==
  ASSUME TypeOK, ElectionInv, NEW n \in Node, NEW m \in msgs, m.to = n,
         HandleVoteResponse(n, m)
  PROVE  ElectionInv'
<1>1. m.from \in Node /\ m.term \in Term /\ currentTerm[n] \in Term
  BY MessageFields DEF TypeOK
<1> DEFINE votes == votesReceived[n] \cup {m.from}
<1>2. CASE /\ m.term > currentTerm[n]
           /\ BecomeFollower(n, m.term, Nil)
           /\ UNCHANGED msgs
  BY <1>1, <1>2, ElectionStepDown DEF Ballots, Leads, NoSelfMessage, ElectionInv
<1>3. CASE /\ m.term = currentTerm[n]
           /\ role[n] = "Candidate"
           /\ m.granted
           /\ IF IsMajority(votes)
              THEN BecomeLeader(n)
              ELSE /\ votesReceived' = [votesReceived EXCEPT ![n] = votes]
                   /\ UNCHANGED <<currentTerm, votedFor, role, leaderId, msgs>>
  <2>1. <<m.from, n, currentTerm[n]>> \in Ballots
    BY <1>3 DEF Ballots, HandleVoteResponse
  <2>2. RoleEarned(n)
    BY DEF ElectionInv
  <2>3. votes \in SUBSET Node /\ \A v \in votes : <<v, n, currentTerm[n]>> \in Ballots
    BY <1>1, <1>3, <2>1, <2>2 DEF RoleEarned, TypeOK
  <2> HIDE DEF votes
  <2>4. CASE IsMajority(votes)
    <3> DEFINE next == [p \in Node |-> Len(log[n]) + 1]
    <3>1. BecomeLeader(n)
      BY <1>3, <2>4
    <3>2. /\ msgs' = msgs \cup RequestsToAll(n, log[n], next)
          /\ UNCHANGED <<currentTerm, votedFor>>
          /\ role' = [role EXCEPT ![n] = "Leader"]
          /\ votesReceived' = [votesReceived EXCEPT ![n] = {}]
      BY <3>1 DEF BecomeLeader, Send
    <3> HIDE DEF next
    <3>3. /\ Ballots' = Ballots
          /\ Leads' = Leads \cup {<<n, currentTerm[n]>>}
          /\ NoSelfMessage'
      BY <3>2, RequestsAnnounce DEF ElectionInv
    <3>4. VotesKept'
      BY <2>3, <2>4, <3>2, <3>3, VotesElect DEF ElectionInv, VotesKept
    <3>5. RoleEarned(n)'
      BY <1>3, <2>2, <3>2, <3>3 DEF RoleEarned, TypeOK
    <3>6. \A p \in Node : RoleEarned(p)'
      BY <3>2, <3>3, <3>5, RolesOfOthers DEF TypeOK
    <3> QED BY <3>3, <3>4, <3>6 DEF ElectionInv, VotesKept
  <2>5. CASE ~IsMajority(votes)
    <3>1. /\ votesReceived' = [votesReceived EXCEPT ![n] = votes]
          /\ UNCHANGED <<currentTerm, votedFor, role, msgs>>
      BY <1>3, <2>5
    <3>2. Ballots' = Ballots /\ Leads' = Leads /\ NoSelfMessage'
      BY <3>1 DEF Ballots, Leads, NoSelfMessage, ElectionInv
    <3>3. VotesKept'
      BY <3>1, <3>2, VotesUntouched DEF ElectionInv, VotesKept
    <3>4. RoleEarned(n)'
      BY <1>3, <2>2, <2>3, <3>1, <3>2 DEF RoleEarned, TypeOK
    <3>5. \A p \in Node : RoleEarned(p)'
      BY <3>1, <3>2, <3>4, RolesOfOthers DEF TypeOK
    <3> QED BY <3>2, <3>3, <3>5 DEF ElectionInv, VotesKept
  <2> QED BY <2>4, <2>5
<1> QED BY <1>2, <1>3 DEF HandleVoteResponse

\* A node that hears of a leader is not one itself: it was a follower or has
\* lost its candidature.
LEMMA ElectionFollowLeader ==
  ASSUME TypeOK, ElectionInv, NEW n \in Node, NEW m \in msgs, m.to = n,
         m.type = "AppendEntries", m.term >= currentTerm[n], FollowLeader(n, m),
         Ballots' = Ballots, Leads' = Leads, NoSelfMessage'
  PROVE  ElectionInv'
<1>1. /\ m.from \in Node /\ m.term \in Term /\ m.from # n
      /\ currentTerm[n] \in Term /\ RoleEarned(n)
  BY MessageFields DEF TypeOK, ElectionInv, NoSelfMessage
<1>2. CASE m.term > currentTerm[n]
  BY <1>1, <1>2, ElectionStepDown DEF FollowLeader
<1>3. CASE m.term = currentTerm[n] /\ role[n] = "Follower"
  <2>1. UNCHANGED <<currentTerm, votedFor, role, votesReceived>>
    BY <1>1, <1>3, TermIsNat DEF FollowLeader
  <2> QED BY <2>1, ElectionQuiet
<1>4. CASE m.term = currentTerm[n] /\ role[n] # "Follower"
  <2>1. <<m.from, currentTerm[n]>> \in Leads
    BY <1>4 DEF Leads
  <2>2. BecomeFollower(n, currentTerm[n], m.from)
    BY <1>4 DEF FollowLeader
  <2>3. votedFor[n] = n
    BY <1>1, <1>4 DEF RoleEarned
  <2>4. currentTerm' = currentTerm /\ votedFor' = [votedFor EXCEPT ![n] = Nil]
    BY <2>2 DEF BecomeFollower, TypeOK
  <2>5. VotesKept'
    BY <1>1, <2>1, <2>3, <2>4, VoteForgotten DEF ElectionInv, VotesKept
  <2>6. RoleEarned(n)'
    BY <2>2 DEF BecomeFollower, RoleEarned, TypeOK
  <2>7. \A p \in Node : RoleEarned(p)'
    BY <2>2, <2>6, RolesOfOthers DEF BecomeFollower, TypeOK
  <2> QED BY <2>5, <2>7 DEF ElectionInv, VotesKept
<1> QED BY <1>1, <1>2, <1>3, <1>4, TermIsNat

LEMMA ElectionHandleAppendEntries ==
  ASSUME TypeOK, ElectionInv, NEW n \in Node, NEW m \in msgs, m.to = n,
         HandleAppendEntries(n, m)
  PROVE  ElectionInv'
<1>1. m.from # n /\ m.type = "AppendEntries"
  BY DEF ElectionInv, NoSelfMessage, HandleAppendEntries
<1>2. ASSUME NEW t, NEW ok, NEW i, Send({AppendAnswer(n, m, t, ok, i)})
      PROVE  Ballots' = Ballots /\ Leads' = Leads /\ NoSelfMessage'
  <2> DEFINE r == AppendAnswer(n, m, t, ok, i)
  <2>1. r.type = "AppendResponse" /\ r.from = n /\ r.to = m.from
    BY DEF AppendAnswer
  <2> HIDE DEF r
  <2>2. msgs' = msgs \cup {r}
    BY <1>2 DEF Send, r
  <2> QED BY <1>1, <2>1, <2>2 DEF Ballots, Leads, NoSelfMessage, ElectionInv
<1>3. CASE UNCHANGED electionVars
  <2>1. Ballots' = Ballots /\ Leads' = Leads /\ NoSelfMessage'
    BY <1>2 DEF HandleAppendEntries
  <2> QED BY <1>3, <2>1, ElectionQuiet DEF electionVars
<1>4. CASE m.term >= currentTerm[n] /\ FollowLeader(n, m)
  <2>1. Ballots' = Ballots /\ Leads' = Leads /\ NoSelfMessage'
    BY <1>2 DEF HandleAppendEntries
  <2> QED BY <1>1, <1>4, <2>1, ElectionFollowLeader
<1> QED BY <1>3, <1>4 DEF HandleAppendEntries

LEMMA ElectionHandleAppendResponse ==
  ASSUME TypeOK, ElectionInv, NEW n \in Node, NEW m \in msgs, m.to = n,
         HandleAppendResponse(n, m)
  PROVE  ElectionInv'
<1>1. m.from \in Node /\ m.term \in Term /\ m.from # n
  BY MessageFields DEF TypeOK, ElectionInv, NoSelfMessage
<1> DEFINE retry == Larger(nextIndex[n][m.from] - 1, 1)
<1>2. CASE m.term > currentTerm[n] /\ BecomeFollower(n, m.term, Nil) /\ UNCHANGED msgs
  BY <1>1, <1>2, ElectionStepDown DEF Ballots, Leads, NoSelfMessage, ElectionInv
<1>3. CASE UNCHANGED <<electionVars, msgs>>
  BY <1>3, ElectionQuiet DEF electionVars, Ballots, Leads, NoSelfMessage, ElectionInv
<1>4. CASE Panic(n)
  BY <1>4, ElectionPanic
<1>5. CASE /\ role[n] = "Leader"
           /\ Send({AppendRequest(n, m.from, log[n], retry)})
           /\ UNCHANGED electionVars
  <2> DEFINE r == AppendRequest(n, m.from, log[n], retry)
  <2>1. /\ r.type = "AppendEntries" /\ r.from = n /\ r.to = m.from
        /\ r.term = currentTerm[n]
    BY DEF AppendRequest
  <2> HIDE DEF r
  <2>2. msgs' = msgs \cup {r}
    BY <1>5 DEF Send, r
  <2>3. <<n, currentTerm[n]>> \in Leads
    BY <1>5 DEF ElectionInv, RoleEarned
  <2>4. Ballots' = Ballots /\ Leads' = Leads /\ NoSelfMessage'
    BY <1>1, <2>1, <2>2, <2>3 DEF Ballots, Leads, NoSelfMessage, ElectionInv
  <2> QED BY <1>5, <2>4, ElectionQuiet DEF electionVars
<1> QED BY <1>2, <1>3, <1>4, <1>5 DEF HandleAppendResponse

LEMMA ElectionInit == Init => ElectionInv
<1> SUFFICES ASSUME Init PROVE ElectionInv
  OBVIOUS
<1>1. Ballots = {} /\ Leads = {}
  BY DEF Init, Ballots, Leads
<1> QED BY <1>1 DEF Init, ElectionInv, OneOpenBallot, BallotStands, LeadersElected,
           RoleEarned, NoSelfMessage

LEMMA ElectionNext ==
  ASSUME TypeOK, ElectionInv, [Next]_vars PROVE ElectionInv'
<1>1. CASE UNCHANGED vars
  BY <1>1, ElectionQuiet DEF vars, electionVars, Ballots, Leads, NoSelfMessage, ElectionInv
<1>2. ASSUME NEW n \in Node \ panicked, NodeStep(n) PROVE ElectionInv'
  <2>1. CASE StartElection(n)
    BY <2>1, ElectionStartElection
  <2>2. CASE Heartbeat(n)
    BY <2>2, ElectionHeartbeat
  <2>3. ASSUME NEW c \in Command, Propose(n, c) PROVE ElectionInv'
    BY <2>3, ElectionPropose
  <2>4. CASE TakeCommitted(n)
    BY <2>4, ElectionTakeCommitted
  <2>5. ASSUME NEW m \in msgs, Receive(n, m) PROVE ElectionInv'
    BY <2>5, ElectionHandleRequestVote, ElectionHandleVoteResponse,
       ElectionHandleAppendEntries, ElectionHandleAppendResponse DEF Receive
  <2> QED BY <1>2, <2>1, <2>2, <2>3, <2>4, <2>5 DEF NodeStep
<1> QED BY <1>1, <1>2 DEF Next

LEMMA ElectionInvImpliesSafety == TypeOK /\ ElectionInv => ElectionSafety
<1> SUFFICES ASSUME TypeOK, ElectionInv, NEW a \in msgs, NEW b \in msgs,
                    a.type = "AppendEntries", b.type = "AppendEntries", a.term = b.term
             PROVE  a.from = b.from
  BY DEF ElectionSafety
<1>1. /\ a.from \in Node /\ a.term \in Term /\ b.from \in Node /\ b.term \in Term
  BY MessageFields DEF TypeOK
<1>2. <<a.from, a.term>> \in Leads /\ <<b.from, b.term>> \in Leads
  BY DEF Leads
<1> QED BY <1>1, <1>2, OneLeader DEF ElectionInv

\* For every odd cluster of three or more and any loss, duplication and
\* reordering of messages, no term has two leaders, although become_follower
\* clears a vote already given in the term.
THEOREM OneLeaderPerTerm == Spec => []ElectionSafety
<1>1. Spec => []TypeOK
  BY TypeCorrect
<1>2. TypeOK /\ ElectionInv /\ [Next]_vars => ElectionInv'
  BY ElectionNext
<1> QED BY <1>1, <1>2, ElectionInit, ElectionInvImpliesSafety, PTL DEF Spec

-----------------------------------------------------------------------------
(***************************************************************************)
(* Why logs match.  The line of a term is the log of the term's leader:    *)
(* what it has while it leads, and what it had last once it is gone.       *)
(* Every log is made of beginnings of lines: up to any of its entries it   *)
(* is the line of that entry's term.  No variable remembers the lines of   *)
(* the leaders that are gone, so the invariant says that there are some.   *)
(***************************************************************************)
Lines == [Term -> Seq(Entry)]

\* The same up to k.
SameTo(s, t, k) == k <= Len(s) /\ k <= Len(t) /\ \A j \in 1..k : s[j] = t[j]

\* Up to any of its entries the log is the line of the entry's term.
Lined(lg, G) == \A i \in 1..Len(lg) : SameTo(lg, G[lg[i].term], i)

\* Terms never fall along a log, nor rise above t.
Rising(lg, t) ==
  \A i, j \in 1..Len(lg) : i <= j => lg[i].term <= lg[j].term /\ lg[j].term <= t

\* What a request carries is a stretch of the line of its term.
OnLine(m, lg) ==
  /\ m.prev + Len(m.entries) <= Len(lg)
  /\ m.prev > 0 => lg[m.prev].term = m.prevTerm
  /\ \A k \in 1..Len(m.entries) : m.entries[k] = lg[m.prev + k]

Requests == {m \in msgs : m.type = "AppendEntries"}

\* G has the line of each term.
LineInv(G) ==
  /\ \A t \in Term : G[t] # <<>> => Announced(t)
  /\ \A t \in Term : Lined(G[t], G) /\ Rising(G[t], t)
  /\ \A n \in Node : Lined(log[n], G) /\ Rising(log[n], currentTerm[n])
  /\ \A l \in Node : role[l] = "Leader" => log[l] = G[currentTerm[l]]
  /\ \A m \in Requests : OnLine(m, G[m.term])

\* Who was elected in a term leads until it sees a later one.
LeadersStay ==
  \A l \in Node, t \in Term :
    <<l, t>> \in Leads => t < currentTerm[l] \/ (t = currentTerm[l] /\ role[l] = "Leader")

\* The inductive invariant of LogMatching.
LogInv == LeadersStay /\ \E G \in Lines : LineInv(G)

\* Facts about beginnings.
LEMMA SameFacts ==
  ASSUME NEW s \in Seq(Entry), NEW t \in Seq(Entry), NEW k \in Nat, SameTo(s, t, k)
  PROVE  /\ SameTo(t, s, k)
         /\ \A j \in Nat : j <= k => SameTo(s, t, j)
BY LenProperties DEF SameTo

LEMMA SameSelf == ASSUME NEW s \in Seq(Entry) PROVE SameTo(s, s, Len(s)) /\ SameTo(s, s, 0)
BY LenProperties DEF SameTo

LEMMA SameTransitive ==
  ASSUME NEW s \in Seq(Entry), NEW t \in Seq(Entry), NEW u \in Seq(Entry), NEW k \in Nat,
         SameTo(s, t, k), SameTo(t, u, k)
  PROVE  SameTo(s, u, k)
BY LenProperties DEF SameTo

LEMMA SameWhole ==
  ASSUME NEW s \in Seq(Entry), NEW t \in Seq(Entry), Len(s) = Len(t), SameTo(s, t, Len(s))
  PROVE  s = t
<1>1. \A i \in 1..Len(s) : s[i] = t[i]
  BY DEF SameTo
<1> QED BY <1>1, SeqEqual

LEMMA LogEntry ==
  ASSUME NEW lg \in Seq(Entry), NEW i \in 1..Len(lg)
  PROVE  lg[i] \in Entry /\ lg[i].term \in Term /\ lg[i].term \in Nat /\ i \in Nat /\ Len(lg) \in Nat
<1>1. lg[i] \in Entry
  BY ElementOfSeq
<1>2. Len(lg) \in Nat
  BY LenProperties
<1> QED BY <1>1, <1>2, TermIsNat DEF Entry

\* The first k entries of a log.
LEMMA CutSame ==
  ASSUME NEW lg \in Seq(Entry), NEW k \in Nat, k <= Len(lg)
  PROVE  /\ SubSeq(lg, 1, k) \in Seq(Entry) /\ Len(SubSeq(lg, 1, k)) = k
         /\ SameTo(SubSeq(lg, 1, k), lg, k)
<1>1. \A i \in 1..k : lg[i] \in Entry
  BY ElementOfSeq, LenProperties
<1>2. /\ SubSeq(lg, 1, k) \in Seq(Entry) /\ Len(SubSeq(lg, 1, k)) = IF 1 <= k THEN k - 1 + 1 ELSE 0
      /\ \A i \in 1..(k - 1 + 1) : SubSeq(lg, 1, k)[i] = lg[1 + i - 1]
  BY <1>1, SubSeqProperties
<1> QED BY <1>2 DEF SameTo

\* A beginning of a lined and rising log is lined and rising.
LEMMA BeginningLined ==
  ASSUME NEW G \in Lines, NEW lg \in Seq(Entry), NEW p \in Seq(Entry),
         Lined(lg, G), SameTo(p, lg, Len(p))
  PROVE  /\ Lined(p, G)
         /\ \A t, u \in Term : Rising(lg, t) /\ t <= u => Rising(p, u)
<1>1. Len(p) \in Nat /\ Len(lg) \in Nat /\ Len(p) <= Len(lg)
  BY LenProperties DEF SameTo
<1>2. \A j \in 1..Len(p) : j \in 1..Len(lg) /\ p[j] = lg[j]
  BY <1>1 DEF SameTo
<1>3. ASSUME NEW i \in 1..Len(p) PROVE SameTo(p, G[p[i].term], i)
  <2>1. SameTo(lg, G[p[i].term], i)
    BY <1>2 DEF Lined
  <2> QED BY <1>1, <1>2, <2>1 DEF SameTo
<1>4. ASSUME NEW t \in Term, NEW u \in Term, Rising(lg, t), t <= u PROVE Rising(p, u)
  <2> SUFFICES ASSUME NEW i \in 1..Len(p), NEW j \in 1..Len(p), i <= j
               PROVE  p[i].term <= p[j].term /\ p[j].term <= u
    BY DEF Rising
  <2>1. p[i].term <= p[j].term /\ p[j].term <= t
    BY <1>2, <1>4 DEF Rising
  <2> QED BY <1>4, <2>1, LogEntry, TermIsNat
<1> QED BY <1>3, <1>4 DEF Lined

\* Two lined logs that have one term at an index are the same up to it.
LEMMA LinesMeet ==
  ASSUME NEW G \in Lines, NEW a \in Seq(Entry), NEW b \in Seq(Entry),
         Lined(a, G), Lined(b, G), NEW i \in 1..Len(a), i \in 1..Len(b), a[i].term = b[i].term
  PROVE  SameTo(a, b, i)
<1>1. /\ a[i].term \in Term /\ i \in Nat
      /\ G[a[i].term] \in Seq(Entry)
  BY LogEntry DEF Lines
<1>2. SameTo(a, G[a[i].term], i) /\ SameTo(b, G[a[i].term], i)
  BY DEF Lined
<1> QED BY <1>1, <1>2, SameFacts, SameTransitive

\* A node changes its term and its leadership only together and only upwards.
Stays(l) ==
  \/ currentTerm'[l] = currentTerm[l] /\ (role'[l] = "Leader" <=> role[l] = "Leader")
  \/ currentTerm'[l] > currentTerm[l] /\ role'[l] # "Leader"

\* So LeadersStay is kept.
LEMMA LeadersStayStep ==
  ASSUME TypeOK, TypeOK', LeadersStay, Leads' = Leads, \A l \in Node : Stays(l)
  PROVE  LeadersStay'
<1> SUFFICES ASSUME NEW l \in Node, NEW t \in Term, <<l, t>> \in Leads
             PROVE  t < currentTerm'[l] \/ (t = currentTerm'[l] /\ role'[l] = "Leader")
  BY DEF LeadersStay
<1>1. /\ t \in Nat /\ currentTerm[l] \in Nat /\ currentTerm'[l] \in Nat
  BY TermIsNat DEF TypeOK
<1>2. t < currentTerm[l] \/ (t = currentTerm[l] /\ role[l] = "Leader")
  BY DEF LeadersStay
<1>3. CASE currentTerm'[l] = currentTerm[l] /\ (role'[l] = "Leader" <=> role[l] = "Leader")
  BY <1>2, <1>3
<1>4. CASE currentTerm'[l] > currentTerm[l]
  <2>1. t <= currentTerm[l]
    BY <1>1, <1>2
  <2>2. t < currentTerm'[l]
    BY <1>1, <1>4, <2>1
  <2> QED BY <2>2
<1> QED BY <1>3, <1>4 DEF Stays

\* The steps that change no line: a node's log stays, is cut or becomes the
\* beginning of a line, and requests carry stretches of the lines.
LEMMA LineStill ==
  ASSUME TypeOK, TypeOK', NEW G \in Lines, LineInv(G), \A l \in Node : Stays(l),
         NEW R, msgs' = msgs \cup R,
         \A m \in R : m.type = "AppendEntries" => OnLine(m, G[m.term]),
         \A n \in Node :
           \/ SameTo(log'[n], log[n], Len(log'[n]))
           \/ \E t \in Term : t <= currentTerm'[n] /\ SameTo(log'[n], G[t], Len(log'[n])),
         \A l \in Node : role'[l] = "Leader" => log'[l] = log[l]
  PROVE  LineInv(G)'
<1>1. \A t \in Term : G[t] # <<>> => Announced(t)'
  BY DEF LineInv, Announced, Leads
<1>2. ASSUME NEW n \in Node PROVE Lined(log'[n], G) /\ Rising(log'[n], currentTerm'[n])
  <2>1. /\ log[n] \in Seq(Entry) /\ log'[n] \in Seq(Entry)
        /\ currentTerm[n] \in Term /\ currentTerm'[n] \in Term /\ currentTerm[n] <= currentTerm'[n]
    <3>1. /\ log[n] \in Seq(Entry) /\ log'[n] \in Seq(Entry)
          /\ currentTerm[n] \in Term /\ currentTerm'[n] \in Term
      BY DEF TypeOK
    <3>2. currentTerm'[n] = currentTerm[n] \/ currentTerm'[n] > currentTerm[n]
      BY DEF Stays
    <3> QED BY <3>1, <3>2, TermIsNat
  <2>2. CASE SameTo(log'[n], log[n], Len(log'[n]))
    BY <2>1, <2>2, BeginningLined DEF LineInv
  <2>3. CASE \E t \in Term : t <= currentTerm'[n] /\ SameTo(log'[n], G[t], Len(log'[n]))
    <3>1. PICK t \in Term : t <= currentTerm'[n] /\ SameTo(log'[n], G[t], Len(log'[n]))
      BY <2>3
    <3>2. G[t] \in Seq(Entry)
      BY DEF Lines
    <3> QED BY <2>1, <3>1, <3>2, BeginningLined DEF LineInv
  <2> QED BY <2>2, <2>3
<1>3. ASSUME NEW l \in Node, role'[l] = "Leader" PROVE log'[l] = G[currentTerm'[l]]
  BY <1>3 DEF Stays, LineInv
<1>4. ASSUME NEW m \in Requests' PROVE OnLine(m, G[m.term])
  BY DEF LineInv, Requests
<1> QED BY <1>1, <1>2, <1>3, <1>4 DEF LineInv

\* A step changes the line of a term only if a leader of the term is left.
Succeeds(G, H) ==
  \A t \in Term : H[t] = G[t] \/ \E l \in Node : role'[l] = "Leader" /\ currentTerm'[l] = t

\* There are lines after the step as there were before.
LineKept(G) == LeadersStay' /\ \E H \in Lines : LineInv(H)' /\ Succeeds(G, H)

\* Lines that only get longer hold what they held.
Longer(G, H) == \A t \in Term : SameTo(G[t], H[t], Len(G[t]))

LEMMA LongerKeeps ==
  ASSUME NEW G \in Lines, NEW H \in Lines, Longer(G, H)
  PROVE  /\ \A lg \in Seq(Entry) : Lined(lg, G) => Lined(lg, H)
         /\ \A m \in Message : m.type = "AppendEntries" /\ OnLine(m, G[m.term])
              => OnLine(m, H[m.term])
<1>1. \A t \in Term : /\ G[t] \in Seq(Entry) /\ H[t] \in Seq(Entry)
                      /\ Len(G[t]) \in Nat /\ Len(H[t]) \in Nat /\ Len(G[t]) <= Len(H[t])
                      /\ \A j \in 1..Len(G[t]) : H[t][j] = G[t][j]
  BY LenProperties DEF Lines, Longer, SameTo
<1>2. ASSUME NEW lg \in Seq(Entry), Lined(lg, G), NEW i \in 1..Len(lg)
      PROVE  SameTo(lg, H[lg[i].term], i)
  <2>1. lg[i].term \in Term /\ i \in Nat
    BY LogEntry
  <2>2. SameTo(lg, G[lg[i].term], i)
    BY <1>2 DEF Lined
  <2> QED BY <1>1, <2>1, <2>2 DEF SameTo
<1>3. ASSUME NEW m \in Message, m.type = "AppendEntries", OnLine(m, G[m.term])
      PROVE  OnLine(m, H[m.term])
  <2>1. m.term \in Term /\ m.prev \in Nat /\ Len(m.entries) \in Nat
    BY <1>3, MessageFields, LenProperties
  <2>2. \A k \in 1..Len(m.entries) : m.prev + k \in 1..Len(G[m.term])
    BY <1>1, <1>3, <2>1 DEF OnLine
  <2>3. m.prev > 0 => m.prev \in 1..Len(G[m.term])
    BY <1>1, <1>3, <2>1 DEF OnLine
  <2>4. m.prev + Len(m.entries) <= Len(H[m.term])
    BY <1>1, <1>3, <2>1 DEF OnLine
  <2>5. m.prev > 0 => H[m.term][m.prev].term = m.prevTerm
    BY <1>1, <1>3, <2>1, <2>3 DEF OnLine
  <2>6. \A k \in 1..Len(m.entries) : m.entries[k] = H[m.term][m.prev + k]
    BY <1>1, <1>3, <2>1, <2>2 DEF OnLine
  <2> QED BY <2>4, <2>5, <2>6 DEF OnLine
<1> QED BY <1>2, <1>3 DEF Lined

-----------------------------------------------------------------------------
(***************************************************************************)
(* The lines, one handler at a time.                                       *)
(***************************************************************************)

\* The messages that carry no entries announce nobody.
LEMMA AnswerCarriesNothing ==
  ASSUME NEW R, msgs' = msgs \cup R, \A r \in R : r.type # "AppendEntries"
  PROVE  Leads' = Leads /\ Requests' = Requests
BY DEF Leads, Requests

\* A leader has announced itself, and it is the only one of its term.
LEMMA LeaderKnown ==
  ASSUME TypeOK, ElectionInv, NEW n \in Node, role[n] = "Leader"
  PROVE  /\ <<n, currentTerm[n]>> \in Leads /\ currentTerm[n] \in Term
         /\ \A l \in Node : <<l, currentTerm[n]>> \in Leads => l = n
<1>1. <<n, currentTerm[n]>> \in Leads /\ currentTerm[n] \in Term
  BY DEF ElectionInv, RoleEarned, TypeOK
<1> QED BY <1>1, OneLeader DEF ElectionInv

OneEach == \A a, b \in Node, t \in Term : <<a, t>> \in Leads /\ <<b, t>> \in Leads => a = b

LEMMA LeadersUnique == ElectionInv => OneEach
BY OneLeader DEF ElectionInv, OneEach

\* A request built from a log it does not overrun carries a stretch of it.
LEMMA RequestOnLine ==
  ASSUME NEW n \in Node, NEW p \in Node, NEW lg \in Seq(Entry), NEW next \in Nat \ {0},
         ~RequestPanics(lg, next)
  PROVE  OnLine(AppendRequest(n, p, lg, next), lg)
<1> DEFINE r == AppendRequest(n, p, lg, next)
<1>1. r.prev = next - 1 /\ r.entries = SubSeq(lg, next, Len(lg))
      /\ r.prevTerm = (IF next = 1 THEN 0 ELSE lg[next - 1].term)
  BY DEF AppendRequest
<1>2. Len(lg) \in Nat /\ next <= Len(lg) + 1
  BY LenProperties DEF RequestPanics
<1>3. \A i \in next..Len(lg) : lg[i] \in Entry
  BY <1>2, ElementOfSeq
<1>4. /\ Len(r.entries) = IF next <= Len(lg) THEN Len(lg) - next + 1 ELSE 0
      /\ \A i \in 1..(Len(lg) - next + 1) : r.entries[i] = lg[next + i - 1]
  BY <1>1, <1>2, <1>3, SubSeqProperties
<1> HIDE DEF r
<1>5. Len(r.entries) = Len(lg) - next + 1
  BY <1>2, <1>4
<1>6. r.prev + Len(r.entries) = Len(lg)
  BY <1>1, <1>2, <1>5
<1>7. \A k \in 1..Len(r.entries) : r.entries[k] = lg[r.prev + k]
  <2> SUFFICES ASSUME NEW k \in 1..Len(r.entries) PROVE r.entries[k] = lg[r.prev + k]
    OBVIOUS
  <2>1. r.entries[k] = lg[next + k - 1]
    BY <1>4, <1>5
  <2>2. r.prev + k = next + k - 1
    BY <1>1, <1>2
  <2> QED BY <2>1, <2>2
<1>8. r.prev > 0 => lg[r.prev].term = r.prevTerm
  BY <1>1
<1> QED BY <1>2, <1>6, <1>7, <1>8 DEF OnLine, r

\* So do all the requests a leader sends at once.
LEMMA RequestsOnLine ==
  ASSUME NEW n \in Node, NEW lg \in Seq(Entry), NEW next \in [Node -> Nat \ {0}],
         \A p \in Node \ {n} : ~RequestPanics(lg, next[p])
  PROVE  \A r \in RequestsToAll(n, lg, next) : OnLine(r, lg) /\ r.term = currentTerm[n]
<1> SUFFICES ASSUME NEW p \in Node \ {n}
             PROVE  LET r == AppendRequest(n, p, lg, next[p])
                    IN  OnLine(r, lg) /\ r.term = currentTerm[n]
  BY DEF RequestsToAll
<1>1. next[p] \in Nat \ {0} /\ ~RequestPanics(lg, next[p])
  OBVIOUS
<1> QED BY <1>1, RequestOnLine DEF AppendRequest

\* The steps that leave roles, terms and logs alone and send stretches of lines.
LEMMA LineSend ==
  ASSUME TypeOK, TypeOK', LeadersStay, NEW G \in Lines, LineInv(G), Leads' = Leads, UNCHANGED <<currentTerm, role, log>>,
         NEW R, msgs' = msgs \cup R,
         \A m \in R : m.type = "AppendEntries" => OnLine(m, G[m.term])
  PROVE  LineKept(G)
<1>1. \A l \in Node : Stays(l)
  BY DEF Stays
<1>2. LeadersStay'
  BY <1>1, LeadersStayStep
<1>4. \A n \in Node : SameTo(log'[n], log[n], Len(log'[n]))
  BY SameSelf DEF TypeOK
<1>5. LineInv(G)'
  BY <1>1, <1>4, LineStill
<1> QED BY <1>2, <1>5 DEF LineKept, Succeeds

LEMMA LineQuiet ==
  ASSUME TypeOK, TypeOK', LeadersStay, NEW G \in Lines, LineInv(G), UNCHANGED <<currentTerm, role, log, msgs>>
  PROVE  LineKept(G)
<1>1. PICK R : R = {}
  OBVIOUS
<1>2. msgs' = msgs \cup R /\ Leads' = Leads
  BY <1>1 DEF Leads
<1>3. \A m \in R : m.type = "AppendEntries" => OnLine(m, G[m.term])
  BY <1>1
<1> QED BY <1>2, <1>3, LineSend

\* A node that leaves its term keeps its log.
LEMMA LineMoveOn ==
  ASSUME TypeOK, TypeOK', LeadersStay, NEW G \in Lines, LineInv(G), NEW n \in Node, NEW t \in Term, t > currentTerm[n],
         currentTerm' = [currentTerm EXCEPT ![n] = t],
         NEW r \in Role, r # "Leader", role' = [role EXCEPT ![n] = r], UNCHANGED log,
         NEW R, msgs' = msgs \cup R, \A m \in R : m.type # "AppendEntries"
  PROVE  LineKept(G)
<1>1. t \in Nat /\ currentTerm[n] \in Nat
  BY TermIsNat DEF TypeOK
<1>2. \A l \in Node : Stays(l)
  BY <1>1 DEF Stays, TypeOK
<1>3. Leads' = Leads
  BY AnswerCarriesNothing
<1>4. LeadersStay'
  BY <1>2, <1>3, LeadersStayStep
<1>6. \A v \in Node : SameTo(log'[v], log[v], Len(log'[v]))
  BY SameSelf DEF TypeOK
<1>7. LineInv(G)'
  BY <1>2, <1>6, LineStill
<1> QED BY <1>4, <1>7 DEF LineKept, Succeeds

LEMMA LineStepDown ==
  ASSUME TypeOK, TypeOK', LeadersStay, NEW G \in Lines, LineInv(G), NEW n \in Node, NEW t \in Term, t > currentTerm[n],
         NEW l \in Node \cup {Nil}, BecomeFollower(n, t, l), UNCHANGED <<log, msgs>>
  PROVE  LineKept(G)
<1>1. PICK R : R = {}
  OBVIOUS
<1>2. msgs' = msgs \cup R /\ \A m \in R : m.type # "AppendEntries"
  BY <1>1
<1>3. /\ currentTerm' = [currentTerm EXCEPT ![n] = t]
      /\ role' = [role EXCEPT ![n] = "Follower"] /\ UNCHANGED log
  BY DEF BecomeFollower
<1> QED BY <1>2, <1>3, LineMoveOn DEF Role

LEMMA LogStartElection ==
  ASSUME TypeOK, TypeOK', LeadersStay, NEW G \in Lines, LineInv(G), NEW n \in Node, StartElection(n) PROVE LineKept(G)
<1> DEFINE R == {VoteRequest(n, p, currentTerm[n] + 1) : p \in Node \ {n}}
<1>1. \A m \in R : m.type # "AppendEntries"
  BY DEF VoteRequest
<1>2. /\ msgs' = msgs \cup R /\ UNCHANGED log
      /\ currentTerm' = [currentTerm EXCEPT ![n] = currentTerm[n] + 1]
      /\ role' = [role EXCEPT ![n] = "Candidate"]
  BY DEF StartElection, Send, logVars
<1>3. currentTerm[n] + 1 \in Term /\ currentTerm[n] + 1 > currentTerm[n]
  BY BoundAssumption DEF StartElection, TypeOK, Term
<1> HIDE DEF R
<1> QED BY <1>1, <1>2, <1>3, LineMoveOn DEF Role

LEMMA LogHeartbeat ==
  ASSUME TypeOK, TypeOK', ElectionInv, LeadersStay, NEW G \in Lines, LineInv(G), NEW n \in Node, Heartbeat(n)
  PROVE  LineKept(G)
<1>1. CASE Panic(n)
  BY <1>1, LineQuiet DEF Panic, electionVars, logVars
<1>2. CASE /\ ~ \E p \in Node \ {n} : RequestPanics(log[n], nextIndex[n][p])
           /\ Send(RequestsToAll(n, log[n], nextIndex[n]))
           /\ UNCHANGED <<electionVars, leaderVars, logVars>>
  <2> DEFINE R == RequestsToAll(n, log[n], nextIndex[n])
  <2>1. /\ log[n] \in Seq(Entry) /\ nextIndex[n] \in [Node -> Nat \ {0}]
        /\ msgs' = msgs \cup R /\ role[n] = "Leader" /\ UNCHANGED <<currentTerm, role, log>>
    BY <1>2 DEF TypeOK, Send, Heartbeat, electionVars, logVars
  <2>2. Leads' = Leads
    <3>1. Leads' = Leads \cup {<<n, currentTerm[n]>>}
      BY <2>1, RequestsAnnounce
    <3> QED BY <2>1, <3>1, LeaderKnown
  <2>3. \A r \in R : OnLine(r, log[n]) /\ r.term = currentTerm[n]
    BY <1>2, <2>1, RequestsOnLine
  <2> HIDE DEF R
  <2>4. \A m \in R : OnLine(m, G[m.term])
    BY <2>1, <2>3 DEF LineInv
  <2> QED BY <2>1, <2>2, <2>4, LineSend
<1> QED BY <1>1, <1>2 DEF Heartbeat

\* An entry pushed by the leader makes the line of its term longer.
LEMMA LogPropose ==
  ASSUME TypeOK, TypeOK', ElectionInv, LeadersStay, NEW G \in Lines, LineInv(G), NEW n \in Node, NEW c \in Command, Propose(n, c)
  PROVE  LineKept(G)
<1> DEFINE t == currentTerm[n]
           lg == Append(log[n], [term |-> t, command |-> c])
<1>1. CASE Panic(n)
  BY <1>1, LineQuiet DEF Panic, electionVars, logVars
<1>2. CASE /\ ~ \E p \in Node \ {n} : RequestPanics(lg, nextIndex[n][p])
           /\ log' = [log EXCEPT ![n] = lg]
           /\ Send(RequestsToAll(n, lg, nextIndex[n]))
           /\ UNCHANGED electionVars
  <2> DEFINE R == RequestsToAll(n, lg, nextIndex[n])
  <2>1. /\ log[n] \in Seq(Entry) /\ Len(log[n]) \in Nat /\ t \in Term /\ role[n] = "Leader"
        /\ nextIndex[n] \in [Node -> Nat \ {0}] /\ UNCHANGED <<currentTerm, role>>
        /\ msgs' = msgs \cup R
    BY <1>2, LenProperties DEF TypeOK, Propose, electionVars, Send
  <2>2. /\ lg \in Seq(Entry) /\ Len(lg) = Len(log[n]) + 1
        /\ lg[Len(log[n]) + 1].term = t
        /\ \A i \in 1..Len(log[n]) : lg[i] = log[n][i]
    <3>1. [term |-> t, command |-> c] \in Entry
      BY <2>1 DEF Entry
    <3> QED BY <2>1, <3>1, AppendProperties
  <2>3. \A r \in R : OnLine(r, lg) /\ r.term = t
    BY <1>2, <2>1, <2>2, RequestsOnLine
  <2>4. Leads' = Leads
    <3>1. Leads' = Leads \cup {<<n, t>>}
      BY <2>1, RequestsAnnounce
    <3> QED BY <2>1, <3>1, LeaderKnown
  <2>5. \A v \in Node : log'[v] = IF v = n THEN lg ELSE log[v]
    BY <1>2 DEF TypeOK
  <2> HIDE DEF lg, R
  <2>6. LeadersStay'
    BY <2>1, <2>4, LeadersStayStep DEF Stays
  <2>8. PICK H \in Lines : H = [G EXCEPT ![t] = lg]
    BY <2>1, <2>2 DEF Lines
  <2>9. G[t] = log[n] /\ Announced(t) /\ \A u \in Term : H[u] = IF u = t THEN lg ELSE G[u]
    BY <2>1, <2>8, LeaderKnown DEF LineInv, Announced, Lines
  <2>10. Longer(G, H)
    <3> SUFFICES ASSUME NEW u \in Term PROVE SameTo(G[u], H[u], Len(G[u]))
      BY DEF Longer
    <3>1. G[u] \in Seq(Entry)
      BY DEF Lines
    <3>2. CASE u = t
      BY <2>1, <2>2, <2>9, <3>2, SMTT(20) DEF SameTo
    <3>3. CASE u # t
      BY <2>9, <3>1, <3>3, SameSelf
    <3> QED BY <3>2, <3>3
  <2>11. Lined(lg, H)
    <3> SUFFICES ASSUME NEW i \in 1..Len(lg) PROVE SameTo(lg, H[lg[i].term], i)
      BY DEF Lined
    <3>1. CASE i = Len(lg)
      <4>1. H[lg[i].term] = lg
        BY <2>1, <2>2, <2>9, <3>1
      <4> QED BY <2>2, <3>1, <4>1, SameSelf
    <3>2. CASE i # Len(lg)
      <4>1. i \in 1..Len(log[n]) /\ lg[i] = log[n][i]
        BY <2>1, <2>2, <3>2
      <4>2. Lined(log[n], H)
        BY <2>1, <2>10, LongerKeeps DEF LineInv
      <4>3. SameTo(log[n], H[lg[i].term], i)
        BY <4>1, <4>2 DEF Lined
      <4> QED BY <2>1, <2>2, <4>1, <4>3 DEF SameTo
    <3> QED BY <3>1, <3>2
  <2>12. Rising(lg, t)
    <3> SUFFICES ASSUME NEW i \in 1..Len(lg), NEW j \in 1..Len(lg), i <= j
                 PROVE  lg[i].term <= lg[j].term /\ lg[j].term <= t
      BY DEF Rising
    <3>1. Rising(log[n], t) /\ t \in Nat
      BY <2>1, TermIsNat DEF LineInv
    <3>2. ASSUME NEW k \in 1..Len(log[n]) PROVE lg[k].term <= t
      <4>1. k \in Nat /\ k <= k
        OBVIOUS
      <4> QED BY <2>2, <3>1, <4>1 DEF Rising
    <3>3. CASE j = Len(log[n]) + 1
      BY <2>1, <2>2, <3>1, <3>2, <3>3
    <3>4. CASE j # Len(log[n]) + 1
      <4>1. i \in 1..Len(log[n]) /\ j \in 1..Len(log[n])
        BY <2>1, <2>2, <3>4
      <4> QED BY <2>2, <3>1, <4>1 DEF Rising
    <3> QED BY <3>3, <3>4
  <2>13. LineInv(H)'
    <3>1. \A u \in Term : H[u] # <<>> => Announced(u)'
      BY <2>4, <2>9 DEF LineInv, Announced
    <3>2. \A u \in Term : Lined(H[u], H) /\ Rising(H[u], u)
      <4>1. \A u \in Term : G[u] \in Seq(Entry)
        BY DEF Lines
      <4> QED BY <2>9, <2>10, <2>11, <2>12, <4>1, LongerKeeps DEF LineInv
    <3>3. \A v \in Node : Lined(log'[v], H) /\ Rising(log'[v], currentTerm'[v])
      <4>1. \A v \in Node : log[v] \in Seq(Entry)
        BY DEF TypeOK
      <4> QED BY <2>1, <2>5, <2>10, <2>11, <2>12, <4>1, LongerKeeps DEF LineInv
    <3>4. ASSUME NEW l \in Node, role'[l] = "Leader" PROVE log'[l] = H[currentTerm'[l]]
      <4>1. CASE l = n
        BY <2>1, <2>5, <2>9, <4>1
      <4>2. CASE l # n
        <5>1. currentTerm[l] # t /\ currentTerm[l] \in Term
          <6>1. <<l, currentTerm[l]>> \in Leads /\ currentTerm[l] \in Term
            BY <2>1, <3>4, LeaderKnown
          <6> QED BY <2>1, <4>2, <6>1, LeaderKnown
        <5> QED BY <2>1, <2>5, <2>9, <3>4, <4>2, <5>1 DEF LineInv
      <4> QED BY <4>1, <4>2
    <3>5. ASSUME NEW m \in Requests' PROVE OnLine(m, H[m.term])
      <4>1. CASE m \in R
        BY <2>1, <2>3, <2>9, <4>1
      <4>2. CASE m \in msgs
        <5>1. m \in Requests /\ m \in Message /\ m.type = "AppendEntries"
          BY <4>2 DEF Requests, TypeOK
        <5> QED BY <2>10, <5>1, LongerKeeps DEF LineInv
      <4> QED BY <2>1, <4>1, <4>2 DEF Requests
    <3> QED BY <3>1, <3>2, <3>3, <3>4, <3>5 DEF LineInv
  <2>14. Succeeds(G, H)
    BY <2>1, <2>9 DEF Succeeds
  <2> QED BY <2>6, <2>13, <2>14 DEF LineKept
<1>3. Panic(n) \/ (/\ ~ \E p \in Node \ {n} : RequestPanics(lg, nextIndex[n][p])
                   /\ log' = [log EXCEPT ![n] = lg]
                   /\ Send(RequestsToAll(n, lg, nextIndex[n]))
                   /\ UNCHANGED electionVars)
  BY DEF Propose
<1> QED BY <1>1, <1>2, <1>3

\* A node that becomes leader gives its term, which had none, a line.
LEMMA LogBecomeLeader ==
  ASSUME TypeOK, TypeOK', ElectionInv, ElectionInv', LeadersStay, NEW G \in Lines, LineInv(G), NEW n \in Node,
         role[n] = "Candidate", BecomeLeader(n), UNCHANGED logVars
  PROVE  LineKept(G)
<1>0. OneEach'
  BY LeadersUnique, PTL
<1> DEFINE t == currentTerm[n]
           next == [p \in Node |-> Len(log[n]) + 1]
           R == RequestsToAll(n, log[n], next)
<1>1. /\ log[n] \in Seq(Entry) /\ Len(log[n]) \in Nat /\ t \in Term
  BY LenProperties DEF TypeOK
<1>2. /\ next \in [Node -> Nat \ {0}]
      /\ \A p \in Node \ {n} : ~RequestPanics(log[n], next[p])
  BY <1>1 DEF RequestPanics
<1>3. /\ msgs' = msgs \cup R
      /\ role' = [role EXCEPT ![n] = "Leader"] /\ currentTerm' = currentTerm /\ log' = log
  BY DEF BecomeLeader, Send, logVars
<1>4. \A r \in R : OnLine(r, log[n]) /\ r.term = t
  BY <1>1, <1>2, RequestsOnLine
<1>5. Leads' = Leads \cup {<<n, t>>}
  BY <1>3, RequestsAnnounce
<1> HIDE DEF next, R
<1>6. LeadersStay'
  <2> SUFFICES ASSUME NEW l \in Node, NEW u \in Term, <<l, u>> \in Leads'
               PROVE  u < currentTerm[l] \/ (u = currentTerm[l] /\ role'[l] = "Leader")
    BY <1>3 DEF LeadersStay
  <2>1. CASE <<l, u>> \in Leads
    <3>1. u < currentTerm[l] \/ (u = currentTerm[l] /\ role[l] = "Leader")
      BY <2>1 DEF LeadersStay
    <3> QED BY <1>3, <3>1 DEF TypeOK
  <2>2. CASE l = n /\ u = t
    BY <1>3, <2>2 DEF TypeOK
  <2> QED BY <1>5, <2>1, <2>2
<1>7. \A l \in Node : <<l, t>> \in Leads' => l = n
  BY <1>0, <1>1, <1>5 DEF OneEach
<1>8. ~Announced(t)
  <2>1. <<n, t>> \notin Leads
    BY <1>1, TermIsNat DEF LeadersStay
  <2> QED BY <1>5, <1>7, <2>1 DEF Announced
<1>10. PICK H \in Lines : H = [G EXCEPT ![t] = log[n]]
  BY <1>1 DEF Lines
<1>11. G[t] = <<>> /\ \A u \in Term : H[u] = IF u = t THEN log[n] ELSE G[u]
  BY <1>1, <1>8, <1>10 DEF LineInv, Lines
<1>12. Longer(G, H)
  <2> SUFFICES ASSUME NEW u \in Term PROVE SameTo(G[u], H[u], Len(G[u]))
    BY DEF Longer
  <2>1. G[u] \in Seq(Entry)
    BY DEF Lines
  <2>2. CASE u = t
    <3>1. Len(G[u]) = 0
      BY <1>11, <2>2, EmptySeq
    <3> QED BY <1>1, <1>11, <2>2, <3>1 DEF SameTo
  <2>3. CASE u # t
    BY <1>11, <2>1, <2>3, SameSelf
  <2> QED BY <2>2, <2>3
<1>13. LineInv(H)'
  <2>1. \A u \in Term : H[u] # <<>> => Announced(u)'
    BY <1>5, <1>11 DEF LineInv, Announced
  <2>2. \A v \in Node : Lined(log'[v], H) /\ Rising(log'[v], currentTerm'[v])
    <3>1. \A v \in Node : log[v] \in Seq(Entry)
      BY DEF TypeOK
    <3> QED BY <1>3, <1>12, <3>1, LongerKeeps DEF LineInv
  <2>3. \A u \in Term : Lined(H[u], H) /\ Rising(H[u], u)
    <3>1. \A u \in Term : G[u] \in Seq(Entry)
      BY DEF Lines
    <3> QED BY <1>3, <1>11, <1>12, <2>2, <3>1, LongerKeeps DEF LineInv
  <2>4. ASSUME NEW l \in Node, role'[l] = "Leader" PROVE log'[l] = H[currentTerm'[l]]
    <3>1. CASE l = n
      BY <1>1, <1>3, <1>11, <3>1
    <3>2. CASE l # n
      <4>1. role[l] = "Leader"
        BY <1>3, <2>4, <3>2 DEF TypeOK
      <4>2. <<l, currentTerm[l]>> \in Leads /\ currentTerm[l] \in Term
        BY <4>1, LeaderKnown
      <4>3. currentTerm[l] # t
        BY <1>8, <4>2 DEF Announced
      <4> QED BY <1>3, <1>11, <4>1, <4>2, <4>3 DEF LineInv
    <3> QED BY <3>1, <3>2
  <2>5. ASSUME NEW m \in Requests' PROVE OnLine(m, H[m.term])
    <3>1. CASE m \in R
      BY <1>1, <1>4, <1>11, <3>1
    <3>2. CASE m \in msgs
      <4>1. m \in Requests /\ m \in Message /\ m.type = "AppendEntries"
        BY <3>2 DEF Requests, TypeOK
      <4> QED BY <1>12, <4>1, LongerKeeps DEF LineInv
    <3> QED BY <1>3, <3>1, <3>2 DEF Requests
  <2> QED BY <2>1, <2>2, <2>3, <2>4, <2>5 DEF LineInv
<1>14. Succeeds(G, H)
  BY <1>1, <1>3, <1>11 DEF Succeeds, TypeOK
<1> QED BY <1>6, <1>13, <1>14 DEF LineKept

\* A vote makes a node leader, makes it leave its term or is counted.
LEMMA LogHandleVoteResponse ==
  ASSUME TypeOK, TypeOK', ElectionInv, ElectionInv', LeadersStay, NEW G \in Lines, LineInv(G), NEW n \in Node, NEW m \in msgs,
         HandleVoteResponse(n, m)
  PROVE  LineKept(G)
<1>1. m.term \in Term
  BY MessageFields DEF TypeOK
<1>2. UNCHANGED logVars
  BY DEF HandleVoteResponse
<1>3. CASE m.term > currentTerm[n] /\ BecomeFollower(n, m.term, Nil) /\ UNCHANGED msgs
  BY <1>1, <1>2, <1>3, LineStepDown DEF logVars
<1>4. CASE role[n] = "Candidate" /\ BecomeLeader(n)
  BY <1>2, <1>4, LogBecomeLeader
<1>5. CASE UNCHANGED <<currentTerm, role, msgs>>
  BY <1>2, <1>5, LineQuiet DEF logVars
<1> QED BY <1>3, <1>4, <1>5 DEF HandleVoteResponse

LEMMA LogTakeCommitted ==
  ASSUME TypeOK, TypeOK', LeadersStay, NEW G \in Lines, LineInv(G), NEW n \in Node, TakeCommitted(n) PROVE LineKept(G)
BY LineQuiet DEF TakeCommitted, Panic, electionVars, logVars

\* A vote is cast by a node that stays in its term, or moves on.
LEMMA LogHandleRequestVote ==
  ASSUME TypeOK, TypeOK', LeadersStay, NEW G \in Lines, LineInv(G), NEW n \in Node, NEW m \in msgs, HandleRequestVote(n, m)
  PROVE  LineKept(G)
<1>1. m.term \in Term /\ UNCHANGED log
  BY MessageFields DEF TypeOK, HandleRequestVote, logVars
<1>2. \A t, g : VoteAnswer(n, m, t, g).type # "AppendEntries"
  BY DEF VoteAnswer
<1>3. PICK a : a.type # "AppendEntries" /\ msgs' = msgs \cup {a}
  BY <1>2 DEF HandleRequestVote, Send
<1>4. PICK R : R = {a}
  OBVIOUS
<1>5. msgs' = msgs \cup R /\ \A r \in R : r.type # "AppendEntries"
  BY <1>3, <1>4
<1>6. CASE UNCHANGED <<currentTerm, role>>
  BY <1>1, <1>5, <1>6, AnswerCarriesNothing, LineSend
<1>7. CASE /\ m.term > currentTerm[n]
           /\ currentTerm' = [currentTerm EXCEPT ![n] = m.term]
           /\ role' = [role EXCEPT ![n] = "Follower"]
  BY <1>1, <1>5, <1>7, LineMoveOn DEF Role
<1> QED BY <1>6, <1>7 DEF HandleRequestVote, electionVars

-----------------------------------------------------------------------------
(***************************************************************************)
(* What a request does to the log of the follower.                         *)
(***************************************************************************)

\* Where the consistency check holds, the log is that of the sender so far.
LEMMA CheckedBeginning ==
  ASSUME NEW G \in Lines, NEW lg \in Seq(Entry), NEW line \in Seq(Entry),
         Lined(lg, G), Lined(line, G), NEW m \in Message, m.type = "AppendEntries",
         OnLine(m, line), m.prev <= Len(lg), m.prev > 0 => lg[m.prev].term = m.prevTerm
  PROVE  SameTo(lg, line, m.prev)
<1>1. /\ m.prev \in Nat /\ Len(m.entries) \in Nat /\ Len(lg) \in Nat /\ Len(line) \in Nat
      /\ m.prev <= Len(line)
  BY MessageFields, LenProperties DEF OnLine
<1>2. CASE m.prev = 0
  BY <1>1, <1>2 DEF SameTo
<1>3. CASE m.prev > 0
  <2>1. m.prev \in 1..Len(lg) /\ m.prev \in 1..Len(line) /\ lg[m.prev].term = line[m.prev].term
    BY <1>1, <1>3 DEF OnLine
  <2> QED BY <2>1, LinesMeet
<1> QED BY <1>1, <1>2, <1>3

\* Where it fails, the log has left the line.
LEMMA FailedCheck ==
  ASSUME NEW lg \in Seq(Entry), NEW line \in Seq(Entry), NEW m \in Message,
         m.type = "AppendEntries", OnLine(m, line), m.prev \in 1..Len(lg),
         lg[m.prev].term # m.prevTerm, NEW k \in Nat, SameTo(lg, line, k)
  PROVE  k < m.prev
<1>1. m.prev \in Nat
  BY MessageFields
<1>2. lg[m.prev] # line[m.prev]
  BY <1>1 DEF OnLine
<1> QED BY <1>1, <1>2 DEF SameTo

\* The loop over the entries makes the log that of the sender up to the last
\* of them, and loses nothing that it had of the sender's.
LEMMA MergedFacts ==
  ASSUME NEW lg \in Seq(Entry), NEW line \in Seq(Entry), NEW m \in Message,
         m.type = "AppendEntries", OnLine(m, line), SameTo(lg, line, m.prev)
  PROVE  LET new == MergedLog(lg, m.prev, m.entries)
             end == m.prev + Len(m.entries)
         IN  /\ new \in Seq(Entry) /\ end \in Nat
             /\ SameTo(new, line, end)
             /\ new = lg \/ Len(new) = end
             /\ \A k \in Nat : SameTo(lg, line, k) => SameTo(new, line, k)
<1> DEFINE new == MergedLog(lg, m.prev, m.entries)
           end == m.prev + Len(m.entries)
<1>1. /\ m.prev \in Nat /\ m.entries \in Seq(Entry) /\ Len(m.entries) \in Nat /\ end \in Nat
      /\ Len(lg) \in Nat /\ Len(line) \in Nat /\ m.prev <= Len(lg) /\ end <= Len(line)
  BY MessageFields, LenProperties DEF OnLine, SameTo
<1>2. \A k \in 1..Len(m.entries) : line[m.prev + k] = m.entries[k]
  BY DEF OnLine
<1>3. CASE \A k \in 1..Len(m.entries) : m.prev + k <= Len(lg) /\ lg[m.prev + k] = m.entries[k]
  <2>1. new = lg
    BY <1>3 DEF MergedLog
  <2>2. end <= Len(lg)
    <3>1. CASE Len(m.entries) = 0
      BY <1>1, <3>1
    <3>2. CASE Len(m.entries) # 0
      <4>1. Len(m.entries) \in 1..Len(m.entries)
        BY <1>1, <3>2
      <4> QED BY <1>3, <4>1
    <3> QED BY <3>1, <3>2
  <2>3. ASSUME NEW j \in 1..end PROVE lg[j] = line[j]
    <3>1. CASE j <= m.prev
      BY <1>1, <3>1 DEF SameTo
    <3>2. CASE j > m.prev
      <4>1. j - m.prev \in 1..Len(m.entries) /\ m.prev + (j - m.prev) = j
        BY <1>1, <3>2
      <4>2. /\ lg[m.prev + (j - m.prev)] = m.entries[j - m.prev]
            /\ line[m.prev + (j - m.prev)] = m.entries[j - m.prev]
        BY <1>2, <1>3, <4>1
      <4> QED BY <4>1, <4>2
    <3> QED BY <1>1, <3>1, <3>2
  <2>4. SameTo(new, line, end)
    BY <1>1, <2>1, <2>2, <2>3 DEF SameTo
  <2> HIDE DEF new, end
  <2>5. \A k \in Nat : SameTo(lg, line, k) => SameTo(new, line, k)
    BY <2>1
  <2> QED BY <1>1, <2>1, <2>4, <2>5 DEF new, end
<1>4. CASE ~\A k \in 1..Len(m.entries) : m.prev + k <= Len(lg) /\ lg[m.prev + k] = m.entries[k]
  <2> DEFINE cut == SubSeq(lg, 1, m.prev)
  <2>1. new = cut \o m.entries
    BY <1>4 DEF MergedLog
  <2>2. cut \in Seq(Entry) /\ Len(cut) = m.prev /\ SameTo(cut, lg, m.prev)
    BY <1>1, CutSame
  <2> HIDE DEF cut, new
  <2>3. /\ new \in Seq(Entry) /\ Len(new) = end
        /\ \A j \in 1..end : new[j] = IF j <= m.prev THEN cut[j] ELSE m.entries[j - m.prev]
    <3>1. /\ cut \o m.entries \in Seq(Entry)
          /\ Len(cut \o m.entries) = Len(cut) + Len(m.entries)
          /\ \A j \in 1..Len(cut) + Len(m.entries) :
               (cut \o m.entries)[j] = IF j <= Len(cut) THEN cut[j] ELSE m.entries[j - Len(cut)]
      BY <1>1, <2>2, ConcatProperties
    <3> QED BY <2>1, <2>2, <3>1
  <2>4. ASSUME NEW j \in 1..end PROVE new[j] = line[j]
    <3>1. CASE j <= m.prev
      <4>1. cut[j] = lg[j] /\ lg[j] = line[j]
        BY <1>1, <2>2, <3>1 DEF SameTo
      <4> QED BY <2>3, <3>1, <4>1
    <3>2. CASE j > m.prev
      <4>1. j - m.prev \in 1..Len(m.entries) /\ m.prev + (j - m.prev) = j
        BY <1>1, <3>2
      <4>2. line[m.prev + (j - m.prev)] = m.entries[j - m.prev]
        BY <1>2, <4>1
      <4> QED BY <1>1, <2>3, <3>2, <4>1, <4>2
    <3> QED BY <1>1, <3>1, <3>2
  <2>5. SameTo(new, line, end)
    BY <1>1, <2>3, <2>4 DEF SameTo
  <2>6. ASSUME NEW k \in Nat, SameTo(lg, line, k) PROVE k <= end
    <3>1. PICK i \in 1..Len(m.entries) :
            ~(m.prev + i <= Len(lg) /\ lg[m.prev + i] = m.entries[i])
      BY <1>4
    <3>2. line[m.prev + i] = m.entries[i] /\ m.prev + i \in Nat /\ m.prev + i <= end
          /\ 1 <= m.prev + i
      BY <1>1, <1>2
    <3>3. ~(m.prev + i <= k)
      BY <1>1, <2>6, <3>1, <3>2 DEF SameTo
    <3> QED BY <1>1, <3>2, <3>3
  <2>7. \A k \in Nat : SameTo(lg, line, k) => SameTo(new, line, k)
    BY <1>1, <2>3, <2>5, <2>6, SameFacts
  <2> QED BY <1>1, <2>3, <2>5, <2>7 DEF new
<1> QED BY <1>3, <1>4

\* Whoever answers a request in its term is no leader of it afterwards.
LEMMA FollowStays ==
  ASSUME TypeOK, ElectionInv, NEW n \in Node, NEW m \in msgs, m.to = n,
         m.type = "AppendEntries", m.term >= currentTerm[n], FollowLeader(n, m)
  PROVE  /\ \A l \in Node : Stays(l)
         /\ role'[n] # "Leader" /\ currentTerm'[n] = m.term
         /\ \A l \in Node : l # n => currentTerm'[l] = currentTerm[l] /\ role'[l] = role[l]
<1>1. /\ m.term \in Nat /\ currentTerm[n] \in Nat /\ m.from # n /\ m.from \in Node
  BY MessageFields, TermIsNat DEF TypeOK, ElectionInv, NoSelfMessage
<1>2. ASSUME role[n] = "Leader" PROVE m.term # currentTerm[n]
  <2>1. ASSUME m.term = currentTerm[n] PROVE FALSE
    <3>1. <<m.from, currentTerm[n]>> \in Leads
      BY <2>1 DEF Leads
    <3> QED BY <1>1, <1>2, <3>1, LeaderKnown
  <2> QED BY <2>1
<1>3. CASE BecomeFollower(n, m.term, m.from)
  <2>1. /\ \A l \in Node : l # n => currentTerm'[l] = currentTerm[l] /\ role'[l] = role[l]
        /\ currentTerm'[n] = m.term /\ role'[n] = "Follower"
    BY <1>3 DEF BecomeFollower, TypeOK
  <2>2. Stays(n)
    BY <1>1, <1>2, <2>1 DEF Stays
  <2> QED BY <2>1, <2>2 DEF Stays
<1>4. CASE /\ UNCHANGED <<currentTerm, votedFor, role, votesReceived>>
           /\ role[n] = "Follower" /\ ~(m.term > currentTerm[n])
  BY <1>1, <1>4 DEF Stays
<1> QED BY <1>3, <1>4 DEF FollowLeader

\* The log a follower is left with is a beginning of its own or of a line.
LEMMA LineFollow ==
  ASSUME TypeOK, TypeOK', ElectionInv, LeadersStay, NEW G \in Lines, LineInv(G), NEW n \in Node, NEW m \in msgs, m.to = n,
         m.type = "AppendEntries", m.term >= currentTerm[n], FollowLeader(n, m),
         NEW a, a.type # "AppendEntries", msgs' = msgs \cup {a},
         NEW lg \in Seq(Entry), log' = [log EXCEPT ![n] = lg],
         SameTo(lg, log[n], Len(lg)) \/ SameTo(lg, G[m.term], Len(lg))
  PROVE  LineKept(G)
<1>1. PICK R : R = {a}
  OBVIOUS
<1>2. msgs' = msgs \cup R /\ \A r \in R : r.type # "AppendEntries"
  BY <1>1
<1>3. Leads' = Leads
  BY <1>2, AnswerCarriesNothing
<1>4. /\ \A l \in Node : Stays(l)
      /\ role'[n] # "Leader" /\ currentTerm'[n] = m.term
  BY FollowStays
<1>5. LeadersStay'
  BY <1>3, <1>4, LeadersStayStep
<1>7. \A v \in Node : log'[v] = IF v = n THEN lg ELSE log[v]
  BY DEF TypeOK
<1>8. ASSUME NEW v \in Node
      PROVE  \/ SameTo(log'[v], log[v], Len(log'[v]))
             \/ \E t \in Term : t <= currentTerm'[v] /\ SameTo(log'[v], G[t], Len(log'[v]))
  <2>1. CASE v = n
    <3>1. m.term \in Term /\ m.term <= currentTerm'[n]
      <4>1. m \in Message
        BY DEF TypeOK
      <4> QED BY <1>4, <4>1, MessageFields, TermIsNat
    <3> QED BY <1>7, <2>1, <3>1
  <2>2. CASE v # n
    BY <1>7, <2>2, SameSelf DEF TypeOK
  <2> QED BY <2>1, <2>2
<1>9. LineInv(G)'
  BY <1>2, <1>4, <1>7, <1>8, LineStill
<1> QED BY <1>5, <1>9 DEF LineKept, Succeeds

\* What the four answers of handle_append_entries leave of the log of a node,
\* whatever the lines are.
LEMMA FollowedLog ==
  ASSUME TypeOK, NEW n \in Node, NEW m \in msgs, HandleAppendEntries(n, m),
         NEW G \in Lines, LineInv(G)
  PROVE  /\ log'[n] \in Seq(Entry)
         /\ SameTo(log'[n], log[n], Len(log'[n])) \/ SameTo(log'[n], G[m.term], Len(log'[n]))
         /\ \A k \in Nat : SameTo(log[n], G[m.term], k) => SameTo(log'[n], G[m.term], k)
<1>1. /\ m \in Message /\ m.type = "AppendEntries" /\ m.term \in Term /\ m.prev \in Nat
      /\ log[n] \in Seq(Entry) /\ Len(log[n]) \in Nat /\ G[m.term] \in Seq(Entry)
  BY MessageFields, LenProperties DEF TypeOK, HandleAppendEntries, Lines
<1>2. Lined(log[n], G) /\ Lined(G[m.term], G) /\ OnLine(m, G[m.term])
  BY <1>1 DEF LineInv, Requests
<1>3. CASE UNCHANGED log
  BY <1>1, <1>3, SameSelf
<1>4. CASE /\ m.prev \in 1..Len(log[n])
           /\ log[n][m.prev].term # m.prevTerm
           /\ log' = [log EXCEPT ![n] = SubSeq(@, 1, m.prev - 1)]
  <2> DEFINE lg == SubSeq(log[n], 1, m.prev - 1)
  <2>1. log'[n] = lg
    BY <1>4 DEF TypeOK
  <2>2. /\ lg \in Seq(Entry) /\ Len(lg) = m.prev - 1 /\ SameTo(lg, log[n], m.prev - 1)
        /\ m.prev - 1 \in Nat
    BY <1>1, <1>4, CutSame
  <2> HIDE DEF lg
  <2>3. ASSUME NEW k \in Nat, SameTo(log[n], G[m.term], k) PROVE SameTo(lg, G[m.term], k)
    <3>1. k <= m.prev - 1
      BY <1>1, <1>2, <1>4, <2>3, FailedCheck, SMTT(20)
    <3>2. SameTo(lg, log[n], k)
      BY <1>1, <2>2, <3>1, SameFacts
    <3> QED BY <1>1, <2>2, <2>3, <3>2, SameTransitive
  <2> QED BY <2>1, <2>2, <2>3
<1>5. CASE /\ m.prev <= Len(log[n])
           /\ m.prev > 0 => log[n][m.prev].term = m.prevTerm
           /\ log' = [log EXCEPT ![n] = MergedLog(log[n], m.prev, m.entries)]
  <2> DEFINE lg == MergedLog(log[n], m.prev, m.entries)
  <2>1. log'[n] = lg
    BY <1>5 DEF TypeOK
  <2>2. SameTo(log[n], G[m.term], m.prev)
    BY <1>1, <1>2, <1>5, CheckedBeginning
  <2>3. /\ lg \in Seq(Entry) /\ SameTo(lg, G[m.term], m.prev + Len(m.entries))
        /\ lg = log[n] \/ Len(lg) = m.prev + Len(m.entries)
        /\ \A k \in Nat : SameTo(log[n], G[m.term], k) => SameTo(lg, G[m.term], k)
    BY <1>1, <1>2, <2>2, MergedFacts
  <2> HIDE DEF lg
  <2> QED BY <1>1, <2>1, <2>3, SameSelf
<1> QED BY <1>3, <1>4, <1>5 DEF HandleAppendEntries

LEMMA LogHandleAppendEntries ==
  ASSUME TypeOK, TypeOK', ElectionInv, LeadersStay, NEW G \in Lines, LineInv(G), NEW n \in Node, NEW m \in msgs, m.to = n,
         HandleAppendEntries(n, m)
  PROVE  LineKept(G)
<1>1. \A t, ok, k : AppendAnswer(n, m, t, ok, k).type # "AppendEntries"
  BY DEF AppendAnswer
<1>2. PICK a : a.type # "AppendEntries" /\ msgs' = msgs \cup {a}
  <2>1. PICK t, ok, k : msgs' = msgs \cup {AppendAnswer(n, m, t, ok, k)}
    BY ZenonT(40) DEF HandleAppendEntries, Send
  <2> QED BY <1>1, <2>1
<1>3. CASE UNCHANGED <<currentTerm, role, log>>
  <2>1. PICK R : R = {a}
    OBVIOUS
  <2>2. msgs' = msgs \cup R /\ \A r \in R : r.type # "AppendEntries"
    BY <1>2, <2>1
  <2> QED BY <1>3, <2>2, AnswerCarriesNothing, LineSend
<1>4. CASE m.term >= currentTerm[n] /\ FollowLeader(n, m)
  <2>1. m.type = "AppendEntries"
    BY DEF HandleAppendEntries
  <2>2. log' = [log EXCEPT ![n] = log'[n]]
    BY DEF HandleAppendEntries, TypeOK
  <2>3. PICK lg : lg = log'[n]
    OBVIOUS
  <2>4. /\ lg \in Seq(Entry) /\ log' = [log EXCEPT ![n] = lg]
        /\ SameTo(lg, log[n], Len(lg)) \/ SameTo(lg, G[m.term], Len(lg))
    BY <2>2, <2>3, FollowedLog DEF TypeOK
  <2> QED BY <1>2, <1>4, <2>1, <2>4, LineFollow
<1> QED BY <1>3, <1>4 DEF HandleAppendEntries, electionVars

\* A response makes a leader leave its term, is counted, or is answered with a
\* request from one entry earlier.
LEMMA LogHandleAppendResponse ==
  ASSUME TypeOK, TypeOK', ElectionInv, LeadersStay, NEW G \in Lines, LineInv(G), NEW n \in Node, NEW m \in msgs,
         HandleAppendResponse(n, m)
  PROVE  LineKept(G)
<1>1. m.term \in Term /\ m.from \in Node /\ UNCHANGED log
  BY MessageFields DEF TypeOK, HandleAppendResponse
<1>2. CASE m.term > currentTerm[n] /\ BecomeFollower(n, m.term, Nil) /\ UNCHANGED msgs
  BY <1>1, <1>2, LineStepDown
<1>3. CASE UNCHANGED <<currentTerm, role, msgs>>
  BY <1>1, <1>3, LineQuiet
<1>4. CASE LET retry == Larger(nextIndex[n][m.from] - 1, 1)
           IN  /\ role[n] = "Leader" /\ ~RequestPanics(log[n], retry)
               /\ Send({AppendRequest(n, m.from, log[n], retry)})
               /\ UNCHANGED electionVars
  <2> DEFINE retry == Larger(nextIndex[n][m.from] - 1, 1)
  <2>1. PICK r : r = AppendRequest(n, m.from, log[n], retry)
    OBVIOUS
  <2>2. PICK R : R = {r}
    OBVIOUS
  <2>3. msgs' = msgs \cup R /\ UNCHANGED <<currentTerm, role>>
    BY <1>4, <2>1, <2>2 DEF Send, electionVars
  <2>4. retry \in Nat \ {0} /\ log[n] \in Seq(Entry) /\ ~RequestPanics(log[n], retry)
    <3>1. nextIndex[n][m.from] \in Nat \ {0} /\ log[n] \in Seq(Entry)
      BY <1>1 DEF TypeOK
    <3> QED BY <1>4, <3>1 DEF Larger
  <2> HIDE DEF retry
  <2>5. OnLine(r, log[n])
    BY <1>1, <2>1, <2>4, RequestOnLine
  <2>6. r.term = currentTerm[n] /\ r.from = n /\ r.type = "AppendEntries"
    BY <2>1 DEF AppendRequest
  <2>7. Leads' = Leads
    <3>1. <<n, currentTerm[n]>> \in Leads
      BY <1>4, LeaderKnown
    <3>2. \A x \in R : x.type = "AppendEntries" => <<x.from, x.term>> \in Leads
      BY <2>2, <2>6, <3>1
    <3> QED BY <2>3, <3>2, LeadsOfUnion
  <2>8. \A x \in R : x.type = "AppendEntries" => OnLine(x, G[x.term])
    BY <1>4, <2>2, <2>5, <2>6 DEF LineInv
  <2> QED BY <1>1, <2>3, <2>7, <2>8, LineSend
<1>5. CASE Panic(n)
  BY <1>5, LineQuiet DEF Panic, electionVars, logVars
<1> QED BY <1>2, <1>3, <1>4, <1>5 DEF HandleAppendResponse, electionVars

-----------------------------------------------------------------------------
\* The lines are empty at the start.
LEMMA LogInit == Init => LogInv
<1> SUFFICES ASSUME Init PROVE LogInv
  OBVIOUS
<1>1. Leads = {} /\ Requests = {} /\ \A n \in Node : log[n] = <<>> /\ role[n] = "Follower"
  BY DEF Init, Leads, Requests
<1>2. PICK G : G = [t \in Term |-> <<>>]
  OBVIOUS
<1>3. G \in Lines /\ \A t \in Term : G[t] = <<>>
  BY <1>2, EmptySeq DEF Lines
<1>4. 1..Len(<<>>) = {}
  OBVIOUS
<1>5. LineInv(G)
  BY <1>1, <1>3, <1>4 DEF LineInv, Lined, Rising
<1>6. LeadersStay
  BY <1>1 DEF LeadersStay
<1> QED BY <1>3, <1>5, <1>6 DEF LogInv

\* After every step there are lines again.
LEMMA LogNext ==
  ASSUME TypeOK, TypeOK', ElectionInv, ElectionInv', LeadersStay, NEW G \in Lines, LineInv(G), [Next]_vars PROVE LineKept(G)
<1>1. CASE UNCHANGED vars
  BY <1>1, LineQuiet DEF vars, electionVars, logVars
<1>2. ASSUME NEW n \in Node \ panicked, NodeStep(n) PROVE LineKept(G)
  <2>1. CASE StartElection(n)
    BY <2>1, LogStartElection
  <2>2. CASE Heartbeat(n)
    BY <2>2, LogHeartbeat
  <2>3. ASSUME NEW c \in Command, Propose(n, c) PROVE LineKept(G)
    BY <2>3, LogPropose
  <2>4. CASE TakeCommitted(n)
    BY <2>4, LogTakeCommitted
  <2>5. ASSUME NEW m \in msgs, Receive(n, m) PROVE LineKept(G)
    BY <2>5, LogHandleRequestVote, LogHandleVoteResponse,
       LogHandleAppendEntries, LogHandleAppendResponse DEF Receive
  <2> QED BY <1>2, <2>1, <2>2, <2>3, <2>4, <2>5 DEF NodeStep
<1> QED BY <1>1, <1>2 DEF Next

\* Two logs meet on the line of the term they have at the index.
LEMMA LogInvImpliesMatching == TypeOK /\ LogInv => LogMatching
<1> SUFFICES ASSUME TypeOK, LogInv, NEW a \in Node, NEW b \in Node,
                    NEW i \in 1..Smaller(Len(log[a]), Len(log[b])),
                    log[a][i].term = log[b][i].term
             PROVE  SubSeq(log[a], 1, i) = SubSeq(log[b], 1, i)
  BY DEF LogMatching
<1>1. /\ log[a] \in Seq(Entry) /\ log[b] \in Seq(Entry)
      /\ Len(log[a]) \in Nat /\ Len(log[b]) \in Nat
  BY LenProperties DEF TypeOK
<1>2. i \in Nat /\ i \in 1..Len(log[a]) /\ i \in 1..Len(log[b])
  BY <1>1 DEF Smaller
<1>3. PICK G \in Lines : LineInv(G)
  BY DEF LogInv
<1>4. SameTo(log[a], log[b], i)
  BY <1>1, <1>2, <1>3, LinesMeet DEF LineInv
<1>5. /\ SubSeq(log[a], 1, i) \in Seq(Entry) /\ Len(SubSeq(log[a], 1, i)) = i
      /\ SameTo(SubSeq(log[a], 1, i), log[a], i)
  BY <1>1, <1>2, CutSame
<1>6. /\ SubSeq(log[b], 1, i) \in Seq(Entry) /\ Len(SubSeq(log[b], 1, i)) = i
      /\ SameTo(SubSeq(log[b], 1, i), log[b], i)
  BY <1>1, <1>2, CutSame
<1>7. SameTo(SubSeq(log[a], 1, i), SubSeq(log[b], 1, i), i)
  BY <1>1, <1>2, <1>4, <1>5, <1>6, SameFacts, SameTransitive
<1> QED BY <1>5, <1>6, <1>7, SameWhole

\* Whatever is lost, repeated or comes late, two logs that have one term at an
\* index are the same up to it: no sequence of stale requests gets past the
\* check of handle_append_entries.
THEOREM LogsMatch == Spec => []LogMatching
<1>1. Spec => []TypeOK
  BY TypeCorrect
<1>2. TypeOK /\ ElectionInv /\ [Next]_vars => ElectionInv'
  BY ElectionNext
<1>3. TypeOK /\ TypeOK' /\ ElectionInv /\ ElectionInv' /\ LogInv /\ [Next]_vars => LogInv'
  BY LogNext DEF LogInv, LineKept
<1> QED BY <1>1, <1>2, <1>3, ElectionInit, LogInit, LogInvImpliesMatching, PTL DEF Spec

\* The one action that changes a leader's log is propose, which pushes: a
\* request would have to come from another leader of the term, and makes the
\* node a follower.
LEMMA LeaderLogNext ==
  ASSUME TypeOK, ElectionInv, [Next]_vars, NEW l \in Node,
         role[l] = "Leader", role'[l] = "Leader"
  PROVE  \/ log'[l] = log[l]
         \/ \E e \in Entry : e.term = currentTerm[l] /\ log'[l] = Append(log[l], e)
<1>1. CASE UNCHANGED vars
  BY <1>1 DEF vars, logVars
<1>2. ASSUME NEW n \in Node \ panicked, NodeStep(n)
      PROVE  \/ log'[l] = log[l]
             \/ \E e \in Entry : e.term = currentTerm[l] /\ log'[l] = Append(log[l], e)
  <2>1. CASE StartElection(n) \/ Heartbeat(n) \/ TakeCommitted(n)
    BY <2>1 DEF StartElection, Heartbeat, TakeCommitted, Panic, logVars
  <2>2. ASSUME NEW c \in Command, Propose(n, c)
        PROVE  \/ log'[l] = log[l]
               \/ \E e \in Entry : e.term = currentTerm[l] /\ log'[l] = Append(log[l], e)
    <3> DEFINE e == [term |-> currentTerm[n], command |-> c]
    <3>1. e \in Entry /\ e.term = currentTerm[n]
      BY DEF Entry, TypeOK
    <3>2. log' = log \/ log' = [log EXCEPT ![n] = Append(log[n], e)]
      BY <2>2 DEF Propose, Panic, logVars
    <3> HIDE DEF e
    <3> QED BY <3>1, <3>2 DEF TypeOK
  <2>3. ASSUME NEW m \in msgs, m.to = n, HandleAppendEntries(n, m)
        PROVE  log'[l] = log[l]
    <3>1. CASE m.term >= currentTerm[n] /\ FollowLeader(n, m)
      <4>1. l # n
        BY <2>3, <3>1, FollowStays DEF HandleAppendEntries
      <4> QED BY <2>3, <4>1 DEF HandleAppendEntries, TypeOK
    <3>2. CASE log' = log
      BY <3>2
    <3> QED BY <2>3, <3>1, <3>2 DEF HandleAppendEntries
  <2>4. ASSUME NEW m \in msgs,
               HandleRequestVote(n, m) \/ HandleVoteResponse(n, m) \/ HandleAppendResponse(n, m)
        PROVE  log'[l] = log[l]
    BY <2>4 DEF HandleRequestVote, HandleVoteResponse, HandleAppendResponse, logVars
  <2> QED BY <1>2, <2>1, <2>2, <2>3, <2>4 DEF NodeStep, Receive
<1> QED BY <1>1, <1>2 DEF Next

\* No message of any leader, past or present, takes an entry from the log of a
\* node that goes on leading.
THEOREM LeadersKeepTheirLogs == Spec => LeaderAppendOnly
<1> DEFINE Grows == \A n \in Node :
             role[n] = "Leader" /\ role'[n] = "Leader"
             => /\ Len(log'[n]) >= Len(log[n])
                /\ SubSeq(log'[n], 1, Len(log[n])) = log[n]
<1>1. TypeOK /\ TypeOK' /\ ElectionInv /\ [Next]_vars => Grows
  <2> SUFFICES ASSUME TypeOK, TypeOK', ElectionInv, [Next]_vars, NEW n \in Node,
                      role[n] = "Leader", role'[n] = "Leader"
               PROVE  /\ Len(log'[n]) >= Len(log[n])
                      /\ SubSeq(log'[n], 1, Len(log[n])) = log[n]
    OBVIOUS
  <2>1. log[n] \in Seq(Entry) /\ log'[n] \in Seq(Entry) /\ Len(log[n]) \in Nat
    BY LenProperties DEF TypeOK
  <2>2. /\ Len(log'[n]) >= Len(log[n])
        /\ \A i \in 1..Len(log[n]) : log'[n][i] = log[n][i]
    <3>1. CASE log'[n] = log[n]
      BY <2>1, <3>1
    <3>2. ASSUME NEW e \in Entry, log'[n] = Append(log[n], e)
          PROVE  /\ Len(log'[n]) >= Len(log[n])
                 /\ \A i \in 1..Len(log[n]) : log'[n][i] = log[n][i]
      BY <2>1, <3>2, AppendProperties
    <3> QED BY <3>1, <3>2, LeaderLogNext
  <2>3. /\ SubSeq(log'[n], 1, Len(log[n])) \in Seq(Entry)
        /\ Len(SubSeq(log'[n], 1, Len(log[n]))) = Len(log[n])
        /\ \A i \in 1..Len(log[n]) : SubSeq(log'[n], 1, Len(log[n]))[i] = log'[n][i]
    BY <2>1, <2>2, CutSame DEF SameTo
  <2>4. \A i \in 1..Len(log[n]) : SubSeq(log'[n], 1, Len(log[n]))[i] = log[n][i]
    BY <2>2, <2>3
  <2>5. SubSeq(log'[n], 1, Len(log[n])) = log[n]
    BY <2>1, <2>3, <2>4, SeqEqual
  <2> QED BY <2>2, <2>5
<1>2. Spec => []TypeOK
  BY TypeCorrect
<1>3. TypeOK /\ ElectionInv /\ [Next]_vars => ElectionInv'
  BY ElectionNext
<1>4. Grows => [Grows]_vars
  OBVIOUS
<1> QED BY <1>1, <1>2, <1>3, <1>4, ElectionInit, PTL DEF Spec, LeaderAppendOnly


-----------------------------------------------------------------------------
(***************************************************************************)
(* Why the application states agree.  An entry is named by its index i and *)
(* its term t: up to it every log that holds it is the line of t.  A node  *)
(* has stored it if it has answered for it in t, or led t.  An entry a     *)
(* majority has stored is chosen, and is on every later line: whoever was  *)
(* elected later had the vote of a node that had stored it.                *)
(***************************************************************************)
HoldsAt(lg, i, t) == i \in 1..Len(lg) /\ lg[i].term = t

Acks == {m \in msgs : m.type = "AppendResponse" /\ m.success}

Acked(v, i, t) == \E a \in Acks : a.from = v /\ a.term = t /\ i <= a.match

Stores(G, v, i, t) == HoldsAt(G[t], i, t) /\ (Acked(v, i, t) \/ <<v, t>> \in Leads)

Chosen(G, i, t) == \E Q \in SUBSET Node : IsMajority(Q) /\ \A v \in Q : Stores(G, v, i, t)

\* Some leader elected after t, in k at the latest, does not have the entry.
LeftOut(G, i, t, k) ==
  \E u \in Term : t < u /\ u <= k /\ Announced(u) /\ ~HoldsAt(G[u], i, t)

\* The log a candidate tells of is as up to date as one that ends in the entry.
Reaches(r, i, t) == r.lastTerm > t \/ (r.lastTerm = t /\ r.lastIndex >= i)

\* The first c entries of a log are chosen, by leaders of term u at the latest.
SafeTo(G, lg, c, u) ==
  c = 0 \/ \E t \in Term, i \in Nat :
             Chosen(G, i, t) /\ t <= u /\ c <= i /\ SameTo(lg, G[t], c)

-----------------------------------------------------------------------------
\* A success answers for entries the line of the term has.
AcksKnown(G) == \A a \in Acks : a.match <= Len(G[a.term]) /\ a.term <= currentTerm[a.from]

\* A node gives up an entry it has stored for a leader that does not have it.
StoredKept(G) ==
  \A v \in Node, t \in Term, i \in Nat :
    Stores(G, v, i, t) => HoldsAt(log[v], i, t) \/ LeftOut(G, i, t, currentTerm[v])

\* A vote goes to a log that reaches whatever its giver has stored.
VotersInformed(G) ==
  \A m \in msgs : m.type = "VoteResponse" /\ m.granted =>
    \E r \in msgs :
      /\ r.type = "RequestVote" /\ r.from = m.to /\ r.term = m.term
      /\ \A t \in Term, i \in Nat :
           t < m.term /\ Stores(G, m.from, i, t) =>
             Reaches(r, i, t) \/ LeftOut(G, i, t, m.term)

\* A candidate's log is still the one it told of.
CandidateLog ==
  \A r \in msgs : r.type = "RequestVote" /\ role[r.from] = "Candidate"
                  /\ r.term = currentTerm[r.from] =>
    r.lastIndex = Len(log[r.from]) /\ r.lastTerm = LastTerm(log[r.from])

\* The line of u has what the majority that elected its leader had stored.
LeaderInformed(G, u) ==
  \E V \in SUBSET Node :
    /\ IsMajority(V)
    /\ \A v \in V :
         /\ u <= currentTerm[v]
         /\ \A t \in Term, i \in Nat :
              t < u /\ Stores(G, v, i, t) => HoldsAt(G[u], i, t) \/ LeftOut(G, i, t, u - 1)

LeadersInformed(G) == \A u \in Term : Announced(u) => LeaderInformed(G, u)

\* What a leader knows of its peers: next_index does not overrun its log, and
\* match_index has been answered for.  Its own match_index is its length at its
\* election, so it is not counted twice for an entry of its term.
IndexesKnown ==
  \A n \in Node : role[n] = "Leader" =>
    /\ \A p \in Node \ {n} :
         /\ nextIndex[n][p] <= Len(log[n]) + 1
         /\ matchIndex[n][p] = 0 \/ Acked(p, matchIndex[n][p], currentTerm[n])
    /\ matchIndex[n][n] <= Len(log[n])
    /\ \A i \in 1..Len(log[n]) : log[n][i].term = currentTerm[n] => matchIndex[n][n] < i

CommitsChosen(G) == \A n \in Node : SafeTo(G, log[n], commitIndex[n], currentTerm[n])

RequestsChosen(G) == \A m \in Requests : SafeTo(G, G[m.term], m.commit, m.term)

AppliedChosen(G) == \A n \in Node : SafeTo(G, applied[n], Len(applied[n]), currentTerm[n])

SafeInv(G) ==
  /\ AcksKnown(G)
  /\ StoredKept(G)
  /\ VotersInformed(G)
  /\ CandidateLog
  /\ LeadersInformed(G)
  /\ IndexesKnown
  /\ CommitsChosen(G)
  /\ RequestsChosen(G)
  /\ AppliedChosen(G)
  /\ NoPanic

-----------------------------------------------------------------------------
(***************************************************************************)
(* What is chosen stays on the lines.                                      *)
(***************************************************************************)

LEMMA HoldsSame ==
  ASSUME NEW a \in Seq(Entry), NEW b \in Seq(Entry), NEW k \in Nat, SameTo(a, b, k),
         NEW i \in Nat, i <= k, NEW t
  PROVE  HoldsAt(a, i, t) <=> HoldsAt(b, i, t)
BY LenProperties DEF HoldsAt, SameTo

\* Two lined logs that hold an entry are the same up to it.
LEMMA HoldsMeet ==
  ASSUME NEW G \in Lines, NEW a \in Seq(Entry), NEW b \in Seq(Entry), Lined(a, G), Lined(b, G),
         NEW i \in Nat, NEW t, HoldsAt(a, i, t), HoldsAt(b, i, t)
  PROVE  SameTo(a, b, i)
BY LinesMeet DEF HoldsAt

\* A line is lined, rises and belongs to a leader.
LEMMA LineFacts ==
  ASSUME NEW G \in Lines, LineInv(G), NEW u \in Term
  PROVE  /\ G[u] \in Seq(Entry) /\ Len(G[u]) \in Nat /\ Lined(G[u], G) /\ Rising(G[u], u) /\ u \in Nat
         /\ \A i, t : HoldsAt(G[u], i, t) => Announced(u)
<1>1. G[u] \in Seq(Entry)
  BY DEF Lines
<1>2. ASSUME NEW i, NEW t, HoldsAt(G[u], i, t) PROVE G[u] # <<>>
  BY <1>2 DEF HoldsAt
<1> QED BY <1>1, <1>2, LenProperties, TermIsNat DEF LineInv

LEMMA ChosenHeld ==
  ASSUME NEW G, NEW i, NEW t, Chosen(G, i, t) PROVE HoldsAt(G[t], i, t)
<1>1. PICK Q \in SUBSET Node : IsMajority(Q) /\ \A v \in Q : Stores(G, v, i, t)
  BY DEF Chosen
<1>2. PICK v : v \in Q \cap Q
  BY <1>1, MajoritiesMeet
<1> QED BY <1>1, <1>2 DEF Stores

\* A chosen entry is on every later line: of the first leader that had left it
\* out, a voter would have stored it and known a log that reaches it.
LEMMA ChosenOnLines ==
  ASSUME NEW G \in Lines, LeadersInformed(G), NEW i \in Nat, NEW t \in Term, Chosen(G, i, t)
  PROVE  /\ \A u \in Term : t <= u /\ Announced(u) => HoldsAt(G[u], i, t)
         /\ \A k : ~LeftOut(G, i, t, k)
<1> DEFINE Out == {u \in Term : t < u /\ Announced(u) /\ ~HoldsAt(G[u], i, t)}
<1>1. ASSUME Out # {} PROVE FALSE
  <2>1. Out \subseteq Nat
    BY TermIsNat
  <2>2. PICK u \in Out : \A w \in Out : <<w, u>> \notin OpToRel(<, Nat)
    <3> HIDE DEF Out
    <3> QED BY <1>1, <2>1, NatLessThanWellFounded, WFMin, Zenon
  <2>3. u \in Term /\ u \in Nat /\ t \in Nat /\ t < u /\ Announced(u) /\ ~HoldsAt(G[u], i, t)
    BY <2>1, TermIsNat
  <2>4. \A w \in Out : ~(w < u)
    BY <2>1, <2>2 DEF OpToRel
  <2>5. ~LeftOut(G, i, t, u - 1)
    <3> SUFFICES ASSUME NEW w \in Term, t < w, w <= u - 1, Announced(w), ~HoldsAt(G[w], i, t)
                 PROVE  FALSE
      BY DEF LeftOut
    <3>1. w \in Out /\ w \in Nat
      BY TermIsNat
    <3> QED BY <2>3, <2>4, <3>1
  <2>6. PICK V \in SUBSET Node :
          /\ IsMajority(V)
          /\ \A v \in V : Stores(G, v, i, t) => HoldsAt(G[u], i, t) \/ LeftOut(G, i, t, u - 1)
    BY <2>3 DEF LeadersInformed, LeaderInformed
  <2>7. PICK Q \in SUBSET Node : IsMajority(Q) /\ \A v \in Q : Stores(G, v, i, t)
    BY DEF Chosen
  <2>8. PICK v : v \in V \cap Q
    BY <2>6, <2>7, MajoritiesMeet
  <2> QED BY <2>3, <2>5, <2>6, <2>7, <2>8
<1>2. \A u \in Term : t <= u /\ Announced(u) => HoldsAt(G[u], i, t)
  <2> SUFFICES ASSUME NEW u \in Term, t <= u, Announced(u) PROVE HoldsAt(G[u], i, t)
    OBVIOUS
  <2>1. CASE t = u
    BY <2>1, ChosenHeld
  <2>2. CASE t # u
    <3>1. u \notin Out
      BY <1>1
    <3> QED BY <2>2, <3>1, TermIsNat
  <2> QED BY <2>1, <2>2
<1>3. \A k : ~LeftOut(G, i, t, k)
  <2> SUFFICES ASSUME NEW k, NEW u \in Term, t < u, Announced(u), ~HoldsAt(G[u], i, t)
               PROVE  FALSE
    BY DEF LeftOut
  <2> QED BY <1>1
<1> QED BY <1>2, <1>3

\* What is safe in a log is on every line from the log's term on.
LEMMA SafeOnLine ==
  ASSUME NEW G \in Lines, LineInv(G), LeadersInformed(G), NEW lg \in Seq(Entry), NEW c \in Nat,
         NEW u \in Term, SafeTo(G, lg, c, u), NEW w \in Term, u <= w, Announced(w)
  PROVE  SameTo(lg, G[w], c)
<1>1. /\ G[w] \in Seq(Entry) /\ Lined(G[w], G) /\ Len(G[w]) \in Nat /\ Len(lg) \in Nat
      /\ u \in Nat /\ w \in Nat
  BY LineFacts, LenProperties, TermIsNat
<1>2. CASE c = 0
  BY <1>1, <1>2 DEF SameTo
<1>3. CASE c # 0
  <2>1. PICK t \in Term, i \in Nat : Chosen(G, i, t) /\ t <= u /\ c <= i /\ SameTo(lg, G[t], c)
    BY <1>3 DEF SafeTo
  <2>2. G[t] \in Seq(Entry) /\ Lined(G[t], G) /\ t \in Nat
    BY LineFacts
  <2>3. t <= w
    BY <1>1, <2>1, <2>2
  <2>4. HoldsAt(G[w], i, t) /\ HoldsAt(G[t], i, t)
    BY <2>1, <2>3, ChosenHeld, ChosenOnLines
  <2>5. SameTo(G[t], G[w], i)
    BY <1>1, <2>2, <2>4, HoldsMeet
  <2>6. SameTo(G[t], G[w], c)
    BY <1>1, <2>1, <2>2, <2>5, SameFacts
  <2> QED BY <1>1, <2>1, <2>2, <2>6, SameTransitive
<1> QED BY <1>2, <1>3

\* What is safe in two logs is the same in both.
LEMMA SafeMeet ==
  ASSUME NEW G \in Lines, LineInv(G), LeadersInformed(G),
         NEW a \in Seq(Entry), NEW b \in Seq(Entry), NEW c \in Nat, NEW d \in Nat, c <= d,
         NEW u \in Term, NEW w \in Term, SafeTo(G, a, c, u), SafeTo(G, b, d, w)
  PROVE  SameTo(a, b, c)
<1>1. Len(a) \in Nat /\ Len(b) \in Nat /\ u \in Nat /\ w \in Nat
  BY LenProperties, TermIsNat
<1>2. CASE c = 0
  BY <1>1, <1>2 DEF SameTo
<1>3. CASE c # 0
  <2>1. PICK t \in Term, i \in Nat : Chosen(G, i, t) /\ t <= u /\ c <= i /\ SameTo(a, G[t], c)
    BY <1>3 DEF SafeTo
  <2>2. d # 0
    BY <1>3
  <2>3. PICK x \in Term, j \in Nat : Chosen(G, j, x) /\ x <= w /\ d <= j /\ SameTo(b, G[x], d)
    BY <2>2 DEF SafeTo
  <2>4. /\ G[t] \in Seq(Entry) /\ Lined(G[t], G) /\ t \in Nat
        /\ G[x] \in Seq(Entry) /\ Lined(G[x], G) /\ x \in Nat
    BY LineFacts
  <2>5. HoldsAt(G[t], i, t) /\ HoldsAt(G[x], j, x) /\ Announced(t) /\ Announced(x)
    BY <2>1, <2>3, ChosenHeld, LineFacts
  <2>6. SameTo(G[t], G[x], c)
    <3>1. CASE t <= x
      <4>1. SameTo(G[t], G[x], i)
        BY <2>1, <2>4, <2>5, <3>1, ChosenOnLines, HoldsMeet
      <4> QED BY <2>1, <2>4, <4>1, SameFacts
    <3>2. CASE x <= t
      <4>1. SameTo(G[t], G[x], j)
        BY <2>3, <2>4, <2>5, <3>2, ChosenOnLines, HoldsMeet
      <4>2. c <= j
        BY <2>3
      <4> QED BY <2>4, <2>3, <4>1, <4>2, SameFacts
    <3> QED BY <2>4, <3>1, <3>2
  <2>7. SameTo(G[x], b, c)
    <3>1. SameTo(b, G[x], c)
      BY <2>3, <2>4, SameFacts
    <3> QED BY <2>4, <3>1, SameFacts
  <2>8. SameTo(a, G[x], c)
    BY <2>1, <2>4, <2>6, SameTransitive
  <2> QED BY <2>4, <2>7, <2>8, SameTransitive
<1> QED BY <1>2, <1>3

\* Another log with the same beginning is as safe, and so is less of it.
LEMMA SafeCopy ==
  ASSUME NEW G \in Lines, NEW a \in Seq(Entry), NEW b \in Seq(Entry), NEW c \in Nat, NEW d \in Nat,
         NEW u \in Term, NEW w \in Term, u <= w,
         SafeTo(G, a, c, u), d <= c, SameTo(b, a, d)
  PROVE  SafeTo(G, b, d, w)
<1>1. CASE d = 0
  BY <1>1 DEF SafeTo
<1>2. CASE d # 0
  <2>1. PICK t \in Term, i \in Nat : Chosen(G, i, t) /\ t <= u /\ c <= i /\ SameTo(a, G[t], c)
    BY <1>2 DEF SafeTo
  <2>2. G[t] \in Seq(Entry) /\ t \in Nat /\ u \in Nat /\ w \in Nat
    BY TermIsNat DEF Lines
  <2>3. SameTo(a, G[t], d)
    BY <2>1, <2>2, SameFacts
  <2>4. SameTo(b, G[t], d)
    BY <2>2, <2>3, SameTransitive
  <2>5. t <= w /\ d <= i
    BY <2>1, <2>2
  <2> QED BY <2>1, <2>4, <2>5 DEF SafeTo
<1> QED BY <1>1, <1>2

-----------------------------------------------------------------------------
(***************************************************************************)
(* What a step may do, read off the handlers.                              *)
(***************************************************************************)

\* n takes the entries of r: the last answer of handle_append_entries.
Accepts(n, r) ==
  /\ r \in Requests
  /\ r.prev <= Len(log[n])
  /\ r.prev > 0 => log[n][r.prev].term = r.prevTerm
  /\ log'[n] = MergedLog(log[n], r.prev, r.entries)
  /\ overstated' = (overstated \/ Len(log'[n]) > r.prev + Len(r.entries))

\* What a message says when it is sent.
Sent(m) ==
  /\ m.term = currentTerm'[m.from]
  /\ m.type = "RequestVote" =>
       m.lastIndex = Len(log'[m.from]) /\ m.lastTerm = LastTerm(log'[m.from])
  /\ m.type = "VoteResponse" /\ m.granted =>
       \E r \in msgs : /\ r.type = "RequestVote" /\ r.from = m.to /\ r.term = m.term
                       /\ LogIsUpToDate(r, log[m.from])
  /\ m.type = "AppendEntries" => role'[m.from] = "Leader" /\ m.commit = commitIndex'[m.from]
  /\ m.type = "AppendResponse" /\ m.success =>
       \E r : Accepts(m.from, r) /\ r.term = m.term /\ m.match = Len(log'[m.from])

Sends == msgs \subseteq msgs' /\ \A m \in msgs' \ msgs : Sent(m)

LEMMA SendsNothing == ASSUME UNCHANGED msgs PROVE Sends
BY DEF Sends

LEMMA SendsRequests ==
  ASSUME NEW n \in Node, NEW lg, NEW next, role'[n] = "Leader",
         commitIndex'[n] = commitIndex[n], currentTerm'[n] = currentTerm[n],
         msgs' = msgs \cup RequestsToAll(n, lg, next)
  PROVE  Sends
<1> SUFFICES ASSUME NEW p \in Node \ {n}, NEW m, m = AppendRequest(n, p, lg, next[p])
             PROVE  Sent(m)
  BY DEF Sends, RequestsToAll
<1>1. m.type = "AppendEntries" /\ m.from = n /\ m.term = currentTerm[n] /\ m.commit = commitIndex[n]
  BY DEF AppendRequest
<1> QED BY <1>1 DEF Sent

LEMMA SendsElection == ASSUME TypeOK, NEW n \in Node, StartElection(n) PROVE Sends
<1> SUFFICES ASSUME NEW p \in Node \ {n}, NEW m, m = VoteRequest(n, p, currentTerm[n] + 1)
             PROVE  Sent(m)
  BY DEF Sends, StartElection, Send
<1>1. /\ m.type = "RequestVote" /\ m.from = n /\ m.term = currentTerm[n] + 1
      /\ m.lastIndex = Len(log[n]) /\ m.lastTerm = LastTerm(log[n])
  BY DEF VoteRequest
<1>2. currentTerm'[n] = currentTerm[n] + 1 /\ log' = log
  BY DEF StartElection, TypeOK, logVars
<1> QED BY <1>1, <1>2 DEF Sent

LEMMA SendsVote ==
  ASSUME TypeOK, NEW n \in Node, NEW m \in msgs, m.to = n, HandleRequestVote(n, m) PROVE Sends
<1>1. ASSUME NEW t, NEW g, NEW a, a = VoteAnswer(n, m, t, g), msgs' = msgs \cup {a},
             t = currentTerm'[n], g => LogIsUpToDate(m, log[n]) /\ t = m.term
      PROVE  Sends
  <2>1. a.type = "VoteResponse" /\ a.from = n /\ a.to = m.from /\ a.term = t /\ a.granted = g
    BY <1>1 DEF VoteAnswer
  <2>2. Sent(a)
    BY <1>1, <2>1 DEF Sent, HandleRequestVote
  <2> QED BY <1>1, <2>2 DEF Sends
<1>2. CASE m.term < currentTerm[n] /\ Send({VoteAnswer(n, m, currentTerm[n], FALSE)})
           /\ UNCHANGED electionVars
  BY <1>1, <1>2 DEF Send, electionVars
<1>3. CASE /\ m.term = currentTerm[n] /\ UNCHANGED currentTerm
           /\ Send({VoteAnswer(n, m, m.term, CanVote(n, m) /\ LogIsUpToDate(m, log[n]))})
  BY <1>1, <1>3 DEF Send
<1>4. CASE /\ currentTerm' = [currentTerm EXCEPT ![n] = m.term]
           /\ Send({VoteAnswer(n, m, m.term, LogIsUpToDate(m, log[n]))})
  <2>1. currentTerm'[n] = m.term
    BY <1>4 DEF TypeOK
  <2> QED BY <1>1, <1>4, <2>1 DEF Send
<1> QED BY <1>2, <1>3, <1>4 DEF HandleRequestVote

LEMMA SendsAnswer ==
  ASSUME TypeOK, NEW n \in Node, NEW m \in msgs, m.to = n, HandleAppendEntries(n, m) PROVE Sends
<1>1. ASSUME NEW t, NEW ok, NEW k, NEW a, a = AppendAnswer(n, m, t, ok, k), msgs' = msgs \cup {a},
             t = currentTerm'[n], ok => Accepts(n, m) /\ m.term = t /\ k = Len(log'[n])
      PROVE  Sends
  <2>1. a.type = "AppendResponse" /\ a.from = n /\ a.term = t /\ a.success = ok /\ a.match = k
    BY <1>1 DEF AppendAnswer
  <2>2. Sent(a)
    BY <1>1, <2>1 DEF Sent
  <2> QED BY <1>1, <2>2 DEF Sends
<1>2. CASE UNCHANGED electionVars /\ Send({AppendAnswer(n, m, currentTerm[n], FALSE, 0)})
  BY <1>1, <1>2 DEF Send, electionVars
<1>3. ASSUME m.term >= currentTerm[n], FollowLeader(n, m) PROVE currentTerm'[n] = m.term
  <2>1. m.term \in Nat /\ currentTerm[n] \in Nat
    BY MessageFields, TermIsNat DEF TypeOK
  <2> QED BY <1>3, <2>1 DEF FollowLeader, BecomeFollower, TypeOK
<1>4. CASE m.term >= currentTerm[n] /\ FollowLeader(n, m) /\ Send({AppendAnswer(n, m, m.term, FALSE, 0)})
  BY <1>1, <1>3, <1>4 DEF Send
<1>5. CASE /\ m.term >= currentTerm[n] /\ FollowLeader(n, m)
           /\ m.prev <= Len(log[n])
           /\ m.prev > 0 => log[n][m.prev].term = m.prevTerm
           /\ LET newLog == MergedLog(log[n], m.prev, m.entries)
              IN  /\ log' = [log EXCEPT ![n] = newLog]
                  /\ Send({AppendAnswer(n, m, m.term, TRUE, Len(newLog))})
                  /\ overstated' = (overstated \/ Len(newLog) > m.prev + Len(m.entries))
  <2>1. log'[n] = MergedLog(log[n], m.prev, m.entries)
    BY <1>5 DEF TypeOK
  <2>2. Accepts(n, m)
    BY <1>5, <2>1 DEF Accepts, Requests, HandleAppendEntries
  <2> QED BY <1>1, <1>3, <1>5, <2>1, <2>2 DEF Send
<1> QED BY <1>2, <1>4, <1>5 DEF HandleAppendEntries

LEMMA SendsRetry ==
  ASSUME TypeOK, NEW n \in Node, NEW m \in msgs, m.to = n, HandleAppendResponse(n, m) PROVE Sends
<1>1. CASE UNCHANGED msgs
  BY <1>1, SendsNothing
<1>2. CASE /\ role[n] = "Leader" /\ UNCHANGED <<electionVars, commitIndex>>
           /\ \E p, next : Send({AppendRequest(n, p, log[n], next)})
  <2>1. PICK r : /\ \E p, next : r = AppendRequest(n, p, log[n], next)
                 /\ msgs' = msgs \cup {r}
    BY <1>2 DEF Send
  <2>2. r.type = "AppendEntries" /\ r.from = n /\ r.term = currentTerm[n] /\ r.commit = commitIndex[n]
    BY <2>1 DEF AppendRequest
  <2>3. Sent(r)
    BY <1>2, <2>2 DEF Sent, electionVars
  <2> QED BY <2>1, <2>3 DEF Sends
<1> QED BY <1>1, <1>2 DEF HandleAppendResponse, Panic

LEMMA SendsNext == ASSUME TypeOK, [Next]_vars PROVE Sends
<1>1. CASE UNCHANGED vars
  BY <1>1, SendsNothing DEF vars
<1>2. ASSUME NEW n \in Node \ panicked, NodeStep(n) PROVE Sends
  <2>1. CASE StartElection(n)
    BY <2>1, SendsElection
  <2>2. CASE Heartbeat(n) \/ \E c \in Command : Propose(n, c)
    <3>1. CASE UNCHANGED msgs
      BY <3>1, SendsNothing
    <3>2. CASE /\ role'[n] = "Leader" /\ commitIndex' = commitIndex /\ currentTerm' = currentTerm
               /\ \E lg, next : msgs' = msgs \cup RequestsToAll(n, lg, next)
      BY <3>2, SendsRequests
    <3> QED BY <2>2, <3>1, <3>2 DEF Heartbeat, Propose, Panic, Send, electionVars, logVars
  <2>3. CASE TakeCommitted(n)
    BY <2>3, SendsNothing DEF TakeCommitted, Panic
  <2>4. ASSUME NEW m \in msgs, Receive(n, m) PROVE Sends
    <3>1. CASE HandleVoteResponse(n, m)
      <4>1. CASE UNCHANGED msgs
        BY <4>1, SendsNothing
      <4>2. CASE BecomeLeader(n)
        <5>1. /\ role'[n] = "Leader" /\ currentTerm' = currentTerm /\ commitIndex' = commitIndex
              /\ \E next : msgs' = msgs \cup RequestsToAll(n, log[n], next)
          BY <3>1, <4>2 DEF BecomeLeader, HandleVoteResponse, Send, logVars, TypeOK
        <5> QED BY <5>1, SendsRequests
      <4> QED BY <3>1, <4>1, <4>2 DEF HandleVoteResponse
    <3> QED BY <2>4, <3>1, SendsVote, SendsAnswer, SendsRetry DEF Receive
  <2> QED BY <1>2, <2>1, <2>2, <2>3, <2>4 DEF NodeStep
<1> QED BY <1>1, <1>2 DEF Next

\* No node's term falls.
LEMMA TermsRise ==
  ASSUME TypeOK, TypeOK', [Next]_vars, NEW v \in Node
  PROVE  currentTerm[v] \in Nat /\ currentTerm'[v] \in Nat /\ currentTerm[v] <= currentTerm'[v]
<1>1. currentTerm[v] \in Nat /\ currentTerm'[v] \in Nat
  BY TermIsNat DEF TypeOK
<1> currentTerm \in [Node -> Term]
  BY DEF TypeOK
<1>2. ASSUME NEW n \in Node \ panicked, NodeStep(n) PROVE currentTerm[v] <= currentTerm'[v]
  <2>1. CASE StartElection(n)
    BY <1>1, <2>1 DEF StartElection
  <2>2. CASE UNCHANGED currentTerm
    BY <1>1, <2>2
  <2>3. ASSUME NEW m \in msgs, m.term >= currentTerm[n],
               currentTerm' = [currentTerm EXCEPT ![n] = m.term]
        PROVE  currentTerm[v] <= currentTerm'[v]
    BY <1>1, <2>3
  <2>4. ASSUME NEW m \in msgs, Receive(n, m) PROVE currentTerm[v] <= currentTerm'[v]
    <3>1. m.term \in Nat /\ currentTerm[n] \in Nat
      BY MessageFields, TermIsNat DEF TypeOK
    <3>2. CASE HandleRequestVote(n, m)
      BY <2>2, <2>3, <3>1, <3>2 DEF HandleRequestVote, electionVars
    <3>3. CASE HandleVoteResponse(n, m)
      BY <2>2, <2>3, <3>1, <3>3 DEF HandleVoteResponse, BecomeFollower, BecomeLeader
    <3>4. CASE HandleAppendEntries(n, m)
      BY <2>2, <2>3, <3>1, <3>4 DEF HandleAppendEntries, FollowLeader, BecomeFollower, electionVars
    <3>5. CASE HandleAppendResponse(n, m)
      BY <2>2, <2>3, <3>1, <3>5 DEF HandleAppendResponse, BecomeFollower, Panic, electionVars
    <3> QED BY <2>4, <3>2, <3>3, <3>4, <3>5 DEF Receive
  <2> QED BY <1>2, <2>1, <2>2, <2>4 DEF NodeStep, Heartbeat, Propose, TakeCommitted, Panic, electionVars
<1>3. CASE UNCHANGED vars
  BY <1>1, <1>3 DEF vars, electionVars
<1> QED BY <1>1, <1>2, <1>3 DEF Next

LEMMA OverstatedStays == ASSUME TypeOK, [Next]_vars, ~overstated' PROVE ~overstated
<1>1. CASE UNCHANGED overstated
  BY <1>1
<1>2. ASSUME NEW n, NEW m, HandleAppendEntries(n, m) PROVE ~overstated
  BY <1>2 DEF HandleAppendEntries
<1>3. ASSUME NEW n \in Node, NodeStep(n) PROVE ~overstated
  BY <1>1, <1>2, <1>3 DEF NodeStep, Receive, StartElection, Heartbeat, Propose, TakeCommitted,
     HandleRequestVote, HandleVoteResponse, HandleAppendResponse, Panic
<1> QED BY <1>1, <1>3 DEF Next, vars

\* A log that took a request it does not outgrow is a beginning of the line.
LEMMA AcceptedLog ==
  ASSUME TypeOK, NEW G \in Lines, LineInv(G), NEW n \in Node, NEW r, Accepts(n, r), ~overstated'
  PROVE  r.term \in Term /\ SameTo(log'[n], G[r.term], Len(log'[n]))
<1>1. /\ r \in Message /\ r.type = "AppendEntries" /\ r.term \in Term /\ r.prev \in Nat
      /\ log[n] \in Seq(Entry) /\ G[r.term] \in Seq(Entry) /\ Len(log'[n]) <= r.prev + Len(r.entries)
  <2>1. r \in Message /\ r.type = "AppendEntries"
    BY DEF TypeOK, Accepts, Requests
  <2>2. log'[n] \in Seq(Entry)
    BY <2>1, MessageFields, MergedLogType DEF Accepts, TypeOK
  <2>3. r.prev \in Nat /\ Len(r.entries) \in Nat /\ Len(log'[n]) \in Nat
    BY <2>1, <2>2, MessageFields, LenProperties
  <2>4. ~(Len(log'[n]) > r.prev + Len(r.entries))
    BY Zenon DEF Accepts
  <2> QED BY <2>1, <2>3, <2>4, MessageFields DEF TypeOK, Lines
<1>2. Lined(log[n], G) /\ Lined(G[r.term], G) /\ OnLine(r, G[r.term])
  BY <1>1 DEF LineInv, Accepts
<1>3. SameTo(log[n], G[r.term], r.prev)
  BY <1>1, <1>2, CheckedBeginning DEF Accepts
<1>4. /\ log'[n] \in Seq(Entry) /\ r.prev + Len(r.entries) \in Nat
      /\ SameTo(log'[n], G[r.term], r.prev + Len(r.entries))
  BY <1>1, <1>2, <1>3, MergedFacts DEF Accepts
<1>5. Len(log'[n]) = r.prev + Len(r.entries)
  BY <1>1, <1>4, LenProperties DEF SameTo
<1> QED BY <1>1, <1>4, <1>5

\* A log stays, gets an entry, or loses nothing of the line of a leader's term.
LogMoves(G, v) ==
  \/ log'[v] = log[v]
  \/ \E e \in Entry : log'[v] = Append(log[v], e)
  \/ \E m \in Requests :
       /\ currentTerm[v] <= m.term /\ currentTerm'[v] = m.term
       /\ \A k \in Nat : SameTo(log[v], G[m.term], k) => SameTo(log'[v], G[m.term], k)

LEMMA LogMovesNext ==
  ASSUME TypeOK, TypeOK', ElectionInv, [Next]_vars, NEW G \in Lines, LineInv(G), NEW v \in Node
  PROVE  LogMoves(G, v)
<1>1. CASE UNCHANGED log
  BY <1>1 DEF LogMoves
<1>2. ASSUME NEW n \in Node, NEW c \in Command, Propose(n, c) PROVE LogMoves(G, v)
  <2> DEFINE e == [term |-> currentTerm[n], command |-> c]
  <2>1. e \in Entry
    BY DEF Entry, TypeOK
  <2>2. log' = log \/ log' = [log EXCEPT ![n] = Append(log[n], e)]
    BY <1>2 DEF Propose, Panic, logVars
  <2> HIDE DEF e
  <2> QED BY <2>1, <2>2 DEF TypeOK, LogMoves
<1>3. ASSUME NEW n \in Node, NEW m \in msgs, m.to = n, HandleAppendEntries(n, m) PROVE LogMoves(G, v)
  <2>1. CASE m.term >= currentTerm[n] /\ FollowLeader(n, m)
    <3>1. m.type = "AppendEntries" /\ m.term \in Nat /\ currentTerm[n] \in Nat
      BY <1>3, MessageFields, TermIsNat DEF HandleAppendEntries, TypeOK
    <3>2. currentTerm'[n] = m.term
      BY <1>3, <2>1, <3>1, FollowStays
    <3>3. CASE v = n
      BY <1>3, <2>1, <3>1, <3>2, <3>3, FollowedLog DEF LogMoves, Requests
    <3>4. CASE v # n
      BY <1>3, <3>4 DEF HandleAppendEntries, TypeOK, LogMoves
    <3> QED BY <3>3, <3>4
  <2>2. CASE UNCHANGED log
    BY <2>2 DEF LogMoves
  <2> QED BY <1>3, <2>1, <2>2 DEF HandleAppendEntries
<1>4. ASSUME NEW n \in Node, NodeStep(n) PROVE LogMoves(G, v)
  BY <1>1, <1>2, <1>3, <1>4 DEF NodeStep, Receive, StartElection, Heartbeat, TakeCommitted,
     HandleRequestVote, HandleVoteResponse, HandleAppendResponse, Panic, logVars
<1> QED BY <1>1, <1>4 DEF Next, vars, logVars

\* A candidate has just started its election or was one before.
CandidateGoesOn(n) ==
  role[n] = "Candidate" /\ currentTerm'[n] = currentTerm[n] /\ log'[n] = log[n]

LEMMA CandidateNext ==
  ASSUME TypeOK, TypeOK', [Next]_vars, NEW c \in Node, role'[c] = "Candidate"
  PROVE  currentTerm'[c] > currentTerm[c] \/ CandidateGoesOn(c)
<1> role \in [Node -> Role] /\ currentTerm \in [Node -> Term] /\ log \in [Node -> Seq(Entry)]
    /\ currentTerm[c] \in Nat
  BY TermIsNat DEF TypeOK
<1> USE DEF CandidateGoesOn
<1>1. CASE UNCHANGED <<role, currentTerm, log>>
  BY <1>1
<1>2. ASSUME NEW n \in Node, NodeStep(n)
      PROVE  currentTerm'[c] > currentTerm[c] \/ CandidateGoesOn(c)
  <2>1. CASE StartElection(n)
    BY <2>1 DEF StartElection, logVars
  <2>2. ASSUME NEW x \in Command, Propose(n, x) PROVE CandidateGoesOn(c)
    <3>1. role[n] = "Leader" /\ UNCHANGED <<role, currentTerm>>
          /\ (log' = log \/ \E lg : log' = [log EXCEPT ![n] = lg])
      BY <2>2 DEF Propose, Panic, electionVars, logVars
    <3> QED BY <3>1
  <2>3. ASSUME NEW m \in msgs, Receive(n, m)
        PROVE  currentTerm'[c] > currentTerm[c] \/ CandidateGoesOn(c)
    <3>1. CASE UNCHANGED log /\ role' = [role EXCEPT ![n] = "Follower"]
               /\ \E t : currentTerm' = [currentTerm EXCEPT ![n] = t]
      BY <3>1
    <3>2. CASE HandleRequestVote(n, m)
      BY <1>1, <3>1, <3>2 DEF HandleRequestVote, electionVars, logVars
    <3>3. CASE HandleVoteResponse(n, m)
      BY <1>1, <3>1, <3>3 DEF HandleVoteResponse, BecomeFollower, BecomeLeader, logVars
    <3>4. CASE HandleAppendResponse(n, m)
      BY <1>1, <3>1, <3>4 DEF HandleAppendResponse, BecomeFollower, Panic, electionVars, logVars
    <3>5. CASE HandleAppendEntries(n, m)
      <4>1. CASE FollowLeader(n, m) /\ \E lg : log' = [log EXCEPT ![n] = lg]
        <5>1. role'[n] = "Follower" /\ \A v \in Node \ {n} : log'[v] = log[v]
          BY <4>1 DEF FollowLeader, BecomeFollower
        <5>2. \A v \in Node \ {n} : role'[v] = role[v] /\ currentTerm'[v] = currentTerm[v]
          BY <4>1 DEF FollowLeader, BecomeFollower
        <5> QED BY <5>1, <5>2
      <4>2. CASE FollowLeader(n, m) /\ UNCHANGED log
        <5>1. log' = [log EXCEPT ![n] = log[n]]
          BY <4>2
        <5> QED BY <4>1, <4>2, <5>1
      <4> QED BY <1>1, <3>5, <4>1, <4>2 DEF HandleAppendEntries, electionVars
    <3> QED BY <2>3, <3>2, <3>3, <3>4, <3>5 DEF Receive
  <2> QED BY <1>1, <1>2, <2>1, <2>2, <2>3 DEF NodeStep, Heartbeat, TakeCommitted, Panic,
             electionVars, logVars
<1> QED BY <1>1, <1>2 DEF Next, vars, electionVars, logVars

\* What a leader knows when it has just been elected, and when it goes on.
Elected(n) ==
  /\ role[n] = "Candidate" /\ currentTerm'[n] = currentTerm[n] /\ log'[n] = log[n]
  /\ \E Q \in SUBSET Node : IsMajority(Q) /\ \A v \in Q : <<v, n, currentTerm[n]>> \in Ballots
  /\ \A p \in Node : nextIndex'[n][p] = Len(log[n]) + 1
  /\ \A p \in Node : matchIndex'[n][p] = IF p = n THEN Len(log[n]) ELSE 0

Learns(n, p) ==
  \E a \in Acks : /\ a.from = p /\ a.term = currentTerm[n]
                  /\ nextIndex'[n][p] = a.match + 1 /\ matchIndex'[n][p] = a.match

LeaderGoesOn(n) ==
  /\ role[n] = "Leader" /\ currentTerm'[n] = currentTerm[n]
  /\ matchIndex'[n][n] = matchIndex[n][n]
  /\ \A p \in Node \ {n} :
       \/ nextIndex'[n][p] <= nextIndex[n][p] /\ matchIndex'[n][p] = matchIndex[n][p]
       \/ Learns(n, p)

LEMMA ElectedByVotes ==
  ASSUME TypeOK, ElectionInv, NEW n \in Node, NEW m \in msgs, m.to = n, role[n] = "Candidate",
         HandleVoteResponse(n, m), role'[n] = "Leader"
  PROVE  Elected(n)
<1> DEFINE votes == votesReceived[n] \cup {m.from}
<1>1. /\ m.type = "VoteResponse" /\ m.granted /\ m.term = currentTerm[n]
      /\ IsMajority(votes) /\ BecomeLeader(n) /\ log' = log
  BY DEF HandleVoteResponse, BecomeFollower, TypeOK, logVars
<1>2. m.from \in Node /\ <<m.from, n, currentTerm[n]>> \in Ballots
  BY <1>1, MessageFields DEF Ballots, TypeOK
<1>3. votes \in SUBSET Node /\ \A v \in votes : <<v, n, currentTerm[n]>> \in Ballots
  BY <1>2 DEF ElectionInv, RoleEarned, TypeOK
<1> HIDE DEF votes
<1>4. \A p \in Node : /\ nextIndex'[n][p] = Len(log[n]) + 1
                      /\ matchIndex'[n][p] = IF p = n THEN Len(log[n]) ELSE 0
  BY <1>1 DEF BecomeLeader, TypeOK
<1> QED BY <1>1, <1>3, <1>4 DEF Elected, BecomeLeader

LEMMA LeaderNext ==
  ASSUME TypeOK, TypeOK', ElectionInv, [Next]_vars, NEW n \in Node, role'[n] = "Leader"
  PROVE  Elected(n) \/ LeaderGoesOn(n)
<1> /\ role \in [Node -> Role] /\ currentTerm \in [Node -> Term]
    /\ nextIndex \in [Node -> [Node -> Nat \ {0}]] /\ matchIndex \in [Node -> [Node -> Nat]]
  BY DEF TypeOK
<1>1. CASE UNCHANGED <<role, currentTerm, nextIndex, matchIndex>>
  BY <1>1 DEF LeaderGoesOn
<1>2. ASSUME NEW x \in Node, x # n, NodeStep(x) PROVE LeaderGoesOn(n)
  <2>1. role'[n] = role[n] /\ currentTerm'[n] = currentTerm[n]
    BY <1>2 DEF NodeStep, StartElection, Heartbeat, Propose, TakeCommitted, Panic, Receive,
       HandleRequestVote, HandleVoteResponse, HandleAppendEntries, HandleAppendResponse,
       FollowLeader, BecomeFollower, BecomeLeader, electionVars
  <2>2. nextIndex'[n] = nextIndex[n] /\ matchIndex'[n] = matchIndex[n]
    BY <1>2 DEF NodeStep, StartElection, Heartbeat, Propose, TakeCommitted, Panic, Receive,
       HandleRequestVote, HandleVoteResponse, HandleAppendEntries, HandleAppendResponse,
       BecomeLeader, leaderVars
  <2> QED BY <2>1, <2>2 DEF LeaderGoesOn
<1>3. ASSUME NodeStep(n) PROVE Elected(n) \/ LeaderGoesOn(n)
  <2>1. CASE StartElection(n)
    BY <2>1 DEF StartElection
  <2>2. CASE Heartbeat(n) \/ TakeCommitted(n) \/ \E c \in Command : Propose(n, c)
    BY <1>1, <2>2 DEF Heartbeat, TakeCommitted, Propose, Panic, electionVars, leaderVars
  <2>3. ASSUME NEW m \in msgs, m.to = n, HandleRequestVote(n, m) PROVE LeaderGoesOn(n)
    BY <1>1, <2>3 DEF HandleRequestVote, electionVars, leaderVars, LeaderGoesOn
  <2>4. ASSUME NEW m \in msgs, m.to = n, HandleVoteResponse(n, m)
        PROVE  Elected(n) \/ LeaderGoesOn(n)
    BY <2>4, ElectedByVotes DEF HandleVoteResponse, BecomeFollower
  <2>5. ASSUME NEW m \in msgs, m.to = n, HandleAppendEntries(n, m) PROVE LeaderGoesOn(n)
    <3>1. CASE FollowLeader(n, m)
      BY <3>1 DEF FollowLeader, BecomeFollower
    <3>2. CASE UNCHANGED electionVars
      BY <1>1, <2>5, <3>2 DEF HandleAppendEntries, electionVars, leaderVars, LeaderGoesOn
    <3> QED BY <2>5, <3>1, <3>2 DEF HandleAppendEntries
  <2>6. ASSUME NEW m \in msgs, m.to = n, HandleAppendResponse(n, m) PROVE LeaderGoesOn(n)
    <3>1. m.from \in Node \ {n} /\ m \in Message /\ m.type = "AppendResponse"
      BY <2>6, MessageFields DEF TypeOK, ElectionInv, NoSelfMessage, HandleAppendResponse
    <3>2. CASE BecomeFollower(n, m.term, Nil)
      BY <3>2 DEF BecomeFollower
    <3>3. CASE Panic(n)
      BY <1>1, <3>3 DEF Panic, electionVars, leaderVars, LeaderGoesOn
    <3>4. CASE /\ m.term = currentTerm[n] /\ role[n] = "Leader" /\ m.success /\ UNCHANGED electionVars
               /\ matchIndex' = [matchIndex EXCEPT ![n] = [matchIndex[n] EXCEPT ![m.from] = m.match]]
               /\ nextIndex' = [nextIndex EXCEPT ![n][m.from] = m.match + 1]
      <4>1. \A p \in Node : matchIndex'[n][p] = IF p = m.from THEN m.match ELSE matchIndex[n][p]
        BY <3>4
      <4>2. \A p \in Node : nextIndex'[n][p] = IF p = m.from THEN m.match + 1 ELSE nextIndex[n][p]
        BY <3>4
      <4>3. Learns(n, m.from)
        BY <3>1, <3>4, <4>1, <4>2 DEF Learns, Acks
      <4>4. \A p \in Node : nextIndex[n][p] <= nextIndex[n][p]
        OBVIOUS
      <4> QED BY <3>1, <3>4, <4>1, <4>2, <4>3, <4>4 DEF LeaderGoesOn, electionVars
    <3>5. CASE /\ role[n] = "Leader" /\ UNCHANGED <<electionVars, matchIndex>>
               /\ nextIndex' = [nextIndex EXCEPT ![n][m.from] = Larger(nextIndex[n][m.from] - 1, 1)]
      <4>1. \A p \in Node : nextIndex'[n][p] <= nextIndex[n][p]
        BY <3>5 DEF Larger
      <4> QED BY <3>5, <4>1 DEF LeaderGoesOn, electionVars
    <3> QED BY <2>6, <3>2, <3>3, <3>4, <3>5 DEF HandleAppendResponse
  <2> QED BY <1>3, <2>1, <2>2, <2>3, <2>4, <2>5, <2>6 DEF NodeStep, Receive
<1> QED BY <1>1, <1>2, <1>3 DEF Next, vars, electionVars, leaderVars

\* How commit_index moves: on a request taken, and by advance_commit.
FollowsCommit(n, r) ==
  /\ Accepts(n, r) /\ currentTerm'[n] = r.term
  /\ commitIndex'[n] = Larger(commitIndex[n], Smaller(r.commit, Len(log'[n])))

Advances(n) ==
  /\ role'[n] = "Leader" /\ log'[n] = log[n] /\ currentTerm'[n] = currentTerm[n]
  /\ commitIndex'[n] \in 1..Len(log[n])
  /\ log[n][commitIndex'[n]].term = currentTerm[n]
  /\ Replicated(n, matchIndex'[n], commitIndex'[n]) >= Cardinality(Node) \div 2 + 1

LEMMA CommitNext ==
  ASSUME TypeOK, TypeOK', [Next]_vars, NEW v \in Node
  PROVE  commitIndex'[v] = commitIndex[v] \/ (\E r : FollowsCommit(v, r)) \/ Advances(v)
<1> /\ commitIndex \in [Node -> Nat] /\ currentTerm \in [Node -> Term] /\ role \in [Node -> Role]
    /\ matchIndex \in [Node -> [Node -> Nat]] /\ log \in [Node -> Seq(Entry)]
  BY DEF TypeOK
<1>1. ASSUME NEW n \in Node, NEW m \in msgs, m.to = n, HandleAppendEntries(n, m),
             commitIndex'[v] # commitIndex[v]
      PROVE  FollowsCommit(v, m)
  <2>1. /\ m.term >= currentTerm[n] /\ FollowLeader(n, m)
        /\ m.prev <= Len(log[n])
        /\ m.prev > 0 => log[n][m.prev].term = m.prevTerm
        /\ LET newLog == MergedLog(log[n], m.prev, m.entries)
           IN  /\ log' = [log EXCEPT ![n] = newLog]
               /\ commitIndex' = [commitIndex EXCEPT ![n] =
                                    Larger(@, Smaller(m.commit, Len(newLog)))]
               /\ overstated' = (overstated \/ Len(newLog) > m.prev + Len(m.entries))
    BY <1>1 DEF HandleAppendEntries
  <2>2. v = n
    BY <1>1, <2>1
  <2>3. log'[n] = MergedLog(log[n], m.prev, m.entries)
    BY <2>1
  <2>4. currentTerm'[n] = m.term
    <3>1. m.term \in Nat /\ currentTerm[n] \in Nat
      BY MessageFields, TermIsNat DEF TypeOK
    <3> QED BY <2>1, <3>1 DEF FollowLeader, BecomeFollower
  <2>5. Accepts(n, m)
    BY <1>1, <2>1, <2>3 DEF Accepts, Requests, HandleAppendEntries
  <2> QED BY <2>1, <2>2, <2>3, <2>4, <2>5 DEF FollowsCommit
<1>2. ASSUME NEW n \in Node, NEW m \in msgs, m.to = n, HandleAppendResponse(n, m),
             commitIndex'[v] # commitIndex[v]
      PROVE  Advances(v)
  <2> DEFINE match == [matchIndex[n] EXCEPT ![m.from] = m.match]
  <2>1. /\ m.term = currentTerm[n] /\ role[n] = "Leader" /\ AdvanceCommit(n, match)
        /\ matchIndex' = [matchIndex EXCEPT ![n] = match]
        /\ UNCHANGED <<log, currentTerm, role>>
    BY <1>2 DEF HandleAppendResponse, Panic, electionVars, logVars
  <2>2. matchIndex'[n] = match
    BY <2>1
  <2> HIDE DEF match
  <2>3. v = n /\ commitIndex'[n] \in Committable(n, match)
    BY <1>2, <2>1 DEF AdvanceCommit
  <2>4. commitIndex'[n] \in (commitIndex[n] + 1)..Len(log[n])
        /\ log[n][commitIndex'[n]].term = currentTerm[n]
        /\ Replicated(n, match, commitIndex'[n]) >= Cardinality(Node) \div 2 + 1
    BY <2>3 DEF Committable
  <2>5. commitIndex'[n] \in 1..Len(log[n])
    BY <2>4, LenProperties
  <2> QED BY <2>1, <2>2, <2>3, <2>4, <2>5 DEF Advances
<1>3. ASSUME NEW n \in Node, NodeStep(n), commitIndex'[v] # commitIndex[v]
      PROVE  (\E r : FollowsCommit(v, r)) \/ Advances(v)
  BY <1>1, <1>2, <1>3 DEF NodeStep, Receive, StartElection, Heartbeat, Propose, TakeCommitted,
     HandleRequestVote, HandleVoteResponse, Panic, logVars
<1> QED BY <1>3 DEF Next, vars, logVars

\* What take_committed hands out.
Takes(n) ==
  /\ Len(applied[n]) < commitIndex[n] /\ commitIndex[n] <= Len(log[n])
  /\ applied'[n] = applied[n] \o SubSeq(log[n], Len(applied[n]) + 1, commitIndex[n])

LEMMA AppliedNext ==
  ASSUME TypeOK, [Next]_vars, NEW v \in Node
  PROVE  applied'[v] = applied[v] \/ Takes(v)
<1>1. ASSUME NEW n \in Node, TakeCommitted(n) PROVE applied'[v] = applied[v] \/ Takes(v)
  <2>1. CASE commitIndex[n] > Len(log[n])
    BY <1>1, <2>1 DEF TakeCommitted, Panic, logVars
  <2>2. CASE ~(commitIndex[n] > Len(log[n]))
    <3>1. commitIndex[n] \in Nat /\ Len(log[n]) \in Nat
      BY LenProperties DEF TypeOK
    <3>2. commitIndex[n] <= Len(log[n])
      BY <2>2, <3>1
    <3> QED BY <1>1, <2>2, <3>2 DEF TakeCommitted, TypeOK, Takes
  <2> QED BY <2>1, <2>2
<1>2. ASSUME NEW n \in Node, NodeStep(n) PROVE applied'[v] = applied[v] \/ Takes(v)
  BY <1>1, <1>2 DEF NodeStep, Receive, StartElection, Heartbeat, Propose,
     HandleRequestVote, HandleVoteResponse, HandleAppendEntries, HandleAppendResponse, Panic, logVars
<1> QED BY <1>2 DEF Next, vars, logVars

\* Why a node may abort.
Overruns(n) ==
  \/ commitIndex[n] > Len(log[n])
  \/ role[n] = "Leader" /\ \E p \in Node \ {n} : nextIndex[n][p] > Len(log[n]) + 1

LEMMA PanicNext ==
  ASSUME TypeOK, ElectionInv, [Next]_vars, panicked' # panicked PROVE \E n \in Node : Overruns(n)
<1>1. ASSUME NEW n \in Node, NEW p \in Node \ {n}, role[n] = "Leader",
             NEW lg \in Seq(Entry), NEW next \in Nat, RequestPanics(lg, next),
             Len(lg) >= Len(log[n]), next <= nextIndex[n][p]
      PROVE  Overruns(n)
  <2>1. Len(lg) \in Nat /\ Len(log[n]) \in Nat /\ nextIndex[n][p] \in Nat
    BY LenProperties DEF TypeOK
  <2>2. nextIndex[n][p] > Len(log[n]) + 1
    BY <1>1, <2>1 DEF RequestPanics
  <2> QED BY <1>1, <2>2 DEF Overruns
<1>2. ASSUME NEW n \in Node \ panicked, NodeStep(n) PROVE Overruns(n)
  <2>0. log[n] \in Seq(Entry) /\ Len(log[n]) \in Nat /\ nextIndex[n] \in [Node -> Nat \ {0}]
    BY LenProperties DEF TypeOK
  <2>1. CASE Heartbeat(n)
    <3>1. role[n] = "Leader" /\ \E p \in Node \ {n} : RequestPanics(log[n], nextIndex[n][p])
      BY <2>1 DEF Heartbeat
    <3> QED BY <1>1, <2>0, <3>1
  <2>2. ASSUME NEW c \in Command, Propose(n, c) PROVE Overruns(n)
    <3> DEFINE e == [term |-> currentTerm[n], command |-> c]
    <3>1. e \in Entry
      BY DEF Entry, TypeOK
    <3>2. role[n] = "Leader" /\ \E p \in Node \ {n} : RequestPanics(Append(log[n], e), nextIndex[n][p])
      BY <2>2 DEF Propose
    <3> HIDE DEF e
    <3>3. Append(log[n], e) \in Seq(Entry) /\ Len(Append(log[n], e)) >= Len(log[n])
      BY <2>0, <3>1, AppendProperties
    <3>4. PICK p \in Node \ {n} : RequestPanics(Append(log[n], e), nextIndex[n][p])
      BY <3>2
    <3>5. nextIndex[n][p] \in Nat /\ nextIndex[n][p] <= nextIndex[n][p]
      BY <2>0
    <3> QED BY <1>1, <3>2, <3>3, <3>4, <3>5
  <2>3. CASE TakeCommitted(n)
    BY <2>3 DEF TakeCommitted, Overruns
  <2>4. ASSUME NEW m \in msgs, m.to = n, HandleAppendResponse(n, m) PROVE Overruns(n)
    <3>1. m.from \in Node \ {n}
      BY <2>4, MessageFields DEF TypeOK, ElectionInv, NoSelfMessage
    <3>2. role[n] = "Leader" /\ RequestPanics(log[n], Larger(nextIndex[n][m.from] - 1, 1))
      BY <2>4 DEF HandleAppendResponse
    <3>3. /\ Larger(nextIndex[n][m.from] - 1, 1) \in Nat
          /\ Larger(nextIndex[n][m.from] - 1, 1) <= nextIndex[n][m.from]
      BY <2>0, <3>1 DEF Larger
    <3> QED BY <1>1, <2>0, <3>1, <3>2, <3>3
  <2>5. ~StartElection(n) /\ \A m \in msgs : ~HandleRequestVote(n, m) /\ ~HandleVoteResponse(n, m)
        /\ ~HandleAppendEntries(n, m)
    BY DEF StartElection, HandleRequestVote, HandleVoteResponse, HandleAppendEntries
  <2> QED BY <1>2, <2>1, <2>2, <2>3, <2>4, <2>5 DEF NodeStep, Receive
<1> QED BY <1>2 DEF Next, vars

-----------------------------------------------------------------------------
(***************************************************************************)
(* What is stored, left out and chosen after a step.                       *)
(***************************************************************************)

\* Lines only get longer, by entries of their own term, and what a node newly
\* has stored it holds, in its own term.
Evolves(G, H) ==
  /\ Longer(G, H)
  /\ \A u \in Term : Announced(u) =>
       \A i \in 1..Len(H[u]) : i > Len(G[u]) => H[u][i].term = u
  /\ Leads \subseteq Leads' /\ Acks \subseteq Acks'
  /\ \A v \in Node, t \in Term, i \in Nat :
       Stores(H, v, i, t)' =>
         Stores(G, v, i, t) \/ (t = currentTerm'[v] /\ HoldsAt(log'[v], i, t))

LEMMA EvolvesHolds ==
  ASSUME NEW G \in Lines, NEW H \in Lines, Evolves(G, H), NEW u \in Term, NEW i \in Nat, NEW t
  PROVE  /\ HoldsAt(G[u], i, t) => HoldsAt(H[u], i, t)
         /\ Announced(u) /\ t # u /\ HoldsAt(H[u], i, t) => HoldsAt(G[u], i, t)
<1>1. /\ SameTo(G[u], H[u], Len(G[u])) /\ G[u] \in Seq(Entry) /\ H[u] \in Seq(Entry)
      /\ Len(G[u]) \in Nat /\ Len(H[u]) \in Nat
  BY LenProperties DEF Evolves, Longer, Lines
<1>2. HoldsAt(G[u], i, t) => HoldsAt(H[u], i, t)
  BY <1>1 DEF HoldsAt, SameTo
<1>3. ASSUME Announced(u), t # u, HoldsAt(H[u], i, t) PROVE HoldsAt(G[u], i, t)
  <2>1. i <= Len(G[u])
    BY <1>1, <1>3 DEF Evolves, HoldsAt
  <2> QED BY <1>1, <1>3, <2>1 DEF HoldsAt, SameTo
<1> QED BY <1>2, <1>3

LEMMA LeftOutStays ==
  ASSUME NEW G \in Lines, NEW H \in Lines, Evolves(G, H), NEW i \in Nat, NEW t \in Term,
         NEW j \in Nat, NEW k \in Nat, j <= k, LeftOut(G, i, t, j)
  PROVE  LeftOut(H, i, t, k)'
<1>1. PICK u \in Term : t < u /\ u <= j /\ Announced(u) /\ ~HoldsAt(G[u], i, t)
  BY DEF LeftOut
<1>2. t \in Nat /\ u \in Nat
  BY TermIsNat
<1>3. ~HoldsAt(H[u], i, t)
  BY <1>1, <1>2, EvolvesHolds
<1>4. Announced(u)'
  BY <1>1 DEF Announced, Evolves
<1>5. u <= k
  BY <1>1, <1>2
<1> QED BY <1>1, <1>3, <1>4, <1>5 DEF LeftOut

LEMMA ChosenStays ==
  ASSUME NEW G \in Lines, NEW H \in Lines, Evolves(G, H), NEW i \in Nat, NEW t \in Term,
         Chosen(G, i, t)
  PROVE  Chosen(H, i, t)'
<1>1. ASSUME NEW v \in Node, Stores(G, v, i, t) PROVE Stores(H, v, i, t)'
  <2>1. HoldsAt(H[t], i, t)
    BY <1>1, EvolvesHolds DEF Stores
  <2>2. Acked(v, i, t)' \/ <<v, t>> \in Leads'
    BY <1>1 DEF Stores, Acked, Evolves
  <2> QED BY <2>1, <2>2 DEF Stores
<1> QED BY <1>1 DEF Chosen

\* SafeTo after the step.
SafeNow(H, lg, c, u) ==
  c = 0 \/ \E t \in Term, i \in Nat :
             Chosen(H, i, t)' /\ t <= u /\ c <= i /\ SameTo(lg, H[t], c)

LEMMA SafeStays ==
  ASSUME NEW G \in Lines, NEW H \in Lines, Evolves(G, H), NEW lg \in Seq(Entry), NEW c \in Nat,
         NEW u \in Term, SafeTo(G, lg, c, u)
  PROVE  SafeNow(H, lg, c, u)
<1> SUFFICES ASSUME c # 0
             PROVE  \E t \in Term, i \in Nat :
                      Chosen(H, i, t)' /\ t <= u /\ c <= i /\ SameTo(lg, H[t], c)
  BY DEF SafeNow
<1>1. PICK t \in Term, i \in Nat : Chosen(G, i, t) /\ t <= u /\ c <= i /\ SameTo(lg, G[t], c)
  BY DEF SafeTo
<1>2. /\ SameTo(G[t], H[t], Len(G[t])) /\ G[t] \in Seq(Entry) /\ H[t] \in Seq(Entry)
      /\ Len(G[t]) \in Nat
  BY LenProperties DEF Evolves, Longer, Lines
<1>3. c <= Len(G[t])
  BY <1>1 DEF SameTo
<1>4. SameTo(lg, H[t], c)
  BY <1>1, <1>2, <1>3, SameFacts, SameTransitive
<1> QED BY <1>1, <1>4, ChosenStays

\* Lines evolve.  The line of a term changes only if its leader pushes, or if
\* its leader has just been elected and there was none.
LEMMA LinesEvolve ==
  ASSUME TypeOK, TypeOK', ElectionInv, ElectionInv', LeadersStay, LeadersStay', [Next]_vars,
         NEW G \in Lines, NEW H \in Lines, LineInv(G), LineInv(H)', Succeeds(G, H),
         NEW u \in Term
  PROVE  /\ SameTo(G[u], H[u], Len(G[u]))
         /\ Announced(u) => \A i \in 1..Len(H[u]) : i > Len(G[u]) => H[u][i].term = u
<1>0. OneEach'
  BY LeadersUnique, PTL
<1>1. G[u] \in Seq(Entry) /\ H[u] \in Seq(Entry) /\ Len(G[u]) \in Nat /\ u \in Nat
  BY LenProperties, TermIsNat DEF Lines
<1>2. Leads \subseteq Leads'
  BY SendsNext DEF Sends, Leads
<1>3. CASE H[u] = G[u]
  BY <1>1, <1>3, SameSelf
<1>4. CASE \E l \in Node : role'[l] = "Leader" /\ currentTerm'[l] = u
  <2>1. PICK l \in Node : role'[l] = "Leader" /\ currentTerm'[l] = u
    BY <1>4
  <2>2. H[u] = log'[l]
    BY <2>1 DEF LineInv
  <2>3. <<l, u>> \in Leads'
    BY <2>1 DEF ElectionInv, RoleEarned
  <2>4. Elected(l) \/ LeaderGoesOn(l)
    BY <2>1, LeaderNext
  <2>5. CASE LeaderGoesOn(l)
    <3>1. role[l] = "Leader" /\ G[u] = log[l] /\ currentTerm[l] = u
      BY <2>1, <2>5 DEF LeaderGoesOn, LineInv
    <3>2. CASE log'[l] = log[l]
      BY <1>3, <2>2, <3>1, <3>2
    <3>3. ASSUME NEW e \in Entry, e.term = currentTerm[l], log'[l] = Append(log[l], e)
          PROVE  /\ SameTo(G[u], H[u], Len(G[u]))
                 /\ \A i \in 1..Len(H[u]) : i > Len(G[u]) => H[u][i].term = u
      <4>1. /\ Len(H[u]) = Len(G[u]) + 1 /\ H[u][Len(G[u]) + 1] = e
            /\ \A i \in 1..Len(G[u]) : H[u][i] = G[u][i]
        BY <1>1, <2>2, <3>1, <3>3, AppendProperties
      <4>2. SameTo(G[u], H[u], Len(G[u]))
        BY <1>1, <4>1 DEF SameTo
      <4>3. \A i \in 1..Len(H[u]) : i > Len(G[u]) => i = Len(G[u]) + 1
        BY <1>1, <4>1
      <4> QED BY <3>1, <3>3, <4>1, <4>2, <4>3
    <3> QED BY <2>1, <3>1, <3>2, <3>3, LeaderLogNext
  <2>6. CASE Elected(l)
    <3>1. ~Announced(u)
      <4> SUFFICES ASSUME NEW a \in Node, <<a, u>> \in Leads PROVE FALSE
        BY DEF Announced
      <4>1. a = l
        BY <1>0, <1>2, <2>3 DEF OneEach
      <4>2. u < currentTerm[l] \/ (u = currentTerm[l] /\ role[l] = "Leader")
        BY <4>1 DEF LeadersStay
      <4> QED BY <1>1, <2>1, <2>6, <4>2 DEF Elected
    <3>2. G[u] = <<>>
      BY <3>1 DEF LineInv
    <3> QED BY <1>1, <3>1, <3>2, EmptySeq, LenProperties DEF SameTo
  <2> QED BY <2>4, <2>5, <2>6
<1> QED BY <1>3, <1>4 DEF Succeeds

\* What has been shown of every state, with the lines it has.
Sound(G) == TypeOK /\ ElectionInv /\ LeadersStay /\ LineInv(G)

\* A fresh success answers for what its sender has of the line of its term.
LEMMA FreshAck ==
  ASSUME NEW G \in Lines, Sound(G), TypeOK', [Next]_vars, ~overstated',
         NEW a \in Acks', a \notin Acks
  PROVE  /\ a.from \in Node /\ a.term \in Term /\ a.match \in Nat
         /\ a.term = currentTerm'[a.from] /\ SameTo(log'[a.from], G[a.term], a.match)
<1>1. /\ a \in msgs' \ msgs /\ a \in Message /\ a.type = "AppendResponse" /\ a.success
  BY DEF Acks, TypeOK
<1>2. a.from \in Node /\ a.term \in Term /\ a.match \in Nat
  BY <1>1, MessageFields
<1>3. Sent(a)
  BY <1>1, SendsNext DEF Sends, Sound
<1>4. PICK r : Accepts(a.from, r) /\ r.term = a.term /\ a.match = Len(log'[a.from])
  BY <1>1, <1>3 DEF Sent
<1>5. SameTo(log'[a.from], G[a.term], a.match)
  BY <1>2, <1>4, AcceptedLog DEF Sound
<1> QED BY <1>2, <1>3, <1>5 DEF Sent

\* Who leads a term after a step led it before, or was elected in the step.
LEMMA FreshLead ==
  ASSUME TypeOK, TypeOK', [Next]_vars, NEW l \in Node, NEW t \in Term,
         <<l, t>> \in Leads', <<l, t>> \notin Leads
  PROVE  t = currentTerm'[l] /\ role'[l] = "Leader"
<1>1. PICK m \in msgs' : m.type = "AppendEntries" /\ m.from = l /\ m.term = t
  BY DEF Leads
<1>2. m \notin msgs
  BY <1>1 DEF Leads
<1>3. Sent(m)
  BY <1>2, SendsNext DEF Sends
<1> QED BY <1>1, <1>3 DEF Sent

LEMMA EvolvesNext ==
  ASSUME NEW G \in Lines, NEW H \in Lines, Sound(G), Sound(H)', Succeeds(G, H), [Next]_vars,
         AcksKnown(G), ~overstated'
  PROVE  Evolves(G, H)
<1>0. OneEach'
  <2>1. ElectionInv'
    BY DEF Sound
  <2> QED BY <2>1, LeadersUnique, PTL
<1>1. /\ TypeOK /\ TypeOK' /\ ElectionInv /\ ElectionInv' /\ LeadersStay /\ LeadersStay'
      /\ LineInv(G) /\ LineInv(H)'
  BY DEF Sound
<1>2. \A u \in Term : /\ SameTo(G[u], H[u], Len(G[u]))
                      /\ Announced(u) => \A i \in 1..Len(H[u]) : i > Len(G[u]) => H[u][i].term = u
  BY <1>1, LinesEvolve
<1>3. Leads \subseteq Leads' /\ Acks \subseteq Acks'
  BY <1>1, SendsNext DEF Sends, Leads, Acks
<1>4. ASSUME NEW v \in Node, NEW t \in Term, NEW i \in Nat, Stores(H, v, i, t)'
      PROVE  Stores(G, v, i, t) \/ (t = currentTerm'[v] /\ HoldsAt(log'[v], i, t))
  <2>1. /\ G[t] \in Seq(Entry) /\ H[t] \in Seq(Entry) /\ Len(G[t]) \in Nat /\ Len(H[t]) \in Nat
        /\ t \in Nat /\ log'[v] \in Seq(Entry)
        /\ SameTo(G[t], H[t], Len(G[t])) /\ HoldsAt(H[t], i, t)
    BY <1>1, <1>2, <1>4, LenProperties, TermIsNat DEF Lines, TypeOK, Stores
  <2>2. CASE Acked(v, i, t)'
    <3>1. PICK a \in Acks' : a.from = v /\ a.term = t /\ i <= a.match
      BY <2>2 DEF Acked
    <3>2. a.match \in Nat
      BY <1>1, MessageFields DEF Acks, TypeOK
    <3>3. CASE a \in Acks
      <4>1. i <= Len(G[t])
        BY <2>1, <3>1, <3>2, <3>3 DEF AcksKnown
      <4>2. HoldsAt(G[t], i, t)
        BY <2>1, <4>1 DEF HoldsAt, SameTo
      <4> QED BY <3>1, <3>3, <4>2 DEF Stores, Acked
    <3>4. CASE a \notin Acks
      <4>1. t = currentTerm'[v] /\ SameTo(log'[v], G[t], a.match)
        BY <1>1, <3>1, <3>4, FreshAck
      <4>2. HoldsAt(G[t], i, t) /\ HoldsAt(log'[v], i, t)
        BY <2>1, <3>1, <3>2, <4>1 DEF HoldsAt, SameTo
      <4> QED BY <4>1, <4>2
    <3> QED BY <3>3, <3>4
  <2>3. CASE <<v, t>> \in Leads'
    <3>1. t < currentTerm'[v] \/ (t = currentTerm'[v] /\ role'[v] = "Leader")
      BY <1>1, <2>3 DEF LeadersStay
    <3>2. CASE t = currentTerm'[v] /\ role'[v] = "Leader"
      BY <1>1, <2>1, <3>2 DEF LineInv
    <3>3. CASE t < currentTerm'[v]
      <4>1. currentTerm'[v] \in Nat
        BY <1>1, TermIsNat DEF TypeOK
      <4>2. t # currentTerm'[v]
        BY <2>1, <3>3, <4>1
      <4>3. <<v, t>> \in Leads
        BY <1>1, <2>3, <4>2, FreshLead
      <4>4. H[t] = G[t]
        <5>1. ASSUME NEW l \in Node, role'[l] = "Leader", currentTerm'[l] = t PROVE FALSE
          <6>1. <<l, t>> \in Leads'
            BY <1>1, <5>1 DEF ElectionInv, RoleEarned
          <6> QED BY <1>0, <2>3, <4>2, <5>1, <6>1 DEF OneEach
        <5> QED BY <5>1 DEF Succeeds
      <4> QED BY <2>1, <4>3, <4>4 DEF Stores
    <3> QED BY <3>1, <3>2, <3>3
  <2> QED BY <1>4, <2>2, <2>3 DEF Stores
<1> QED BY <1>2, <1>3, <1>4 DEF Evolves, Longer

-----------------------------------------------------------------------------
(***************************************************************************)
(* The parts of the invariant, one by one.                                 *)
(***************************************************************************)

LEMMA AcksKnownNext ==
  ASSUME NEW G \in Lines, NEW H \in Lines, Sound(G), Sound(H)', [Next]_vars, ~overstated',
         Evolves(G, H), AcksKnown(G)
  PROVE  AcksKnown(H)'
<1> SUFFICES ASSUME NEW a \in Acks' PROVE a.match <= Len(H[a.term]) /\ a.term <= currentTerm'[a.from]
  BY DEF AcksKnown
<1>1. a.from \in Node /\ a.term \in Term /\ a.term \in Nat /\ a.match \in Nat
  BY MessageFields, TermIsNat DEF Sound, TypeOK, Acks
<1>2. /\ Len(G[a.term]) \in Nat /\ Len(H[a.term]) \in Nat /\ Len(G[a.term]) <= Len(H[a.term])
  BY <1>1, LenProperties DEF Evolves, Longer, SameTo, Lines
<1>3. /\ currentTerm[a.from] \in Nat /\ currentTerm'[a.from] \in Nat
      /\ currentTerm[a.from] <= currentTerm'[a.from]
  BY <1>1, TermsRise DEF Sound
<1>4. CASE a \in Acks
  BY <1>1, <1>2, <1>3, <1>4 DEF AcksKnown
<1>5. CASE a \notin Acks
  <2>1. a.term = currentTerm'[a.from] /\ SameTo(log'[a.from], G[a.term], a.match)
    BY <1>5, FreshAck DEF Sound
  <2> QED BY <1>1, <1>2, <1>3, <2>1 DEF SameTo
<1> QED BY <1>4, <1>5

LEMMA StoredKeptNext ==
  ASSUME NEW G \in Lines, NEW H \in Lines, Sound(G), Sound(H)', [Next]_vars,
         Evolves(G, H), StoredKept(G)
  PROVE  StoredKept(H)'
<1> SUFFICES ASSUME NEW v \in Node, NEW t \in Term, NEW i \in Nat, Stores(H, v, i, t)',
                    ~(t = currentTerm'[v] /\ HoldsAt(log'[v], i, t))
             PROVE  HoldsAt(log'[v], i, t) \/ LeftOut(H, i, t, currentTerm[v])'
  BY DEF StoredKept
<1>1. TypeOK /\ TypeOK' /\ ElectionInv /\ LineInv(G)
  BY DEF Sound
<1>2. Stores(G, v, i, t)
  BY DEF Evolves
<1>3. /\ currentTerm[v] \in Nat /\ currentTerm'[v] \in Nat /\ currentTerm[v] <= currentTerm'[v]
      /\ t \in Nat
  BY <1>1, TermsRise, TermIsNat
<1>4. HoldsAt(log[v], i, t) \/ LeftOut(G, i, t, currentTerm[v])
  BY <1>2 DEF StoredKept
<1>5. CASE LeftOut(G, i, t, currentTerm[v])
  BY <1>3, <1>5, LeftOutStays
<1>6. CASE HoldsAt(log[v], i, t)
  <2>1. log[v] \in Seq(Entry) /\ log'[v] \in Seq(Entry) /\ Len(log[v]) \in Nat
    BY <1>1, LenProperties DEF TypeOK
  <2>2. CASE log'[v] = log[v]
    BY <1>6, <2>2
  <2>3. CASE \E e \in Entry : log'[v] = Append(log[v], e)
    BY <1>6, <2>1, <2>3, AppendProperties DEF HoldsAt
  <2>4. ASSUME NEW m \in Requests, currentTerm[v] <= m.term, currentTerm'[v] = m.term,
               \A k \in Nat : SameTo(log[v], G[m.term], k) => SameTo(log'[v], G[m.term], k)
        PROVE  HoldsAt(log'[v], i, t) \/ LeftOut(H, i, t, currentTerm[v])'
    <3>1. m.term \in Term /\ m.term \in Nat /\ m.from \in Node
      BY <1>1, MessageFields, TermIsNat DEF Requests, TypeOK
    <3>2. G[m.term] \in Seq(Entry) /\ Lined(G[m.term], G) /\ Lined(log[v], G)
      BY <1>1, <3>1, LineFacts DEF LineInv
    <3>3. CASE HoldsAt(G[m.term], i, t)
      <4>1. SameTo(log[v], G[m.term], i)
        BY <1>6, <2>1, <3>2, <3>3, HoldsMeet
      <4>2. SameTo(log'[v], G[m.term], i)
        BY <2>4, <4>1
      <4> QED BY <2>1, <3>2, <3>3, <4>2, HoldsSame
    <3>4. CASE ~HoldsAt(G[m.term], i, t)
      <4>1. t <= currentTerm[v]
        <5>1. Rising(log[v], currentTerm[v])
          BY <1>1 DEF LineInv
        <5>2. i <= i
          OBVIOUS
        <5> QED BY <1>6, <5>1, <5>2 DEF Rising, HoldsAt
      <4>2. t # m.term
        BY <1>2, <3>4 DEF Stores
      <4>3. t < m.term
        BY <1>3, <2>4, <3>1, <4>1, <4>2
      <4>4. Announced(m.term)
        BY <3>1 DEF Announced, Leads, Requests
      <4>5. LeftOut(G, i, t, m.term)
        BY <3>1, <3>4, <4>3, <4>4 DEF LeftOut
      <4> QED BY <2>4, <3>1, <4>5, LeftOutStays
    <3> QED BY <3>3, <3>4
  <2> QED BY <1>1, <2>2, <2>3, <2>4, LogMovesNext DEF LogMoves
<1> QED BY <1>4, <1>5, <1>6

\* A log that is not up to date with one that holds the entry does not reach it.
LEMMA UpToDateReaches ==
  ASSUME NEW lg \in Seq(Entry), NEW u \in Term, Rising(lg, u), NEW r \in Message,
         r.type = "RequestVote", LogIsUpToDate(r, lg),
         NEW i \in Nat, NEW t \in Term, HoldsAt(lg, i, t)
  PROVE  Reaches(r, i, t)
<1>1. Len(lg) \in Nat /\ i \in 1..Len(lg) /\ i <= Len(lg) /\ Len(lg) \in 1..Len(lg)
  BY LenProperties DEF HoldsAt
<1>2. lg # <<>>
  BY <1>1, EmptySeq
<1>3. LastTerm(lg) = lg[Len(lg)].term
  BY <1>2 DEF LastTerm
<1>4. t <= LastTerm(lg)
  BY <1>1, <1>3 DEF Rising, HoldsAt
<1>5. t \in Nat /\ LastTerm(lg) \in Nat /\ r.lastTerm \in Nat /\ r.lastIndex \in Nat
  BY LastTermType, TermIsNat, MessageFields
<1> QED BY <1>1, <1>4, <1>5 DEF LogIsUpToDate, Reaches

LEMMA VotersInformedNext ==
  ASSUME NEW G \in Lines, NEW H \in Lines, Sound(G), Sound(H)', [Next]_vars,
         Evolves(G, H), StoredKept(G), VotersInformed(G)
  PROVE  VotersInformed(H)'
<1> SUFFICES ASSUME NEW m \in msgs', m.type = "VoteResponse", m.granted
             PROVE  \E r \in msgs' :
                      /\ r.type = "RequestVote" /\ r.from = m.to /\ r.term = m.term
                      /\ \A t \in Term, i \in Nat :
                           t < m.term /\ Stores(H, m.from, i, t)' =>
                             Reaches(r, i, t) \/ LeftOut(H, i, t, m.term)'
  BY DEF VotersInformed
<1>1. TypeOK /\ TypeOK' /\ ElectionInv /\ ElectionInv' /\ LineInv(G)
  BY DEF Sound
<1>2. m.from \in Node /\ m.to \in Node /\ m.term \in Term /\ m.term \in Nat
  BY <1>1, MessageFields, TermIsNat DEF TypeOK
<1>3. msgs \subseteq msgs'
  BY <1>1, SendsNext DEF Sends
<1>4. m.term <= currentTerm'[m.from]
  <2>1. <<m.from, m.to, m.term>> \in Ballots'
    BY DEF Ballots
  <2>2. BallotStands'
    BY <1>1 DEF ElectionInv
  <2> QED BY <1>2, <2>1, <2>2 DEF BallotStands
<1>5. /\ currentTerm[m.from] \in Nat /\ currentTerm'[m.from] \in Nat
      /\ currentTerm[m.from] <= currentTerm'[m.from]
  BY <1>1, <1>2, TermsRise
<1>6. ASSUME NEW t \in Term, t < m.term, NEW i \in Nat, Stores(H, m.from, i, t)'
      PROVE  Stores(G, m.from, i, t)
  <2>1. t # currentTerm'[m.from]
    BY <1>2, <1>4, <1>5, <1>6, TermIsNat
  <2> QED BY <1>2, <1>6, <2>1 DEF Evolves
<1>7. CASE m \in msgs
  <2>1. PICK r \in msgs :
          /\ r.type = "RequestVote" /\ r.from = m.to /\ r.term = m.term
          /\ \A t \in Term, i \in Nat :
               t < m.term /\ Stores(G, m.from, i, t) => Reaches(r, i, t) \/ LeftOut(G, i, t, m.term)
    BY <1>7 DEF VotersInformed
  <2>2. m.term <= m.term
    BY <1>2
  <2>3. ASSUME NEW t \in Term, t < m.term, NEW i \in Nat, Stores(H, m.from, i, t)'
        PROVE  Reaches(r, i, t) \/ LeftOut(H, i, t, m.term)'
    BY <1>2, <1>6, <2>1, <2>2, <2>3, LeftOutStays
  <2> QED BY <1>3, <2>1, <2>3
<1>8. CASE m \notin msgs
  <2>1. Sent(m)
    BY <1>1, <1>8, SendsNext DEF Sends
  <2>2. PICK r \in msgs : /\ r.type = "RequestVote" /\ r.from = m.to /\ r.term = m.term
                          /\ LogIsUpToDate(r, log[m.from])
    BY <2>1 DEF Sent
  <2>3. m.term = currentTerm'[m.from]
    BY <2>1 DEF Sent
  <2>4. ASSUME NEW t \in Term, t < m.term, NEW i \in Nat, Stores(H, m.from, i, t)'
        PROVE  Reaches(r, i, t) \/ LeftOut(H, i, t, m.term)'
    <3>1. HoldsAt(log[m.from], i, t) \/ LeftOut(G, i, t, currentTerm[m.from])
      BY <1>2, <1>6, <2>4 DEF StoredKept
    <3>2. CASE HoldsAt(log[m.from], i, t)
      <4>1. /\ log[m.from] \in Seq(Entry) /\ currentTerm[m.from] \in Term /\ r \in Message
            /\ Rising(log[m.from], currentTerm[m.from])
        BY <1>1, <1>2 DEF TypeOK, LineInv
      <4> QED BY <2>2, <3>2, <4>1, UpToDateReaches
    <3>3. CASE LeftOut(G, i, t, currentTerm[m.from])
      BY <1>2, <1>5, <2>3, <3>3, LeftOutStays
    <3> QED BY <3>1, <3>2, <3>3
  <2> QED BY <1>3, <2>2, <2>4
<1> QED BY <1>7, <1>8

LEMMA CandidateLogNext ==
  ASSUME NEW G \in Lines, NEW H \in Lines, Sound(G), Sound(H)', [Next]_vars, CandidateLog
  PROVE  CandidateLog'
<1> SUFFICES ASSUME NEW r \in msgs', r.type = "RequestVote", role'[r.from] = "Candidate",
                    r.term = currentTerm'[r.from]
             PROVE  r.lastIndex = Len(log'[r.from]) /\ r.lastTerm = LastTerm(log'[r.from])
  BY DEF CandidateLog, LastTerm
<1>1. TypeOK /\ TypeOK' /\ ElectionInv
  BY DEF Sound
<1>2. r.from \in Node /\ r.term \in Term /\ r.term \in Nat
  BY <1>1, MessageFields, TermIsNat DEF TypeOK
<1>3. CASE r \notin msgs
  BY <1>1, <1>3, SendsNext DEF Sends, Sent
<1>4. CASE r \in msgs
  <2>1. r.term <= currentTerm[r.from]
    <3>1. <<r.from, r.from, r.term>> \in Ballots
      BY <1>4 DEF Ballots
    <3> QED BY <1>1, <1>2, <3>1 DEF ElectionInv, BallotStands
  <2>2. currentTerm[r.from] \in Nat
    BY <1>1, <1>2, TermIsNat DEF TypeOK
  <2>3. CandidateGoesOn(r.from)
    BY <1>1, <1>2, <2>1, <2>2, CandidateNext
  <2> QED BY <1>4, <2>3 DEF CandidateGoesOn, CandidateLog
<1> QED BY <1>3, <1>4

\* Whatever a node that voted for the new leader has stored is in the log the
\* leader is elected with, unless an earlier leader had left it out.
LEMMA VoterHeard ==
  ASSUME NEW G \in Lines, Sound(G), StoredKept(G), VotersInformed(G), CandidateLog,
         NEW c \in Node, NEW v \in Node, role[c] = "Candidate", ~Announced(currentTerm[c]),
         <<v, c, currentTerm[c]>> \in Ballots,
         NEW t \in Term, t < currentTerm[c], NEW i \in Nat, Stores(G, v, i, t)
  PROVE  HoldsAt(log[c], i, t) \/ LeftOut(G, i, t, currentTerm[c] - 1)
<1> DEFINE u == currentTerm[c]
           lg == log[c]
<1>1. TypeOK /\ ElectionInv /\ LineInv(G)
  BY DEF Sound
<1>2. /\ u \in Term /\ u \in Nat /\ t \in Nat /\ lg \in Seq(Entry) /\ Len(lg) \in Nat
      /\ Lined(lg, G) /\ Rising(lg, u)
  BY <1>1, TermIsNat, LenProperties DEF TypeOK, LineInv
<1> HIDE DEF u, lg
<1>3. LeftOut(G, i, t, u) => LeftOut(G, i, t, u - 1)
  <2> SUFFICES ASSUME NEW w \in Term, t < w, w <= u, Announced(w), ~HoldsAt(G[w], i, t)
               PROVE  LeftOut(G, i, t, u - 1)
    BY DEF LeftOut
  <2>1. w # u /\ w \in Nat
    BY TermIsNat DEF u
  <2>2. w <= u - 1
    BY <1>2, <2>1
  <2> QED BY <2>2 DEF LeftOut
<1>4. CASE v = c
  <2>1. HoldsAt(lg, i, t) \/ LeftOut(G, i, t, u)
    BY <1>4 DEF StoredKept, u, lg
  <2> QED BY <1>3, <2>1 DEF u, lg
<1>5. CASE v # c
  <2>1. PICK m \in msgs : /\ m.type = "VoteResponse" /\ m.granted
                          /\ m.from = v /\ m.to = c /\ m.term = u
    BY <1>5 DEF Ballots, u
  <2>2. PICK r \in msgs :
          /\ r.type = "RequestVote" /\ r.from = c /\ r.term = u
          /\ Reaches(r, i, t) \/ LeftOut(G, i, t, u)
    <3>1. t < m.term /\ Stores(G, m.from, i, t)
      BY <2>1 DEF u
    <3> QED BY <2>1, <3>1 DEF VotersInformed
  <2>3. r.lastIndex = Len(lg) /\ r.lastTerm = LastTerm(lg)
    BY <2>2 DEF CandidateLog, u, lg
  <2>4. CASE Reaches(r, i, t)
    <3>1. LastTerm(lg) > t \/ (LastTerm(lg) = t /\ Len(lg) >= i)
      BY <2>3, <2>4 DEF Reaches
    <3>2. HoldsAt(G[t], i, t) /\ G[t] \in Seq(Entry)
      BY DEF Stores, Lines
    <3>3. i \in 1..Len(G[t]) /\ 1 <= i
      BY <3>2 DEF HoldsAt
    <3>4. lg # <<>>
      <4>1. CASE lg = <<>>
        <5>1. LastTerm(lg) = 0 /\ Len(lg) = 0
          BY <4>1, EmptySeq DEF LastTerm
        <5> QED BY <1>2, <3>1, <3>3, <5>1
      <4> QED BY <4>1
    <3>5. Len(lg) \in 1..Len(lg)
      BY <1>2, <3>4, EmptySeq
    <3>6. PICK w : w = lg[Len(lg)].term
      OBVIOUS
    <3>7. LastTerm(lg) = w /\ w \in Term /\ w \in Nat /\ SameTo(lg, G[w], Len(lg))
      BY <1>2, <3>4, <3>5, <3>6, LogEntry DEF LastTerm, Lined
    <3>8. CASE w = t
      <4>1. i <= Len(lg) /\ SameTo(lg, G[t], Len(lg))
        BY <1>2, <3>1, <3>7, <3>8
      <4>2. HoldsAt(lg, i, t)
        BY <1>2, <3>2, <4>1, HoldsSame
      <4> QED BY <4>2 DEF lg
    <3>9. CASE w > t
      <4>1. HoldsAt(G[w], Len(lg), w) /\ G[w] \in Seq(Entry) /\ Len(G[w]) \in Nat
        BY <1>2, <3>5, <3>6, <3>7, LenProperties DEF HoldsAt, SameTo, Lines
      <4>2. Announced(w) /\ Rising(G[w], w)
        BY <1>1, <3>7, <4>1, LineFacts
      <4>3. w <= u /\ w # u
        <5>1. Len(lg) <= Len(lg)
          BY <1>2
        <5> QED BY <1>2, <3>5, <3>6, <4>2, <5>1 DEF Rising, u
      <4>4. CASE HoldsAt(G[w], i, t)
        <5>1. i <= Len(lg)
          <6>1. ASSUME Len(lg) <= i PROVE w <= t
            BY <4>1, <4>2, <4>4, <6>1 DEF Rising, HoldsAt
          <6> QED BY <1>2, <3>7, <3>9, <6>1
        <5>2. HoldsAt(lg, i, t)
          BY <1>2, <3>7, <4>1, <4>4, <5>1, HoldsSame
        <5> QED BY <5>2 DEF lg
      <4>5. CASE ~HoldsAt(G[w], i, t)
        <5>1. LeftOut(G, i, t, u)
          BY <3>7, <3>9, <4>2, <4>3, <4>5 DEF LeftOut
        <5> QED BY <1>3, <5>1 DEF u
      <4> QED BY <4>4, <4>5
    <3> QED BY <3>1, <3>7, <3>8, <3>9
  <2> QED BY <1>3, <2>2, <2>4 DEF u
<1> QED BY <1>4, <1>5

LEMMA LeadersInformedNext ==
  ASSUME NEW G \in Lines, NEW H \in Lines, Sound(G), Sound(H)', [Next]_vars, Evolves(G, H),
         StoredKept(G), VotersInformed(G), CandidateLog, LeadersInformed(G)
  PROVE  LeadersInformed(H)'
<1> SUFFICES ASSUME NEW u \in Term, Announced(u)'
             PROVE  \E V \in SUBSET Node :
                      /\ IsMajority(V)
                      /\ \A v \in V :
                           /\ u <= currentTerm'[v]
                           /\ \A t \in Term, i \in Nat : t < u /\ Stores(H, v, i, t)' =>
                                HoldsAt(H[u], i, t) \/ LeftOut(H, i, t, u - 1)'
  BY DEF LeadersInformed, LeaderInformed
<1>1. /\ TypeOK /\ TypeOK' /\ ElectionInv /\ ElectionInv' /\ LeadersStay /\ LineInv(G) /\ LineInv(H)'
  BY DEF Sound
<1>2. u \in Nat /\ \A v \in Node : /\ currentTerm[v] \in Nat /\ currentTerm'[v] \in Nat
                                   /\ currentTerm[v] <= currentTerm'[v]
  BY <1>1, TermIsNat, TermsRise
<1>3. ASSUME NEW v \in Node, u <= currentTerm[v],
             \A t \in Term, i \in Nat : t < u /\ Stores(G, v, i, t) =>
               HoldsAt(H[u], i, t) \/ LeftOut(G, i, t, u - 1)
      PROVE  /\ u <= currentTerm'[v]
             /\ \A t \in Term, i \in Nat : t < u /\ Stores(H, v, i, t)' =>
                  HoldsAt(H[u], i, t) \/ LeftOut(H, i, t, u - 1)'
  <2>1. u <= currentTerm'[v]
    BY <1>2, <1>3
  <2>2. ASSUME NEW t \in Term, NEW i \in Nat, t < u, Stores(H, v, i, t)'
        PROVE  HoldsAt(H[u], i, t) \/ LeftOut(H, i, t, u - 1)'
    <3>1. t \in Nat /\ u - 1 \in Nat /\ u - 1 <= u - 1
      BY <1>2, <2>2, TermIsNat
    <3>2. t # currentTerm'[v]
      BY <1>2, <2>1, <2>2, <3>1
    <3>3. Stores(G, v, i, t)
      BY <2>2, <3>2 DEF Evolves
    <3>4. HoldsAt(H[u], i, t) \/ LeftOut(G, i, t, u - 1)
      BY <1>3, <2>2, <3>3
    <3> QED BY <3>1, <3>4, LeftOutStays
  <2> QED BY <2>1, <2>2
<1>4. CASE Announced(u)
  <2>1. PICK V \in SUBSET Node :
          /\ IsMajority(V)
          /\ \A v \in V :
               /\ u <= currentTerm[v]
               /\ \A t \in Term, i \in Nat : t < u /\ Stores(G, v, i, t) =>
                    HoldsAt(G[u], i, t) \/ LeftOut(G, i, t, u - 1)
    BY <1>4 DEF LeadersInformed, LeaderInformed
  <2>2. ASSUME NEW v \in V
        PROVE  \A t \in Term, i \in Nat : t < u /\ Stores(G, v, i, t) =>
                 HoldsAt(H[u], i, t) \/ LeftOut(G, i, t, u - 1)
    BY <2>1, EvolvesHolds
  <2> QED BY <1>3, <2>1, <2>2
<1>5. CASE ~Announced(u)
  <2>1. PICK c \in Node : <<c, u>> \in Leads' /\ <<c, u>> \notin Leads
    BY <1>5 DEF Announced
  <2>2. u = currentTerm'[c] /\ role'[c] = "Leader"
    BY <1>1, <2>1, FreshLead
  <2>3. Elected(c)
    <3>1. CASE LeaderGoesOn(c)
      BY <1>1, <2>1, <2>2, <3>1 DEF LeaderGoesOn, ElectionInv, RoleEarned
    <3> QED BY <1>1, <2>2, <3>1, LeaderNext
  <2>4. role[c] = "Candidate" /\ currentTerm[c] = u /\ log'[c] = log[c] /\ H[u] = log'[c]
    BY <1>1, <2>2, <2>3 DEF Elected, LineInv
  <2>5. PICK V \in SUBSET Node : IsMajority(V) /\ \A v \in V : <<v, c, u>> \in Ballots
    BY <2>3, <2>4 DEF Elected
  <2>6. ASSUME NEW v \in V
        PROVE  /\ u <= currentTerm[v]
               /\ \A t \in Term, i \in Nat : t < u /\ Stores(G, v, i, t) =>
                    HoldsAt(H[u], i, t) \/ LeftOut(G, i, t, u - 1)
    <3>1. u <= currentTerm[v]
      BY <1>1, <2>5 DEF ElectionInv, BallotStands
    <3>2. \A t \in Term, i \in Nat : t < u /\ Stores(G, v, i, t) =>
            HoldsAt(log[c], i, t) \/ LeftOut(G, i, t, u - 1)
      BY <1>5, <2>4, <2>5, VoterHeard
    <3> QED BY <2>4, <3>1, <3>2
  <2> QED BY <1>3, <2>5, <2>6
<1> QED BY <1>4, <1>5

LEMMA IndexesKnownNext ==
  ASSUME NEW G \in Lines, NEW H \in Lines, Sound(G), Sound(H)', [Next]_vars, Evolves(G, H),
         AcksKnown(G), IndexesKnown
  PROVE  IndexesKnown'
<1>1. /\ TypeOK /\ TypeOK' /\ ElectionInv /\ ElectionInv' /\ LeadersStay /\ LineInv(G) /\ LineInv(H)'
  BY DEF Sound
<1> SUFFICES ASSUME NEW n \in Node, role'[n] = "Leader"
             PROVE  /\ \A p \in Node \ {n} :
                         /\ nextIndex'[n][p] <= Len(log'[n]) + 1
                         /\ matchIndex'[n][p] = 0 \/ Acked(p, matchIndex[n][p], currentTerm[n])'
                    /\ matchIndex'[n][n] <= Len(log'[n])
                    /\ \A i \in 1..Len(log'[n]) :
                         log'[n][i].term = currentTerm'[n] => matchIndex'[n][n] < i
  BY DEF IndexesKnown
<1>2. /\ log[n] \in Seq(Entry) /\ log'[n] \in Seq(Entry) /\ Len(log[n]) \in Nat /\ Len(log'[n]) \in Nat
      /\ currentTerm[n] \in Term /\ currentTerm[n] \in Nat /\ matchIndex[n][n] \in Nat
      /\ \A p \in Node : nextIndex[n][p] \in Nat /\ nextIndex'[n][p] \in Nat
  BY <1>1, LenProperties, TermIsNat DEF TypeOK
<1>3. CASE Elected(n)
  <2>1. /\ log'[n] = log[n] /\ currentTerm'[n] = currentTerm[n] /\ matchIndex'[n][n] = Len(log[n])
        /\ \A p \in Node \ {n} : nextIndex'[n][p] = Len(log[n]) + 1 /\ matchIndex'[n][p] = 0
    BY <1>3 DEF Elected
  <2>2. ASSUME NEW i \in 1..Len(log[n]), log[n][i].term = currentTerm[n] PROVE FALSE
    <3>1. HoldsAt(G[currentTerm[n]], i, currentTerm[n])
      <4>1. SameTo(log[n], G[currentTerm[n]], i)
        BY <1>1, <2>2 DEF LineInv, Lined
      <4> QED BY <1>2, <2>2, <4>1 DEF HoldsAt, SameTo
    <3>2. PICK l \in Node : <<l, currentTerm[n]>> \in Leads
      BY <1>1, <1>2, <3>1, LineFacts DEF Announced
    <3>3. l = n
      <4>1. OneEach'
        BY <1>1, LeadersUnique, PTL
      <4>2. <<n, currentTerm[n]>> \in Leads' /\ <<l, currentTerm[n]>> \in Leads'
        BY <1>1, <2>1, <3>2 DEF ElectionInv, RoleEarned, Evolves
      <4> QED BY <1>2, <4>1, <4>2 DEF OneEach
    <3> QED BY <1>1, <1>2, <1>3, <3>2, <3>3 DEF LeadersStay, Elected
  <2> QED BY <1>2, <2>1, <2>2
<1>4. CASE LeaderGoesOn(n)
  <2>1. role[n] = "Leader" /\ currentTerm'[n] = currentTerm[n] /\ matchIndex'[n][n] = matchIndex[n][n]
    BY <1>4 DEF LeaderGoesOn
  <2>2. /\ matchIndex[n][n] <= Len(log[n])
        /\ \A i \in 1..Len(log[n]) : log[n][i].term = currentTerm[n] => matchIndex[n][n] < i
        /\ \A p \in Node \ {n} :
             /\ nextIndex[n][p] <= Len(log[n]) + 1
             /\ matchIndex[n][p] = 0 \/ Acked(p, matchIndex[n][p], currentTerm[n])
    BY <2>1 DEF IndexesKnown
  <2>3. /\ Len(log[n]) <= Len(log'[n])
        /\ \A i \in 1..Len(log'[n]) : log'[n][i].term = currentTerm[n] => matchIndex[n][n] < i
    <3>1. CASE log'[n] = log[n]
      BY <1>2, <2>2, <3>1
    <3>2. ASSUME NEW e \in Entry, log'[n] = Append(log[n], e)
          PROVE  /\ Len(log[n]) <= Len(log'[n])
                 /\ \A i \in 1..Len(log'[n]) : log'[n][i].term = currentTerm[n] => matchIndex[n][n] < i
      <4>1. Len(log'[n]) = Len(log[n]) + 1 /\ \A i \in 1..Len(log[n]) : log'[n][i] = log[n][i]
        BY <1>2, <3>2, AppendProperties
      <4> QED BY <1>2, <2>2, <4>1, SMTT(20)
    <3> QED BY <1>1, <2>1, <3>1, <3>2, LeaderLogNext
  <2>4. ASSUME NEW p \in Node \ {n}
        PROVE  /\ nextIndex'[n][p] <= Len(log'[n]) + 1
               /\ matchIndex'[n][p] = 0 \/ \E a \in Acks' : /\ a.from = p /\ a.term = currentTerm[n]
                                                            /\ matchIndex'[n][p] <= a.match
    <3>1. CASE nextIndex'[n][p] <= nextIndex[n][p] /\ matchIndex'[n][p] = matchIndex[n][p]
      BY <1>2, <2>2, <2>3, <3>1 DEF Acked, Evolves
    <3>2. CASE Learns(n, p)
      <4>1. PICK a \in Acks : /\ a.from = p /\ a.term = currentTerm[n]
                              /\ nextIndex'[n][p] = a.match + 1 /\ matchIndex'[n][p] = a.match
        BY <3>2 DEF Learns
      <4>2. a.match \in Nat
        BY <1>1, MessageFields DEF Acks, TypeOK
      <4>3. a.match <= Len(log[n])
        BY <1>1, <2>1, <4>1 DEF AcksKnown, LineInv
      <4> QED BY <1>2, <2>3, <4>1, <4>2, <4>3 DEF Evolves
    <3> QED BY <1>4, <3>1, <3>2 DEF LeaderGoesOn
  <2> QED BY <1>2, <2>1, <2>2, <2>3, <2>4 DEF Acked
<1> QED BY <1>1, <1>3, <1>4, LeaderNext

\* What advance_commit counts is chosen: the leader is not among the nodes it
\* counts for an entry of its own term, so adding one for it is right.
LEMMA AdvanceChosen ==
  ASSUME NEW H \in Lines, Sound(H)', IndexesKnown', NEW n \in Node, Advances(n)
  PROVE  Chosen(H, commitIndex[n], currentTerm[n])'
<1>0. PICK c, t : c = commitIndex'[n] /\ t = currentTerm'[n]
  OBVIOUS
<1> DEFINE P == {p \in Node : matchIndex'[n][p] >= c}
<1>1. TypeOK' /\ ElectionInv' /\ LineInv(H)'
  BY DEF Sound
<1>2. /\ role'[n] = "Leader" /\ c \in 1..Len(log'[n]) /\ c \in Nat /\ log'[n][c].term = t
      /\ t \in Term /\ H[t] = log'[n]
      /\ \A p \in Node : matchIndex'[n][p] \in Nat
  BY <1>0, <1>1 DEF Advances, LineInv, TypeOK
<1>3. Cardinality(P) + 1 >= Cardinality(Node) \div 2 + 1
  BY <1>0 DEF Advances, Replicated
<1>4. n \notin P
  BY <1>0, <1>2 DEF IndexesKnown
<1>5. ASSUME NEW p \in P \cup {n} PROVE Stores(H, p, c, t)'
  <2>1. HoldsAt(H[t], c, t)
    BY <1>2 DEF HoldsAt
  <2>2. CASE p = n
    <3>1. <<n, t>> \in Leads'
      BY <1>0, <1>1, <1>2 DEF ElectionInv, RoleEarned
    <3> QED BY <2>1, <2>2, <3>1 DEF Stores
  <2>3. CASE p # n
    <3>1. p \in Node \ {n} /\ matchIndex'[n][p] >= c /\ matchIndex'[n][p] # 0
      BY <1>2, <2>3
    <3>2. PICK a \in Acks' : a.from = p /\ a.term = t /\ matchIndex'[n][p] <= a.match
      BY <1>0, <1>2, <3>1 DEF IndexesKnown, Acked
    <3>3. a.match \in Nat
      BY <1>1, MessageFields DEF Acks, TypeOK
    <3>4. c <= a.match
      BY <1>2, <3>1, <3>2, <3>3
    <3> QED BY <2>1, <3>2, <3>4 DEF Stores, Acked
  <2> QED BY <2>2, <2>3
<1>6. IsMajority(P \cup {n})
  <2>1. IsFiniteSet(P)
    BY MembershipAssumption, FS_Subset
  <2>2. Cardinality(P \cup {n}) = Cardinality(P) + 1
    BY <1>4, <2>1, FS_AddElement
  <2> QED BY <1>3, <2>2 DEF IsMajority
<1>7. P \cup {n} \in SUBSET Node
  OBVIOUS
<1> HIDE DEF P
<1>8. \E Q \in SUBSET Node : IsMajority(Q) /\ \A v \in Q : Stores(H, v, c, t)'
  BY <1>5, <1>6, <1>7
<1> QED BY <1>0, <1>8 DEF Chosen

\* A step leaves what was safe in a log safe in it.
LEMMA CommitKept ==
  ASSUME NEW G \in Lines, NEW H \in Lines, Sound(G), Sound(H)', [Next]_vars, Evolves(G, H),
         LeadersInformed(G), NEW n \in Node, NEW c \in Nat, SafeTo(G, log[n], c, currentTerm[n])
  PROVE  SafeNow(H, log'[n], c, currentTerm'[n])
<1>1. /\ TypeOK /\ TypeOK' /\ ElectionInv /\ LineInv(G)
      /\ log[n] \in Seq(Entry) /\ log'[n] \in Seq(Entry) /\ Len(log[n]) \in Nat
      /\ currentTerm[n] \in Term /\ currentTerm'[n] \in Term /\ currentTerm[n] <= currentTerm'[n]
  BY TermsRise, LenProperties DEF Sound, TypeOK
<1>2. c <= Len(log[n])
  BY <1>1 DEF SafeTo, SameTo
<1>3. SameTo(log'[n], log[n], c)
  <2>1. CASE log'[n] = log[n]
    BY <1>1, <1>2, <2>1, SameSelf, SameFacts
  <2>2. CASE \E e \in Entry : log'[n] = Append(log[n], e)
    BY <1>1, <1>2, <2>2, AppendProperties DEF SameTo
  <2>3. ASSUME NEW m \in Requests, currentTerm[n] <= m.term,
               \A k \in Nat : SameTo(log[n], G[m.term], k) => SameTo(log'[n], G[m.term], k)
        PROVE  SameTo(log'[n], log[n], c)
    <3>1. m.term \in Term /\ Announced(m.term) /\ G[m.term] \in Seq(Entry)
      BY <1>1, MessageFields DEF Requests, TypeOK, Announced, Leads, Lines
    <3>2. SameTo(log[n], G[m.term], c)
      BY <1>1, <2>3, <3>1, SafeOnLine
    <3>3. SameTo(log'[n], G[m.term], c) /\ SameTo(G[m.term], log[n], c)
      BY <1>1, <2>3, <3>1, <3>2, SameFacts
    <3> QED BY <1>1, <3>1, <3>3, SameTransitive
  <2> QED BY <1>1, <2>1, <2>2, <2>3, LogMovesNext DEF LogMoves
<1>4. SafeTo(G, log'[n], c, currentTerm'[n])
  BY <1>1, <1>3, SafeCopy
<1> QED BY <1>1, <1>4, SafeStays

LEMMA CommitsChosenNext ==
  ASSUME NEW G \in Lines, NEW H \in Lines, Sound(G), Sound(H)', [Next]_vars, Evolves(G, H),
         LeadersInformed(G), IndexesKnown', CommitsChosen(G), RequestsChosen(G), ~overstated'
  PROVE  CommitsChosen(H)'
<1> SUFFICES ASSUME NEW n \in Node
             PROVE  SafeNow(H, log'[n], commitIndex'[n], currentTerm'[n])
  BY DEF CommitsChosen, SafeTo, SafeNow
<1>1. /\ TypeOK /\ TypeOK' /\ LineInv(G) /\ LineInv(H)'
      /\ log'[n] \in Seq(Entry) /\ Len(log'[n]) \in Nat
      /\ commitIndex[n] \in Nat /\ commitIndex'[n] \in Nat /\ currentTerm'[n] \in Term
  BY LenProperties DEF Sound, TypeOK
<1>2. CASE commitIndex'[n] = commitIndex[n]
  BY <1>1, <1>2, CommitKept DEF CommitsChosen
<1>3. ASSUME NEW r, FollowsCommit(n, r), commitIndex'[n] # commitIndex[n]
      PROVE  SafeNow(H, log'[n], commitIndex'[n], currentTerm'[n])
  <2>1. /\ r \in Requests /\ r.term = currentTerm'[n] /\ r.commit \in Nat
        /\ G[r.term] \in Seq(Entry) /\ SameTo(log'[n], G[r.term], Len(log'[n]))
    BY <1>1, <1>3, AcceptedLog, MessageFields DEF FollowsCommit, Accepts, Requests, TypeOK, Lines
  <2>2. commitIndex'[n] <= r.commit /\ commitIndex'[n] <= Len(log'[n])
    BY <1>1, <1>3, <2>1 DEF FollowsCommit, Larger, Smaller
  <2>3. SameTo(log'[n], G[r.term], commitIndex'[n])
    BY <1>1, <2>1, <2>2, SameFacts
  <2>4. SafeTo(G, G[r.term], r.commit, r.term)
    BY <2>1 DEF RequestsChosen
  <2>5. currentTerm'[n] <= currentTerm'[n]
    BY <1>1, TermIsNat
  <2>6. SafeTo(G, log'[n], commitIndex'[n], currentTerm'[n])
    BY <1>1, <2>1, <2>2, <2>3, <2>4, <2>5, SafeCopy
  <2> QED BY <1>1, <2>6, SafeStays
<1>4. CASE Advances(n)
  <2>1. Chosen(H, commitIndex[n], currentTerm[n])'
    BY <1>4, AdvanceChosen
  <2>2. /\ H[currentTerm'[n]] = log'[n] /\ commitIndex'[n] <= Len(log'[n])
        /\ commitIndex'[n] <= commitIndex'[n] /\ currentTerm'[n] <= currentTerm'[n]
    BY <1>1, <1>4, TermIsNat DEF Advances, LineInv
  <2>3. SameTo(log'[n], H[currentTerm'[n]], commitIndex'[n])
    BY <1>1, <2>2, SameSelf, SameFacts
  <2> QED BY <1>1, <2>1, <2>2, <2>3 DEF SafeNow
<1> QED BY <1>1, <1>2, <1>3, <1>4, CommitNext

LEMMA RequestsChosenNext ==
  ASSUME NEW G \in Lines, NEW H \in Lines, Sound(G), Sound(H)', [Next]_vars, Evolves(G, H),
         RequestsChosen(G), CommitsChosen(H)'
  PROVE  RequestsChosen(H)'
<1> SUFFICES ASSUME NEW m \in Requests' PROVE SafeNow(H, H[m.term], m.commit, m.term)
  BY DEF RequestsChosen, SafeTo, SafeNow
<1>1. TypeOK /\ TypeOK' /\ LineInv(G) /\ LineInv(H)'
  BY DEF Sound
<1>2. /\ m \in msgs' /\ m.type = "AppendEntries" /\ m.term \in Term /\ m.commit \in Nat /\ m.from \in Node
      /\ G[m.term] \in Seq(Entry) /\ H[m.term] \in Seq(Entry)
  BY <1>1, MessageFields DEF Requests, TypeOK, Lines
<1>3. CASE m \in msgs
  <2>1. SafeTo(G, G[m.term], m.commit, m.term)
    BY <1>2, <1>3 DEF RequestsChosen, Requests
  <2>2. m.commit <= Len(G[m.term])
    BY <1>2, <2>1, LenProperties DEF SafeTo, SameTo
  <2>3. SameTo(H[m.term], G[m.term], m.commit)
    <3>1. SameTo(G[m.term], H[m.term], Len(G[m.term]))
      BY <1>2 DEF Evolves, Longer
    <3>2. SameTo(G[m.term], H[m.term], m.commit)
      BY <1>2, <2>2, <3>1, LenProperties, SameFacts
    <3> QED BY <1>2, <3>2, SameFacts
  <2>4. m.commit <= m.commit /\ m.term <= m.term
    BY <1>2, TermIsNat
  <2>5. SafeTo(G, H[m.term], m.commit, m.term)
    BY <1>2, <2>1, <2>3, <2>4, SafeCopy
  <2> QED BY <1>2, <2>5, SafeStays
<1>4. CASE m \notin msgs
  <2>1. Sent(m)
    BY <1>1, <1>2, <1>4, SendsNext DEF Sends
  <2>2. /\ m.term = currentTerm'[m.from] /\ m.commit = commitIndex'[m.from]
        /\ H[m.term] = log'[m.from]
    BY <1>1, <1>2, <2>1 DEF Sent, LineInv
  <2> QED BY <1>2, <2>2 DEF CommitsChosen, SafeTo, SafeNow
<1> QED BY <1>3, <1>4

LEMMA AppliedChosenNext ==
  ASSUME NEW G \in Lines, NEW H \in Lines, Sound(G), Sound(H)', [Next]_vars, Evolves(G, H),
         LeadersInformed(G), CommitsChosen(G), AppliedChosen(G)
  PROVE  AppliedChosen(H)'
<1> SUFFICES ASSUME NEW n \in Node
             PROVE  SafeNow(H, applied'[n], Len(applied'[n]), currentTerm'[n])
  BY DEF AppliedChosen, SafeTo, SafeNow
<1>1. /\ TypeOK /\ TypeOK' /\ LineInv(G)
      /\ applied[n] \in Seq(Entry) /\ applied'[n] \in Seq(Entry) /\ log[n] \in Seq(Entry)
      /\ Len(applied[n]) \in Nat /\ Len(applied'[n]) \in Nat /\ Len(log[n]) \in Nat
      /\ commitIndex[n] \in Nat
      /\ currentTerm[n] \in Term /\ currentTerm'[n] \in Term /\ currentTerm[n] <= currentTerm'[n]
  BY TermsRise, LenProperties DEF Sound, TypeOK
<1>2. SafeTo(G, applied[n], Len(applied[n]), currentTerm[n])
  BY DEF AppliedChosen
<1>3. SafeTo(G, applied'[n], Len(applied'[n]), currentTerm'[n])
  <2>1. CASE applied'[n] = applied[n]
    BY <1>1, <1>2, <2>1, SameSelf, SafeCopy
  <2>2. CASE Takes(n)
    <3> DEFINE a == applied[n]
               s == SubSeq(log[n], Len(a) + 1, commitIndex[n])
    <3>1. SafeTo(G, log[n], commitIndex[n], currentTerm[n])
      BY DEF CommitsChosen
    <3>2. Len(a) < commitIndex[n] /\ commitIndex[n] <= Len(log[n]) /\ applied'[n] = a \o s
      BY <2>2 DEF Takes
    <3>3. SameTo(a, log[n], Len(a))
      BY <1>1, <1>2, <3>1, <3>2, SafeMeet DEF Sound
    <3>4. /\ s \in Seq(Entry) /\ Len(s) = commitIndex[n] - Len(a)
          /\ \A k \in 1..Len(s) : s[k] = log[n][Len(a) + k]
      <4>1. \A k \in (Len(a) + 1)..commitIndex[n] : log[n][k] \in Entry
        BY <1>1, <3>2, ElementOfSeq
      <4>2. /\ s \in Seq(Entry)
            /\ Len(s) = IF Len(a) + 1 <= commitIndex[n] THEN commitIndex[n] - (Len(a) + 1) + 1 ELSE 0
            /\ \A k \in 1..(commitIndex[n] - (Len(a) + 1) + 1) : s[k] = log[n][Len(a) + 1 + k - 1]
        BY <1>1, <4>1, SubSeqProperties
      <4> HIDE DEF s
      <4>3. Len(s) = commitIndex[n] - Len(a)
        BY <1>1, <3>2, <4>2
      <4>4. ASSUME NEW k \in 1..Len(s) PROVE s[k] = log[n][Len(a) + k]
        <5>1. k \in 1..(commitIndex[n] - (Len(a) + 1) + 1) /\ Len(a) + 1 + k - 1 = Len(a) + k
          BY <1>1, <4>3
        <5> QED BY <4>2, <5>1
      <4> QED BY <4>2, <4>3, <4>4
    <3> HIDE DEF a, s
    <3>5. /\ Len(applied'[n]) = commitIndex[n]
          /\ \A k \in 1..commitIndex[n] :
               applied'[n][k] = IF k <= Len(a) THEN a[k] ELSE s[k - Len(a)]
      <4>1. a \in Seq(Entry) /\ Len(a) \in Nat /\ Len(s) \in Nat
        BY <1>1, <3>2, <3>4 DEF a
      <4>2. /\ Len(a \o s) = Len(a) + Len(s)
            /\ \A k \in 1..Len(a) + Len(s) : (a \o s)[k] = IF k <= Len(a) THEN a[k] ELSE s[k - Len(a)]
        BY <3>4, <4>1, ConcatProperties
      <4>3. Len(a) + Len(s) = commitIndex[n]
        BY <1>1, <3>4, <4>1
      <4> QED BY <3>2, <4>2, <4>3
    <3>6. \A k \in 1..commitIndex[n] : applied'[n][k] = log[n][k]
      <4> SUFFICES ASSUME NEW k \in 1..commitIndex[n] PROVE applied'[n][k] = log[n][k]
        OBVIOUS
      <4>1. Len(a) \in Nat
        BY <1>1 DEF a
      <4>2. CASE k <= Len(a)
        BY <3>3, <3>5, <4>1, <4>2 DEF SameTo
      <4>3. CASE k > Len(a)
        <5>1. k - Len(a) \in 1..Len(s) /\ Len(a) + (k - Len(a)) = k
          BY <1>1, <3>4, <4>1, <4>3
        <5>2. s[k - Len(a)] = log[n][Len(a) + (k - Len(a))]
          BY <3>4, <5>1
        <5> QED BY <3>5, <4>1, <4>3, <5>1, <5>2
      <4> QED BY <1>1, <4>1, <4>2, <4>3
    <3>7. SameTo(applied'[n], log[n], commitIndex[n])
      BY <1>1, <3>2, <3>5, <3>6 DEF SameTo
    <3>8. commitIndex[n] <= commitIndex[n]
      BY <1>1
    <3> QED BY <1>1, <3>1, <3>5, <3>7, <3>8, SafeCopy
  <2> QED BY <1>1, <2>1, <2>2, AppliedNext
<1> QED BY <1>1, <1>3, SafeStays

LEMMA NoPanicNext ==
  ASSUME TypeOK, ElectionInv, [Next]_vars, NEW G \in Lines, IndexesKnown, CommitsChosen(G), NoPanic
  PROVE  NoPanic'
<1> SUFFICES ASSUME NEW n \in Node, Overruns(n) PROVE FALSE
  BY PanicNext DEF NoPanic
<1>1. /\ Len(log[n]) \in Nat /\ commitIndex[n] \in Nat
      /\ \A p \in Node : nextIndex[n][p] \in Nat
  BY LenProperties DEF TypeOK
<1>2. commitIndex[n] <= Len(log[n])
  BY <1>1 DEF CommitsChosen, SafeTo, SameTo
<1> QED BY <1>1, <1>2 DEF Overruns, IndexesKnown

LEMMA SafeInit ==
  ASSUME Init, NEW G \in Lines PROVE SafeInv(G)
<1>1. /\ msgs = {} /\ Acks = {} /\ Leads = {} /\ Requests = {}
      /\ \A n \in Node : role[n] = "Follower" /\ commitIndex[n] = 0 /\ applied[n] = <<>>
      /\ panicked = {}
  BY DEF Init, Acks, Leads, Requests
<1>2. \A n \in Node : Len(applied[n]) = 0
  BY <1>1, EmptySeq
<1>3. \A v, i, t : ~Stores(G, v, i, t)
  BY <1>1 DEF Stores, Acked
<1>4. AcksKnown(G) /\ StoredKept(G) /\ VotersInformed(G) /\ CandidateLog
  BY <1>1, <1>3 DEF AcksKnown, StoredKept, VotersInformed, CandidateLog
<1>5. LeadersInformed(G) /\ IndexesKnown /\ RequestsChosen(G) /\ NoPanic
  BY <1>1 DEF LeadersInformed, Announced, IndexesKnown, RequestsChosen, NoPanic
<1>6. CommitsChosen(G) /\ AppliedChosen(G)
  BY <1>1, <1>2 DEF CommitsChosen, AppliedChosen, SafeTo
<1> QED BY <1>4, <1>5, <1>6 DEF SafeInv

LEMMA SafeNext ==
  ASSUME NEW G \in Lines, NEW H \in Lines, Sound(G), Sound(H)', Succeeds(G, H), [Next]_vars,
         ~overstated', SafeInv(G)
  PROVE  SafeInv(H)'
<1>1. /\ AcksKnown(G) /\ StoredKept(G) /\ VotersInformed(G) /\ CandidateLog
      /\ LeadersInformed(G) /\ IndexesKnown /\ CommitsChosen(G) /\ RequestsChosen(G)
      /\ AppliedChosen(G) /\ NoPanic
  BY DEF SafeInv
<1>2. Evolves(G, H)
  BY <1>1, EvolvesNext
<1>3. AcksKnown(H)'
  BY <1>1, <1>2, AcksKnownNext
<1>4. StoredKept(H)'
  BY <1>1, <1>2, StoredKeptNext
<1>5. VotersInformed(H)'
  BY <1>1, <1>2, VotersInformedNext
<1>6. CandidateLog'
  BY <1>1, CandidateLogNext
<1>7. LeadersInformed(H)'
  BY <1>1, <1>2, LeadersInformedNext
<1>8. IndexesKnown'
  BY <1>1, <1>2, IndexesKnownNext
<1>9. CommitsChosen(H)'
  BY <1>1, <1>2, <1>8, CommitsChosenNext
<1>10. RequestsChosen(H)'
  BY <1>1, <1>2, <1>9, RequestsChosenNext
<1>11. AppliedChosen(H)'
  BY <1>1, <1>2, AppliedChosenNext
<1>12. NoPanic'
  BY <1>1, NoPanicNext DEF Sound
<1> QED BY <1>3, <1>4, <1>5, <1>6, <1>7, <1>8, <1>9, <1>10, <1>11, <1>12 DEF SafeInv

-----------------------------------------------------------------------------
\* The inductive invariant of SafeUnlessOverstated: the lines that explain the
\* logs also explain what is stored, as long as no answer was too long.
RaftInv == LeadersStay /\ \E G \in Lines : LineInv(G) /\ (~overstated => SafeInv(G))

LEMMA RaftInit == Init => RaftInv
<1>1. Init => LogInv
  BY LogInit
<1> QED BY <1>1, SafeInit DEF LogInv, RaftInv

LEMMA RaftNext ==
  ASSUME TypeOK, TypeOK', ElectionInv, ElectionInv', RaftInv, [Next]_vars PROVE RaftInv'
<1>1. PICK G \in Lines : LineInv(G) /\ (~overstated => SafeInv(G))
  BY DEF RaftInv
<1>2. LeadersStay /\ LineKept(G)
  BY <1>1, LogNext DEF RaftInv
<1>3. PICK H \in Lines : LineInv(H)' /\ Succeeds(G, H)
  BY <1>2 DEF LineKept
<1>4. Sound(G) /\ Sound(H)'
  BY <1>1, <1>2, <1>3 DEF Sound, LineKept
<1>5. ASSUME ~overstated' PROVE SafeInv(H)'
  BY <1>1, <1>3, <1>4, <1>5, OverstatedStays, SafeNext
<1> QED BY <1>2, <1>3, <1>5 DEF RaftInv, LineKept

\* A majority has stored what a leader has committed in its own term, and no
\* later leader has left it out.
LEMMA CommittedHeld ==
  ASSUME NEW G \in Lines, Sound(G), SafeInv(G) PROVE CommittedOnMajority
<1> SUFFICES ASSUME NEW n \in Node, role[n] = "Leader",
                    NEW i \in 1..Smaller(commitIndex[n], Len(log[n])),
                    log[n][i].term = currentTerm[n]
             PROVE  HeldByMajority(n, i)
  BY DEF CommittedOnMajority
<1>1. /\ TypeOK /\ LineInv(G) /\ StoredKept(G) /\ LeadersInformed(G) /\ CommitsChosen(G)
  BY DEF Sound, SafeInv
<1>2. /\ commitIndex[n] \in Nat /\ Len(log[n]) \in Nat /\ log[n] \in Seq(Entry)
      /\ currentTerm[n] \in Term /\ currentTerm[n] \in Nat
  BY <1>1, LenProperties, TermIsNat DEF TypeOK
<1>3. i \in Nat /\ 1 <= i /\ i <= commitIndex[n] /\ i <= Len(log[n])
  BY <1>2 DEF Smaller
<1>4. PICK t \in Term, j \in Nat : /\ Chosen(G, j, t) /\ t <= currentTerm[n] /\ commitIndex[n] <= j
                                   /\ SameTo(log[n], G[t], commitIndex[n])
  BY <1>1, <1>2, <1>3 DEF CommitsChosen, SafeTo
<1>5. /\ G[t] \in Seq(Entry) /\ Len(G[t]) \in Nat /\ Lined(G[t], G) /\ Rising(G[t], t) /\ t \in Nat
      /\ HoldsAt(G[t], j, t)
  BY <1>1, <1>4, ChosenHeld, LineFacts
<1>6. i \in 1..Len(G[t]) /\ G[t][i] = log[n][i]
  BY <1>2, <1>3, <1>4, <1>5 DEF SameTo
<1>7. PICK Q \in SUBSET Node : IsMajority(Q) /\ \A v \in Q : Stores(G, v, j, t)
  BY <1>4 DEF Chosen
<1>8. ASSUME NEW v \in Q PROVE Len(log[v]) >= i /\ log[v][i] = log[n][i]
  <2>1. HoldsAt(log[v], j, t)
    BY <1>1, <1>4, <1>7, ChosenOnLines DEF StoredKept
  <2>2. log[v] \in Seq(Entry) /\ Len(log[v]) \in Nat /\ Lined(log[v], G)
    BY <1>1, LenProperties DEF TypeOK, LineInv
  <2>3. SameTo(log[v], G[t], j)
    BY <1>5, <2>1, <2>2, HoldsMeet
  <2> QED BY <1>3, <1>4, <1>6, <1>2, <2>2, <2>3 DEF SameTo
<1>9. PICK K : K = {p \in Node : Len(log[p]) >= i /\ log[p][i] = log[n][i]}
  OBVIOUS
<1>10. Q \subseteq K /\ K \subseteq Node
  BY <1>8, <1>9
<1>11. IsFiniteSet(K) /\ IsFiniteSet(Q) /\ Cardinality(Q) <= Cardinality(K)
  BY <1>10, MembershipAssumption, FS_Subset
<1>12. Cardinality(Q) \in Nat /\ Cardinality(K) \in Nat /\ Cardinality(Node) \in Nat
  BY <1>11, MembershipAssumption, FS_CardinalityType
<1> QED BY <1>7, <1>9, <1>11, <1>12 DEF HeldByMajority, IsMajority

LEMMA RaftInvImpliesSafety == TypeOK /\ ElectionInv /\ RaftInv => SafeUnlessOverstated
<1> SUFFICES ASSUME TypeOK, ElectionInv, RaftInv, ~overstated
             PROVE  StateMachineSafety /\ CommittedOnMajority /\ NoPanic
  BY DEF SafeUnlessOverstated
<1>1. PICK G \in Lines : LineInv(G) /\ SafeInv(G)
  BY DEF RaftInv
<1>2. Sound(G)
  BY <1>1 DEF RaftInv, Sound
<1>3. ASSUME NEW a \in Node, NEW b \in Node, Len(applied[a]) <= Len(applied[b])
      PROVE  SameTo(applied[a], applied[b], Len(applied[a]))
  <2>1. /\ applied[a] \in Seq(Entry) /\ applied[b] \in Seq(Entry)
        /\ Len(applied[a]) \in Nat /\ Len(applied[b]) \in Nat
        /\ currentTerm[a] \in Term /\ currentTerm[b] \in Term
    BY LenProperties DEF TypeOK
  <2> QED BY <1>1, <1>3, <2>1, SafeMeet DEF SafeInv, AppliedChosen
<1>4. StateMachineSafety
  <2> SUFFICES ASSUME NEW a \in Node, NEW b \in Node,
                      NEW i \in 1..Smaller(Len(applied[a]), Len(applied[b]))
               PROVE  applied[a][i] = applied[b][i]
    BY DEF StateMachineSafety
  <2>1. Len(applied[a]) \in Nat /\ Len(applied[b]) \in Nat
    BY LenProperties DEF TypeOK
  <2>2. i \in Nat /\ 1 <= i /\ i <= Len(applied[a]) /\ i <= Len(applied[b])
    BY <2>1 DEF Smaller
  <2> QED BY <1>3, <2>1, <2>2 DEF SameTo
<1>5. CommittedOnMajority /\ NoPanic
  BY <1>1, <1>2, CommittedHeld DEF SafeInv
<1> QED BY <1>4, <1>5

\* As long as no follower has claimed more than it was sent, no two nodes of
\* any cluster hand out different commands at one position, what a leader has
\* committed in its term is on a majority and no node aborts.  That holds
\* although become_follower forgets votes within a term and a follower's
\* answer speaks of its whole log.
THEOREM SafeWhileAnswersExact == Spec => []SafeUnlessOverstated
<1>1. Spec => []TypeOK
  BY TypeCorrect
<1>2. TypeOK /\ ElectionInv /\ [Next]_vars => ElectionInv'
  BY ElectionNext
<1>3. TypeOK /\ TypeOK' /\ ElectionInv /\ ElectionInv' /\ RaftInv /\ [Next]_vars => RaftInv'
  BY RaftNext
<1> QED BY <1>1, <1>2, <1>3, ElectionInit, RaftInit, RaftInvImpliesSafety, PTL DEF Spec
=============================================================================
