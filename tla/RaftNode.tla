------------------------------ MODULE RaftNode ------------------------------
(***************************************************************************)
(* A cluster of RaftNode values (exchange_core/src/consensus.rs) joined by *)
(* a network that may lose, duplicate and reorder messages.                *)
(*                                                                         *)
(* Each handler of the code is one action.  The code keeps no stable       *)
(* storage, so a node never restarts here; a node that is down is a node   *)
(* whose messages are not delivered.  Timers are abstracted: a tick that   *)
(* reaches its timeout may happen at any moment, any other tick changes    *)
(* nothing but the timer.                                                  *)
(***************************************************************************)
EXTENDS Naturals, Sequences, FiniteSets

CONSTANTS Node,     \* the members of the cluster
          Command,  \* the commands a client may propose
          Nil,      \* stands for Option::None
          MaxTerm,  \* bound: no election starts beyond this term
          MaxElections, \* bound: how many elections are started in all
          MaxRequests, \* bound: a leader that knows so many requests stays silent
          MaxLog    \* bound: a leader's log does not grow beyond this length

\* RaftNode::new refuses any other membership.
ASSUME MembershipAssumption ==
  /\ IsFiniteSet(Node)
  /\ Cardinality(Node) >= 3
  /\ Cardinality(Node) % 2 = 1
  /\ Nil \notin Node

ASSUME BoundAssumption == MaxTerm \in Nat /\ MaxElections \in Nat /\ MaxRequests \in Nat /\ MaxLog \in Nat

VARIABLES currentTerm, votedFor, role, leaderId, log, commitIndex,
          nextIndex, matchIndex, votesReceived,
          applied,     \* the entries take_committed has handed out, in order
          panicked,    \* nodes whose process aborted on an index out of bounds
          msgs,        \* every message ever sent; one may be delivered 0..n times
          overstated   \* history: some success answer claimed more than it was sent

electionVars == <<currentTerm, votedFor, role, leaderId, votesReceived>>
leaderVars   == <<nextIndex, matchIndex>>
logVars      == <<log, commitIndex, applied>>
vars == <<electionVars, leaderVars, logVars, panicked, msgs, overstated>>

Role  == {"Follower", "Candidate", "Leader"}
Term  == 0..MaxTerm
Entry == [term : Term, command : Command]

\* A set of members that handle_vote_response takes for a majority.
IsMajority(S) == Cardinality(S) >= Cardinality(Node) \div 2 + 1

LastTerm(lg) == IF lg = <<>> THEN 0 ELSE lg[Len(lg)].term

Smaller(a, b) == IF a <= b THEN a ELSE b
Larger(a, b)  == IF a <= b THEN b ELSE a

Send(ms) == msgs' = msgs \cup ms

-----------------------------------------------------------------------------
(***************************************************************************)
(* append_request_for(peer).  It indexes the log at prev - 1, so it panics *)
(* when next_index points further than one past the leader's own log.      *)
(***************************************************************************)
RequestPanics(lg, next) == next - 1 > Len(lg)

AppendRequest(n, peer, lg, next) ==
  [type     |-> "AppendEntries",
   to       |-> peer,
   from     |-> n,
   term     |-> currentTerm[n],
   prev     |-> next - 1,
   prevTerm |-> IF next = 1 THEN 0 ELSE lg[next - 1].term,
   entries  |-> SubSeq(lg, next, Len(lg)),
   commit   |-> commitIndex[n]]

\* heartbeat_actions and replication_actions: one request for every peer.
RequestsToAll(n, lg, next) ==
  {AppendRequest(n, p, lg, next[p]) : p \in Node \ {n}}

\* panic = "abort": the process ends and nothing it was building is sent.
Panic(n) ==
  /\ panicked' = panicked \cup {n}
  /\ UNCHANGED <<electionVars, leaderVars, logVars, msgs, overstated>>

\* A slip the properties must catch: the role is left as it was.
BecomeFollowerKeepingRole(n, t, leader) ==
  /\ currentTerm'   = [currentTerm EXCEPT ![n] = t]
  /\ votedFor'      = [votedFor EXCEPT ![n] = Nil]
  /\ leaderId'      = [leaderId EXCEPT ![n] = leader]
  /\ votesReceived' = [votesReceived EXCEPT ![n] = {}]
  /\ UNCHANGED role

\* become_follower: the vote is forgotten even when the term stays the same.
BecomeFollower(n, t, leader) ==
  /\ currentTerm'   = [currentTerm EXCEPT ![n] = t]
  /\ role'          = [role EXCEPT ![n] = "Follower"]
  /\ votedFor'      = [votedFor EXCEPT ![n] = Nil]
  /\ leaderId'      = [leaderId EXCEPT ![n] = leader]
  /\ votesReceived' = [votesReceived EXCEPT ![n] = {}]

-----------------------------------------------------------------------------
Elections ==
  {<<m.from, m.term>> : m \in {r \in msgs : r.type = "RequestVote"}}

VoteRequest(n, peer, t) ==
  [type |-> "RequestVote", to |-> peer, from |-> n, term |-> t,
   lastIndex |-> Len(log[n]), lastTerm |-> LastTerm(log[n])]

(***************************************************************************)
(* tick, when the timeout of a node that does not lead has run out:        *)
(* start_election.                                                         *)
(***************************************************************************)
StartElection(n) ==
  /\ role[n] # "Leader"
  /\ currentTerm[n] < MaxTerm
  /\ Cardinality(Elections) < MaxElections
  /\ currentTerm'   = [currentTerm EXCEPT ![n] = @ + 1]
  /\ role'          = [role EXCEPT ![n] = "Candidate"]
  /\ leaderId'      = [leaderId EXCEPT ![n] = Nil]
  /\ votedFor'      = [votedFor EXCEPT ![n] = n]
  /\ votesReceived' = [votesReceived EXCEPT ![n] = {n}]
  /\ Send({VoteRequest(n, p, currentTerm[n] + 1) : p \in Node \ {n}})
  /\ UNCHANGED <<leaderVars, logVars, panicked, overstated>>

\* tick, when a leader's heartbeat interval has run out.
Heartbeat(n) ==
  /\ role[n] = "Leader"
  /\ Cardinality({m \in msgs : m.type = "AppendEntries"}) < MaxRequests
  /\ IF \E p \in Node \ {n} : RequestPanics(log[n], nextIndex[n][p])
     THEN Panic(n)
     ELSE /\ Send(RequestsToAll(n, log[n], nextIndex[n]))
          /\ UNCHANGED <<electionVars, leaderVars, logVars, panicked, overstated>>

-----------------------------------------------------------------------------
VoteAnswer(n, m, t, granted) ==
  [type |-> "VoteResponse", to |-> m.from, from |-> n,
   term |-> t, granted |-> granted]

LogIsUpToDate(m, lg) ==
  \/ m.lastTerm > LastTerm(lg)
  \/ m.lastTerm = LastTerm(lg) /\ m.lastIndex >= Len(lg)

\* A slip the properties must catch: an earlier vote is not looked at.
CanAlwaysVote(n, m) == TRUE

CanVote(n, m) == votedFor[n] \in {Nil, m.from}

\* handle_request_vote
HandleRequestVote(n, m) ==
  /\ m.type = "RequestVote"
  /\ UNCHANGED <<leaderVars, logVars, panicked, overstated>>
  /\ \/ /\ m.term < currentTerm[n]
        /\ Send({VoteAnswer(n, m, currentTerm[n], FALSE)})
        /\ UNCHANGED electionVars
     \/ /\ m.term = currentTerm[n]
        /\ LET granted == CanVote(n, m) /\ LogIsUpToDate(m, log[n])
           IN  /\ votedFor' = [votedFor EXCEPT ![n] = IF granted THEN m.from ELSE @]
               /\ Send({VoteAnswer(n, m, m.term, granted)})
        /\ UNCHANGED <<currentTerm, role, leaderId, votesReceived>>
     \/ /\ m.term > currentTerm[n]
        /\ LET granted == LogIsUpToDate(m, log[n])
           IN  /\ votedFor' = [votedFor EXCEPT ![n] = IF granted THEN m.from ELSE Nil]
               /\ Send({VoteAnswer(n, m, m.term, granted)})
        /\ currentTerm'   = [currentTerm EXCEPT ![n] = m.term]
        /\ role'          = [role EXCEPT ![n] = "Follower"]
        /\ leaderId'      = [leaderId EXCEPT ![n] = Nil]
        /\ votesReceived' = [votesReceived EXCEPT ![n] = {}]

\* become_leader, with the heartbeats it returns.
BecomeLeader(n) ==
  LET next == [p \in Node |-> Len(log[n]) + 1]
  IN  /\ role'          = [role EXCEPT ![n] = "Leader"]
      /\ leaderId'      = [leaderId EXCEPT ![n] = n]
      /\ votesReceived' = [votesReceived EXCEPT ![n] = {}]
      /\ nextIndex'     = [nextIndex EXCEPT ![n] = next]
      /\ matchIndex'    = [matchIndex EXCEPT ![n] =
                             [p \in Node |-> IF p = n THEN Len(log[n]) ELSE 0]]
      /\ Send(RequestsToAll(n, log[n], next))
      /\ UNCHANGED <<currentTerm, votedFor>>

\* handle_vote_response; an older term is refused (StaleTerm) without effect.
HandleVoteResponse(n, m) ==
  /\ m.type = "VoteResponse"
  /\ UNCHANGED <<logVars, panicked, overstated>>
  /\ \/ /\ m.term > currentTerm[n]
        /\ BecomeFollower(n, m.term, Nil)
        /\ UNCHANGED <<leaderVars, msgs>>
     \/ /\ m.term = currentTerm[n]
        /\ role[n] = "Candidate"
        /\ m.granted
        /\ LET votes == votesReceived[n] \cup {m.from}
           IN  IF IsMajority(votes)
               THEN BecomeLeader(n)
               ELSE /\ votesReceived' = [votesReceived EXCEPT ![n] = votes]
                    /\ UNCHANGED <<currentTerm, votedFor, role, leaderId,
                                   leaderVars, msgs>>

-----------------------------------------------------------------------------
\* propose: the entry is pushed first, the requests are built afterwards.
Propose(n, c) ==
  /\ role[n] = "Leader"
  /\ Len(log[n]) < MaxLog
  /\ LET newLog == Append(log[n], [term |-> currentTerm[n], command |-> c])
     IN  IF \E p \in Node \ {n} : RequestPanics(newLog, nextIndex[n][p])
         THEN Panic(n)
         ELSE /\ log' = [log EXCEPT ![n] = newLog]
              /\ Send(RequestsToAll(n, newLog, nextIndex[n]))
              /\ UNCHANGED <<electionVars, leaderVars, commitIndex, applied,
                             panicked, overstated>>

\* A slip the properties must catch: entries already there are not compared.
MergedLogByLength(lg, prev, entries) ==
  lg \o SubSeq(entries, Len(lg) - prev + 1, Len(entries))

(***************************************************************************)
(* The loop of handle_append_entries over the entries of the request:      *)
(* entries already present are skipped, the first one that differs (or is  *)
(* missing) cuts the log there and everything from it on is pushed.        *)
(***************************************************************************)
MergedLog(lg, prev, entries) ==
  IF \A k \in 1..Len(entries) : prev + k <= Len(lg) /\ lg[prev + k] = entries[k]
  THEN lg
  ELSE SubSeq(lg, 1, prev) \o entries

\* A slip the properties must catch: a position counted from zero.
AppendAnswerFromZero(n, m, t, success, match) ==
  [type |-> "AppendResponse", to |-> m.from, from |-> n,
   term |-> t, success |-> success, match |-> match - 1]

\* The leader reads match_index of successes only; failures carry 0 here.
AppendAnswer(n, m, t, success, match) ==
  [type |-> "AppendResponse", to |-> m.from, from |-> n,
   term |-> t, success |-> success, match |-> match]

\* The head of handle_append_entries: the sender is taken for the leader.
FollowLeader(n, m) ==
  IF m.term > currentTerm[n] \/ role[n] # "Follower"
  THEN BecomeFollower(n, m.term, m.from)
  ELSE /\ leaderId' = [leaderId EXCEPT ![n] = m.from]
       /\ UNCHANGED <<currentTerm, votedFor, role, votesReceived>>

\* handle_append_entries
HandleAppendEntries(n, m) ==
  /\ m.type = "AppendEntries"
  /\ UNCHANGED <<leaderVars, applied, panicked>>
  /\ \/ /\ m.term < currentTerm[n]
        /\ Send({AppendAnswer(n, m, currentTerm[n], FALSE, 0)})
        /\ UNCHANGED <<electionVars, log, commitIndex, overstated>>
     \/ /\ m.term >= currentTerm[n]
        /\ m.prev > Len(log[n])
        /\ FollowLeader(n, m)
        /\ Send({AppendAnswer(n, m, m.term, FALSE, 0)})
        /\ UNCHANGED <<log, commitIndex, overstated>>
     \/ /\ m.term >= currentTerm[n]
        /\ m.prev \in 1..Len(log[n])
        /\ log[n][m.prev].term # m.prevTerm
        /\ FollowLeader(n, m)
        /\ log' = [log EXCEPT ![n] = SubSeq(@, 1, m.prev - 1)]
        /\ Send({AppendAnswer(n, m, m.term, FALSE, 0)})
        /\ UNCHANGED <<commitIndex, overstated>>
     \/ /\ m.term >= currentTerm[n]
        /\ m.prev <= Len(log[n])
        /\ m.prev > 0 => log[n][m.prev].term = m.prevTerm
        /\ FollowLeader(n, m)
        /\ LET newLog == MergedLog(log[n], m.prev, m.entries)
           IN  /\ log' = [log EXCEPT ![n] = newLog]
               /\ commitIndex' = [commitIndex EXCEPT ![n] =
                                    Larger(@, Smaller(m.commit, Len(newLog)))]
               /\ Send({AppendAnswer(n, m, m.term, TRUE, Len(newLog))})
               /\ overstated' = (overstated \/ Len(newLog) > m.prev + Len(m.entries))

-----------------------------------------------------------------------------
(***************************************************************************)
(* advance_commit: the last index, in log order, of the current term that  *)
(* enough entries of match_index reach.  match_index holds the leader's    *)
(* own length at its election as well, and one is added for the leader.    *)
(***************************************************************************)
\* A slip the properties must catch: an entry more is taken for replicated.
ReplicatedOneMore(n, match, i) == Cardinality({p \in Node : match[p] + 1 >= i}) + 1

Replicated(n, match, i) == Cardinality({p \in Node : match[p] >= i}) + 1

Committable(n, match) ==
  {i \in (commitIndex[n] + 1)..Len(log[n]) :
     /\ Replicated(n, match, i) >= Cardinality(Node) \div 2 + 1
     /\ log[n][i].term = currentTerm[n]}

AdvanceCommit(n, match) ==
  \E c \in {commitIndex[n]} \cup Committable(n, match) :
    /\ \A i \in Committable(n, match) : i <= c
    /\ commitIndex' = [commitIndex EXCEPT ![n] = c]

\* handle_append_response; an older term is refused (StaleTerm) without effect.
HandleAppendResponse(n, m) ==
  /\ m.type = "AppendResponse"
  /\ UNCHANGED <<log, applied, overstated>>
  /\ \/ /\ m.term > currentTerm[n]
        /\ BecomeFollower(n, m.term, Nil)
        /\ UNCHANGED <<leaderVars, commitIndex, panicked, msgs>>
     \/ /\ m.term = currentTerm[n]
        /\ role[n] = "Leader"
        /\ m.success
        /\ LET match == [matchIndex[n] EXCEPT ![m.from] = m.match]
           IN  /\ matchIndex' = [matchIndex EXCEPT ![n] = match]
               /\ AdvanceCommit(n, match)
        /\ nextIndex' = [nextIndex EXCEPT ![n][m.from] = m.match + 1]
        /\ UNCHANGED <<electionVars, panicked, msgs>>
     \/ /\ m.term = currentTerm[n]
        /\ role[n] = "Leader"
        /\ ~m.success
        /\ LET retry == Larger(nextIndex[n][m.from] - 1, 1)
           IN  IF RequestPanics(log[n], retry)
               THEN Panic(n)
               ELSE /\ nextIndex' = [nextIndex EXCEPT ![n][m.from] = retry]
                    /\ Send({AppendRequest(n, m.from, log[n], retry)})
                    /\ UNCHANGED <<electionVars, matchIndex, commitIndex, panicked>>

\* take_committed; it indexes the log up to commit_index and so may panic.
TakeCommitted(n) ==
  /\ Len(applied[n]) < commitIndex[n]
  /\ IF commitIndex[n] > Len(log[n])
     THEN Panic(n)
     ELSE /\ applied' = [applied EXCEPT ![n] =
                           @ \o SubSeq(log[n], Len(@) + 1, commitIndex[n])]
          /\ UNCHANGED <<electionVars, leaderVars, log, commitIndex, panicked,
                         msgs, overstated>>

-----------------------------------------------------------------------------
Init ==
  /\ currentTerm   = [n \in Node |-> 0]
  /\ votedFor      = [n \in Node |-> Nil]
  /\ role          = [n \in Node |-> "Follower"]
  /\ leaderId      = [n \in Node |-> Nil]
  /\ log           = [n \in Node |-> <<>>]
  /\ commitIndex   = [n \in Node |-> 0]
  /\ nextIndex     = [n \in Node |-> [p \in Node |-> 1]]
  /\ matchIndex    = [n \in Node |-> [p \in Node |-> 0]]
  /\ votesReceived = [n \in Node |-> {}]
  /\ applied       = [n \in Node |-> <<>>]
  /\ panicked      = {}
  /\ msgs          = {}
  /\ overstated    = FALSE

Receive(n, m) ==
  /\ m.to = n
  /\ \/ HandleRequestVote(n, m)
     \/ HandleVoteResponse(n, m)
     \/ HandleAppendEntries(n, m)
     \/ HandleAppendResponse(n, m)

NodeStep(n) ==
  \/ StartElection(n)
  \/ Heartbeat(n)
  \/ \E c \in Command : Propose(n, c)
  \/ TakeCommitted(n)
  \/ \E m \in msgs : Receive(n, m)

Next == \E n \in Node \ panicked : NodeStep(n)

Spec == Init /\ [][Next]_vars

-----------------------------------------------------------------------------
Message ==
  [type : {"RequestVote"}, to : Node, from : Node, term : Term,
   lastIndex : Nat, lastTerm : Term]
  \cup
  [type : {"VoteResponse"}, to : Node, from : Node, term : Term,
   granted : BOOLEAN]
  \cup
  [type : {"AppendEntries"}, to : Node, from : Node, term : Term,
   prev : Nat, prevTerm : Term, entries : Seq(Entry), commit : Nat]
  \cup
  [type : {"AppendResponse"}, to : Node, from : Node, term : Term,
   success : BOOLEAN, match : Nat]

\* The types of consensus.rs: next_index never falls below 1.
TypeOK ==
  /\ currentTerm   \in [Node -> Term]
  /\ votedFor      \in [Node -> Node \cup {Nil}]
  /\ role          \in [Node -> Role]
  /\ leaderId      \in [Node -> Node \cup {Nil}]
  /\ log           \in [Node -> Seq(Entry)]
  /\ commitIndex   \in [Node -> Nat]
  /\ nextIndex     \in [Node -> [Node -> Nat \ {0}]]
  /\ matchIndex    \in [Node -> [Node -> Nat]]
  /\ votesReceived \in [Node -> SUBSET Node]
  /\ applied       \in [Node -> Seq(Entry)]
  /\ panicked      \subseteq Node
  /\ msgs          \subseteq Message
  /\ overstated    \in BOOLEAN

\* At most one node ever leads in a term, although become_follower lets a
\* node vote twice in one term.  Every leader announces itself when it is
\* elected (become_leader), so the requests in msgs remember every leader.
ElectionSafety ==
  \A a, b \in {m \in msgs : m.type = "AppendEntries"} :
    a.term = b.term => a.from = b.from

(***************************************************************************)
(* Why ElectionSafety holds.  A ballot <<v, c, t>> says that v has given   *)
(* its vote to c in term t: by starting an election itself or by granting  *)
(* a request.  A node may give two ballots in a term, but only after some  *)
(* leader of the term has announced itself, and never a node of the        *)
(* majority that made this leader.                                         *)
(***************************************************************************)
Ballots ==
  {<<m.from, m.from, m.term>> : m \in {r \in msgs : r.type = "RequestVote"}}
  \cup
  {<<m.from, m.to, m.term>> :
     m \in {r \in msgs : r.type = "VoteResponse" /\ r.granted}}

Leads == {<<m.from, m.term>> : m \in {r \in msgs : r.type = "AppendEntries"}}

Announced(t) == \E l \in Node : <<l, t>> \in Leads

OneOpenBallot ==
  \A v, c, d \in Node, t \in Term :
    <<v, c, t>> \in Ballots /\ <<v, d, t>> \in Ballots /\ ~Announced(t) => c = d

BallotStands ==
  \A v, c \in Node, t \in Term :
    <<v, c, t>> \in Ballots =>
      /\ t <= currentTerm[v]
      /\ t = currentTerm[v] /\ ~Announced(t) => votedFor[v] = c

\* v votes for l in t, for nobody else, and will not be able to.
Bound(v, l, t) ==
  /\ <<v, l, t>> \in Ballots
  /\ \A c \in Node : <<v, c, t>> \in Ballots => c = l
  /\ currentTerm[v] = t => votedFor[v] = l

LeadersElected ==
  \A l \in Node, t \in Term :
    <<l, t>> \in Leads =>
      \E Q \in SUBSET Node : IsMajority(Q) /\ \A v \in Q : Bound(v, l, t)

RoleEarned(n) ==
  /\ role[n] # "Follower" => votedFor[n] = n
  /\ role[n] = "Candidate" =>
       \A v \in votesReceived[n] : <<v, n, currentTerm[n]>> \in Ballots
  /\ role[n] = "Leader" => <<n, currentTerm[n]>> \in Leads

NoSelfMessage == \A m \in msgs : m.from # m.to

\* The inductive invariant of ElectionSafety: what a node knows of a term's
\* votes always agrees with the ballots on the network.
ElectionInv ==
  /\ OneOpenBallot
  /\ BallotStands
  /\ LeadersElected
  /\ \A n \in Node : RoleEarned(n)
  /\ NoSelfMessage

\* Two logs that agree on the term at an index agree on everything up to it:
\* what the consistency check of handle_append_entries is there for.
LogMatching ==
  \A a, b \in Node : \A i \in 1..Smaller(Len(log[a]), Len(log[b])) :
    log[a][i].term = log[b][i].term => SubSeq(log[a], 1, i) = SubSeq(log[b], 1, i)

\* A node that leads never loses or overwrites an entry of its own log while
\* it leads (propose only pushes; nothing else may touch a leader's log).
LeaderAppendOnly ==
  [][\A n \in Node :
       role[n] = "Leader" /\ role'[n] = "Leader"
       => /\ Len(log'[n]) >= Len(log[n])
          /\ SubSeq(log'[n], 1, Len(log[n])) = log[n]]_vars

\* The entry n holds at i is also in the logs of a majority.
HeldByMajority(n, i) ==
  IsMajority({p \in Node : Len(log[p]) >= i /\ log[p][i] = log[n][i]})

\* What a leader counts as committed in its own term is held by a majority of
\* the members ("A minority partition cannot form a majority").
CommittedOnMajority ==
  \A n \in Node :
    role[n] = "Leader" =>
      \A i \in 1..Smaller(commitIndex[n], Len(log[n])) :
        log[n][i].term = currentTerm[n] => HeldByMajority(n, i)

\* No two nodes hand different commands to the application at one position.
StateMachineSafety ==
  \A a, b \in Node : \A i \in 1..Smaller(Len(applied[a]), Len(applied[b])) :
    applied[a][i] = applied[b][i]

\* No node aborts on a stale index: "typed, observable errors over process
\* panics for expected runtime conditions such as ... stale state".
NoPanic == panicked = {}

\* The application states agree, what is committed is on a majority and no node
\* aborts, as long as no follower has answered a request with a longer match
\* than the request covered (handle_append_entries answers with its own last
\* index, whatever it was sent).
SafeUnlessOverstated == ~overstated => StateMachineSafety /\ CommittedOnMajority /\ NoPanic
=============================================================================
