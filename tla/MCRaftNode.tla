----------------------------- MODULE MCRaftNode -----------------------------
(***************************************************************************)
(* RaftNode on a cluster of three.  The nodes are interchangeable, and so  *)
(* are the commands: no action and no property of RaftNode names one.      *)
(***************************************************************************)
EXTENDS RaftNode, TLC

Symmetry == Permutations(Node) \cup Permutations(Command)

(***************************************************************************)
(* The cluster soon after its first election: one node leads term 1 by the *)
(* vote of one other and has just proposed its first command, the third    *)
(* has heard nothing, and of all messages only the leader's requests with  *)
(* that entry are not lost.                                                *)
(***************************************************************************)
ElectedInit ==
  \E leader, voter \in Node, c \in Command :
    LET first == <<[term |-> 1, command |-> c]>>
        next  == [p \in Node |-> 1]
    IN
    /\ leader # voter
    /\ currentTerm   = [n \in Node |-> IF n \in {leader, voter} THEN 1 ELSE 0]
    /\ votedFor      = [n \in Node |-> IF n \in {leader, voter} THEN leader ELSE Nil]
    /\ role          = [n \in Node |-> IF n = leader THEN "Leader" ELSE "Follower"]
    /\ leaderId      = [n \in Node |-> IF n = leader THEN leader ELSE Nil]
    /\ log           = [n \in Node |-> IF n = leader THEN first ELSE <<>>]
    /\ commitIndex   = [n \in Node |-> 0]
    /\ nextIndex     = [n \in Node |-> next]
    /\ matchIndex    = [n \in Node |-> [p \in Node |-> 0]]
    /\ votesReceived = [n \in Node |-> {}]
    /\ applied       = [n \in Node |-> <<>>]
    /\ panicked      = {}
    /\ msgs          = RequestsToAll(leader, first, next)
    /\ overstated    = FALSE

(***************************************************************************)
(* Two leaders whose logs conflict: the old one proposed a command in term *)
(* 1, which is on its way to the third node; the new one won term 2 by the *)
(* third node's vote, has proposed a command and sent its requests.  Any   *)
(* other message is lost.                                                  *)
(***************************************************************************)
ConflictInit ==
  \E old, new, third \in Node, c \in Command :
    LET lg(t) == <<[term |-> t, command |-> c]>>
        next  == [p \in Node |-> 1]
    IN
    /\ Cardinality({old, new, third}) = 3
    /\ currentTerm   = [n \in Node |-> IF n = old THEN 1 ELSE 2]
    /\ votedFor      = [n \in Node |-> IF n = old THEN old ELSE new]
    /\ role          = [n \in Node |-> IF n = third THEN "Follower" ELSE "Leader"]
    /\ leaderId      = [n \in Node |-> IF n = third THEN Nil ELSE n]
    /\ log           = [n \in Node |-> IF n = third THEN <<>> ELSE lg(currentTerm[n])]
    /\ commitIndex   = [n \in Node |-> 0]
    /\ nextIndex     = [n \in Node |-> next]
    /\ matchIndex    = [n \in Node |-> [p \in Node |-> 0]]
    /\ votesReceived = [n \in Node |-> {}]
    /\ applied       = [n \in Node |-> <<>>]
    /\ panicked      = {}
    /\ msgs          = RequestsToAll(new, log[new], next)
                       \cup {AppendRequest(old, third, log[old], next[third])}
    /\ overstated    = FALSE

AnySpec == (Init \/ ElectedInit \/ ConflictInit) /\ [][Next]_vars

\* A request for entries that no election led to: one of ElectedInit or ConflictInit.
Prelude == \E m \in msgs : m.type = "AppendEntries" /\ <<m.from, m.term>> \notin Elections

\* Bound: after ElectedInit one election follows, and a second entry is
\* explored after ConflictInit only, before any election; from the empty
\* cluster every election of two terms is explored, and no proposal.
Scenario ==
  IF Prelude
  THEN /\ Cardinality(Elections) <= 1
       /\ (\E n \in Node : Len(log[n]) > 1)
          => Elections = {} /\ \E n \in Node : currentTerm[n] = 2
  ELSE \A n \in Node : log[n] = <<>>
=============================================================================
