----------------------------- MODULE Replication -----------------------------
(***************************************************************************)
(* A sequencer that drives a primary engine and a hot standby, and the     *)
(* failover to the standby (exchange_core/src/replication.rs).             *)
(*                                                                         *)
(* The engines are abstracted to what replication tells apart: which       *)
(* commands they accept, in which order, and the state that the            *)
(* fingerprint digests.  Sequencer 1 owns the first primary; sequencer 2   *)
(* owns the engine of the standby once that has taken over.                *)
(***************************************************************************)
EXTENDS Naturals, Sequences, SequencesExt

CONSTANTS ClientOrderId,
          Capacity,     \* of the channel of a sequencer
          MaxCommands   \* bound: how many commands are submitted to a sequencer

ASSUME ReplicationAssumption == Capacity \in Nat \ {0} /\ MaxCommands \in Nat

VARIABLES queue,     \* the channel of each sequencer
          submitted, \* bound: commands submitted to each sequencer
          engine,    \* of the first primary (1) and of the standby (2)
          fence,     \* the generation of the standby
          tookOver,  \* the standby has been turned into a primary
          outcome,   \* of the latest turn of drain_into
          replicated \* history: the commands primary and standby agreed on last

vars == <<queue, submitted, engine, fence, tookOver, outcome, replicated>>

Generation == {1, 2}
Command == [kind : {"New", "Cancel"}, name : ClientOrderId]

-----------------------------------------------------------------------------
(***************************************************************************)
(* accept_command and process_order of an engine.                          *)
(***************************************************************************)
NewEngine == [log |-> <<>>, resting |-> {}, next |-> 1]

\* The names of the orders in the book, each with the number of its command.
Names(e) == {r[1] : r \in e.resting}

Accepts(e, command) == (command.kind = "New") = (command.name \notin Names(e))

After(e, command) ==
  [log     |-> Append(e.log, command),
   resting |-> IF command.kind = "New" THEN e.resting \cup {<<command.name, e.next>>}
               ELSE {r \in e.resting : r[1] # command.name},
   next    |-> e.next + 1]

\* A slip the properties must catch: the digest leaves the counters out.
FingerprintOfBook(e) == Names(e)

\* state_fingerprint, without the collisions of its 64-bit hash.
Fingerprint(e) == [resting |-> e.resting, next |-> e.next]

-----------------------------------------------------------------------------
\* submit: another generation is refused, and so is a command without room.
Submit(g, generation, command) ==
  /\ g = 2 => tookOver
  /\ generation = g
  /\ Len(queue[g]) < Capacity
  /\ submitted[g] < MaxCommands
  /\ queue' = [queue EXCEPT ![g] = Append(@, command)]
  /\ submitted' = [submitted EXCEPT ![g] = @ + 1]
  /\ UNCHANGED <<engine, fence, tookOver, outcome, replicated>>

\* A slip the properties must catch: the standby never looks at the generation.
FencesNobody(g) == FALSE

\* apply refuses a generation other than the standby's own.
Fences(g) == g # fence

(***************************************************************************)
(* One turn of drain_into, on the command received from the channel.  The  *)
(* primary has processed it before the standby is asked, and an error ends *)
(* the call with the command gone.                                         *)
(***************************************************************************)
Reject(g) == outcome' = "Reject" /\ UNCHANGED <<engine, replicated>>

DrainAlone(g, command) ==
  /\ engine' = [engine EXCEPT ![g] = After(@, command)]
  /\ outcome' = "Alone"
  /\ UNCHANGED replicated

\* A slip the properties must catch: the outcome of the comparison is ignored,
\* and so is the standby's refusal.
DrainUncompared(command) ==
  LET primary == After(engine[1], command)
      standby == IF Accepts(engine[2], command) THEN After(engine[2], command) ELSE engine[2]
  IN \/ /\ Fences(1)
        /\ engine' = [engine EXCEPT ![1] = primary]
        /\ outcome' = "Fenced"
        /\ UNCHANGED replicated
     \/ /\ ~Fences(1)
        /\ engine' = [engine EXCEPT ![1] = primary, ![2] = standby]
        /\ outcome' = "Ok" /\ replicated' = primary.log

DrainReplicated(command) ==
  LET primary == After(engine[1], command)
      standby == After(engine[2], command)
  IN \/ /\ Fences(1)
        /\ engine' = [engine EXCEPT ![1] = primary]
        /\ outcome' = "Fenced"
        /\ UNCHANGED replicated
     \/ /\ ~Fences(1)
        /\ ~Accepts(engine[2], command)
        /\ engine' = [engine EXCEPT ![1] = primary]
        /\ outcome' = "Reject"
        /\ UNCHANGED replicated
     \/ /\ ~Fences(1)
        /\ Accepts(engine[2], command)
        /\ engine' = [engine EXCEPT ![1] = primary, ![2] = standby]
        /\ IF Fingerprint(primary) = Fingerprint(standby)
           THEN outcome' = "Ok" /\ replicated' = primary.log
           ELSE outcome' = "Diverged" /\ UNCHANGED replicated

DrainTurn(g, withStandby) ==
  /\ g = 2 => tookOver
  /\ queue[g] # <<>>
  /\ withStandby => g = 1 /\ ~tookOver
  /\ queue' = [queue EXCEPT ![g] = Tail(@)]
  /\ LET command == Head(queue[g])
     IN CASE ~Accepts(engine[g], command) -> Reject(g)
          [] Accepts(engine[g], command) /\ withStandby -> DrainReplicated(command)
          [] OTHER -> DrainAlone(g, command)
  /\ UNCHANGED <<submitted, fence, tookOver>>

\* promote takes any generation, whatever the standby's own is.
Promote(g) ==
  /\ ~tookOver
  /\ fence' = g
  /\ UNCHANGED <<queue, submitted, engine, tookOver, outcome, replicated>>

\* into_engine, and a new sequencer with the generation of the promotion.
TakeOver ==
  /\ fence = 2 /\ ~tookOver
  /\ tookOver' = TRUE
  /\ UNCHANGED <<queue, submitted, engine, fence, outcome, replicated>>

Init ==
  /\ queue = [g \in Generation |-> <<>>]
  /\ submitted = [g \in Generation |-> 0]
  /\ engine = [g \in Generation |-> NewEngine]
  /\ fence = 1
  /\ tookOver = FALSE
  /\ outcome = "None"
  /\ replicated = <<>>

Next ==
  \/ \E g, generation \in Generation, command \in Command : Submit(g, generation, command)
  \/ \E g \in Generation, withStandby \in BOOLEAN : DrainTurn(g, withStandby)
  \/ \E g \in Generation : Promote(g)
  \/ TakeOver

Spec == Init /\ [][Next]_vars

-----------------------------------------------------------------------------
\* The types of replication.rs.
TypeOK ==
  /\ queue \in [Generation -> Seq(Command)]
  /\ submitted \in [Generation -> Nat]
  /\ engine \in [Generation -> [log : Seq(Command), resting : SUBSET (ClientOrderId \X Nat),
                                next : Nat]]
  /\ fence \in Generation
  /\ tookOver \in BOOLEAN
  /\ outcome \in {"None", "Ok", "Alone", "Fenced", "Reject", "Diverged"}
  /\ replicated \in Seq(Command)

\* A standby that agreed with the primary has not missed a command, although
\* only a digest of the two states is compared and some turns had no standby.
AgreementIsComplete ==
  outcome = "Ok" => /\ engine[1].log = replicated
                    /\ ~tookOver => engine[2].log = replicated

\* "Promoted standby is equivalent to the last valid replicated state": what
\* primary and standby agreed on is the start of what the new primary serves.
ReplicatedSurvives == tookOver => IsPrefix(replicated, engine[2].log)

\* A standby that was promoted takes nothing more from the old primary.
StandbyFenced ==
  [][engine'[2] # engine[2] => tookOver \/ fence = 1]_vars
===============================================================================
