---------------------------- MODULE DurableEngine ----------------------------
(***************************************************************************)
(* The matching engine behind a command journal                            *)
(* (exchange_core/src/command_journal.rs, accept_durable and               *)
(* recover_from_command_journal of engine.rs), with crashes.               *)
(*                                                                         *)
(* accept_durable accepts a command, appends it to the journal, and takes  *)
(* the acceptance back when the append fails.  The caller processes the    *)
(* slots it was given, in order and without the queue, as the tests of the *)
(* repository do.  A crash loses the engine and keeps the file (open never *)
(* syncs its directory: the model assumes that the journal's name was on   *)
(* the disk before the first command).  Recovery accepts and processes the *)
(* journal's commands one by one.                                          *)
(***************************************************************************)
EXTENDS MatchingEngine

CONSTANTS Torn,          \* a record that decode_records refuses
          FailedAppends, \* what an append that returns an error may leave behind
          MaxLeft,       \* bound: records of failed appends in the file
          MaxCrashes     \* bound: how often the process crashes

\* A record is a header and a payload, written one after the other and then
\* synced: an interrupted append leaves nothing, a part, or all of it.
ASSUME JournalAssumption ==
  /\ FailedAppends \subseteq {"Nothing", "Part", "All"}
  /\ MaxLeft \in Nat /\ MaxCrashes \in Nat
  /\ Torn \notin Command

VARIABLES journal,  \* the records in the file
          mode,     \* "Up", "Down", "Recovering", "Failed"
          replayed, \* records that recovery has accepted
          left,     \* history: the places of records whose append returned an error
          crashes,
          before    \* history: the engine as it was at the latest crash

durableVars == <<journal, mode, replayed, left, crashes, before>>
allVars == <<vars, durableVars>>

\* What one engine has in common with another that is in the same state: the
\* slots that orders occupy are free to differ.
View == [orders   |-> {OrderIn(s) : s \in Resting},
         sequence |-> nextSequence,
         orderId  |-> nextExchangeOrderId]

DInit ==
  /\ Init
  /\ journal = <<>>
  /\ mode = "Up"
  /\ replayed = 0
  /\ left = {}
  /\ crashes = 0
  /\ before = [idle |-> TRUE, view |-> View]

-----------------------------------------------------------------------------
\* A slip the properties must catch: cancels are not recorded.
WithRecordUnlessCancel(command) ==
  IF command.kind = "Cancel" THEN journal ELSE Append(journal, command)

\* A slip the properties must catch: a command is recorded once more.
WithRecordTwice(command) == journal \o <<command, command>>

WithRecord(command) == Append(journal, command)

\* The file after an append of the command that was interrupted.
Leftover(command, what) ==
  CASE what = "Nothing" -> journal
    [] what = "Part"    -> Append(journal, Torn)
    [] what = "All"     -> Append(journal, command)

\* accept_durable, when the append succeeds: the command is acknowledged.
AcceptDurable(command) ==
  /\ mode = "Up"
  /\ Accept(command)
  /\ journal' = WithRecord(command)
  /\ UNCHANGED <<mode, replayed, left, crashes, before>>

\* accept_durable, when the append fails: slot and numbers are given back, and
\* what it wrote stays in the file.
AppendFails(command) ==
  /\ mode = "Up"
  /\ Len(InFlight) < MaxInFlight /\ Len(journal) + 1 < MaxSequence
  /\ Acceptable(command) /\ CanAdmit
  /\ \E what \in FailedAppends : journal' = Leftover(command, what)
  /\ left' = left \cup (Len(journal) + 1..Len(journal'))
  /\ Cardinality(left') <= MaxLeft
  /\ pool' = Deallocate(PoolWith(command), pool.freeHead)
  /\ UNCHANGED <<books, nextSequence, nextExchangeOrderId, pending, queue, events,
                 lastExecuted, mode, replayed, crashes, before>>

\* The caller processes the oldest slot it was given.
ProcessAccepted ==
  /\ mode = "Up" \/ mode = "Recovering"
  /\ pending # <<>>
  /\ pending' = Tail(pending)
  /\ Process(Head(pending))
  /\ UNCHANGED <<queue, durableVars>>

\* The process dies; whatever the engine held in memory is gone.
Die(idle) ==
  /\ mode' = "Down"
  /\ crashes' = crashes + 1
  /\ before' = [idle |-> idle, view |-> View]
  /\ pool' = NewPool
  /\ books' = [i \in Instrument |-> EmptyBook]
  /\ nextSequence' = 1
  /\ nextExchangeOrderId' = 1
  /\ pending' = <<>> /\ queue' = <<>> /\ events' = <<>>
  /\ lastExecuted' = 0
  /\ replayed' = 0

Crash == mode = "Up" /\ crashes < MaxCrashes /\ Die(pending = <<>>) /\ UNCHANGED <<journal, left>>

\* The process dies inside accept_durable: nobody was told about the command.
CrashInAppend(command) ==
  /\ mode = "Up" /\ crashes < MaxCrashes
  /\ Len(InFlight) < MaxInFlight
  /\ Acceptable(command) /\ CanAdmit
  /\ Die(FALSE)
  /\ \E what \in {"Part", "All"} : journal' = Leftover(command, what)
  /\ UNCHANGED left

\* CommandJournal::open decodes the whole file and refuses it on any bad record.
Readable == \A k \in DOMAIN journal : journal[k] # Torn

Open ==
  /\ mode = "Down"
  /\ mode' = IF Readable THEN "Recovering" ELSE "Failed"
  /\ UNCHANGED <<vars, journal, replayed, left, crashes, before>>

\* A slip the properties must catch: the last record is not replayed.
ToReplayButLast == Len(journal) - 1

ToReplay == Len(journal)

\* recover_from_command_journal, one turn: accept; ProcessAccepted is its other half.
Replay ==
  /\ mode = "Recovering"
  /\ pending = <<>>
  /\ replayed < ToReplay
  /\ LET command == journal[replayed + 1]
     IN \/ /\ Acceptable(command)
           /\ Admit(command)
           /\ UNCHANGED mode
        \/ /\ ~Acceptable(command) \/ ~CanAdmit
           /\ mode' = "Failed"
           /\ UNCHANGED vars
  /\ replayed' = replayed + 1
  /\ UNCHANGED <<journal, left, crashes, before>>

Recovered ==
  /\ mode = "Recovering"
  /\ pending = <<>>
  /\ replayed >= ToReplay
  /\ mode' = "Up"
  /\ left' = {}
  /\ UNCHANGED <<vars, journal, replayed, crashes, before>>

DNext ==
  \/ \E command \in Command :
       AcceptDurable(command) \/ AppendFails(command) \/ CrashInAppend(command)
  \/ ProcessAccepted
  \/ Crash
  \/ Open
  \/ Replay
  \/ Recovered

DSpec == DInit /\ [][DNext]_allVars

-----------------------------------------------------------------------------
\* Where the record of the n-th admitted command is, if failed appends left the
\* records at the places in left.
PlaceOf(n) == CHOOSE p \in DOMAIN journal \ left : Cardinality((1..p) \ left) = n

\* The journal holds exactly the commands that the engine has admitted, in
\* order, and besides them only what failed appends left behind: none is admitted
\* without a record, and one that was refused takes nobody's place.
JournalIsAdmitted ==
  mode = "Up" => /\ Cardinality(DOMAIN journal \ left) = nextSequence - 1
                 /\ \A k \in DOMAIN pending :
                      LET o == pool.data[pending[k]]
                          record == journal[PlaceOf(o.sequence)]
                      IN  /\ record # Torn
                          /\ record.kind = o.kind
                          /\ KeyOf(record) = KeyOf(o)

\* A restart brings the exchange back from every journal that can be read and
\* in which no failed append left a record, so no acknowledged command is lost
\* (recover_from_command_journal refuses none).
RecoversUnlessTorn == mode = "Failed" => ~Readable \/ left # {}

\* "Recovered order identity and FIFO priority exactly match the pre-crash
\* state": an engine that had nothing in flight comes back as it was, with the
\* same orders, order ids and sequence numbers.
RecoveredAsBefore ==
  [][mode = "Recovering" /\ mode' = "Up" /\ before.idle /\ left = {} =>
       View = before.view]_allVars
===============================================================================
