----------------------------- MODULE EventJournal -----------------------------
(***************************************************************************)
(* The event journal (journal.rs), the ledger of replayed events           *)
(* (replay.rs) and its snapshots (snapshot.rs), on a disk that loses what  *)
(* was not synced when the machine goes down.                              *)
(*                                                                         *)
(* One caller appends the events of the engine to the journal, applies to  *)
(* the ledger what was appended, and writes a snapshot of the ledger now   *)
(* and then.  After a crash it opens the journal and reads the snapshot.   *)
(* Of an event the model keeps its kind, its orders and its number; the    *)
(* engine never emits OrderRejected.                                       *)
(***************************************************************************)
EXTENDS Naturals, SequencesExt

CONSTANTS Key,          \* the orders: instrument, account and client order id
          MaxSequence,  \* bound: the highest number of an event
          MaxRecords,   \* bound: records in the file
          MaxCrashes,   \* bound: how often the machine goes down
          Durabilities, \* the durabilities the journal is opened with
          Torn,         \* a record that was written in part
          Nil

ASSUME JournalAssumption ==
  /\ MaxSequence \in Nat /\ MaxRecords \in Nat /\ MaxCrashes \in Nat
  /\ Durabilities \subseteq {"SyncData", "Buffered"}

VARIABLES file,       \* the records of the journal
          synced,     \* how many of them the disk is sure to keep
          entered,    \* the directory on the disk is sure to have the journal's name
          last,       \* EventJournal::next_sequence, 0 for None
          durability,
          mode,       \* "Up", "Down", "Failed"
          toApply,    \* appended events that the caller has yet to apply
          live,       \* the ledger in memory
          stage,      \* how far ReplaySnapshot::write has come
          tmp,        \* the temporary file of the snapshot being written
          named,      \* the snapshot under its name, for those who read it now
          onDisk,     \* the snapshot that the name has on the disk
          crashes,
          kept,       \* history: the file at its latest synced acknowledgement
          returned,   \* history: the events in the snapshot whose write returned
                      \*   last under a path with a directory
          buffered,   \* history: the journal was once opened as Buffered
          vanished    \* history: a crash took a journal whose name was not on the disk

journalVars  == <<file, synced, entered, last, durability>>
ledgerVars   == <<toApply, live>>
snapshotVars == <<stage, tmp, named, onDisk, returned>>
vars == <<journalVars, mode, ledgerVars, snapshotVars, crashes, kept, buffered, vanished>>

Event == [kind : {"Accepted", "Cancelled", "Replaced", "Trade"}, key : Key,
          sequence : 1..MaxSequence]

ASSUME DistinctAssumption ==
  /\ Torn \notin Event
  /\ Nil \notin [ledger : [events : Nat, last : Nat, accepted : SUBSET Key, cancelled : SUBSET Key],
                synced : BOOLEAN, whole : BOOLEAN]

\* The events of one processed command; an order rests, trades, goes or is replaced.
Batches ==
  LET e(kind, key, s) == [kind |-> kind, key |-> key, sequence |-> s]
  IN UNION {{<<e("Accepted", k, s)>>, <<e("Cancelled", k, s)>>,
             <<e("Accepted", k, s), e("Trade", k, s)>>,
             <<e("Replaced", k, s), e("Accepted", new, s)>>} :
               k \in Key, new \in Key, s \in 1..MaxSequence}

-----------------------------------------------------------------------------
(***************************************************************************)
(* ReplayLedger.                                                           *)
(***************************************************************************)
\* (The list of trades and the number of replaced orders are left out.)
EmptyLedger == [events |-> 0, last |-> 0, accepted |-> {}, cancelled |-> {}]

WithAccepted(ledger, key) ==
  [ledger EXCEPT !.accepted = @ \cup {key}, !.cancelled = @ \ {key}]

WithGone(ledger, key) ==
  [ledger EXCEPT !.accepted = @ \ {key}, !.cancelled = @ \cup {key}]

\* apply, for an event that is not older than the last.
Applied(ledger, e) ==
  LET next == CASE e.kind = "Accepted" -> WithAccepted(ledger, e.key)
                [] e.kind \in {"Cancelled", "Replaced"} -> WithGone(ledger, e.key)
                [] e.kind = "Trade" -> ledger
  IN [next EXCEPT !.events = @ + 1, !.last = e.sequence]

Apply ==
  /\ mode = "Up" /\ stage = "Idle"
  /\ toApply # <<>>
  /\ toApply' = Tail(toApply)
  /\ live' = IF Head(toApply).sequence >= live.last THEN Applied(live, Head(toApply)) ELSE live
  /\ UNCHANGED <<journalVars, mode, snapshotVars, crashes, kept, buffered, vanished>>

-----------------------------------------------------------------------------
(***************************************************************************)
(* EventJournal.                                                           *)
(***************************************************************************)
LastOf(records) == IF records = <<>> THEN 0 ELSE Last(records).sequence

\* append_internal refuses an event that is older than the last.
NotOlder(batch) == Head(batch).sequence >= last

\* A slip the properties must catch: the sync comes before the write.
SyncedByEarly(records) == Len(file)

\* sync_if_required: how much of what has been written so far the disk keeps.
SyncedBy(records) == IF durability = "SyncData" THEN Len(records) ELSE synced

\* append and append_batch, when they succeed.
AppendBatch(batch) ==
  /\ mode = "Up" /\ stage = "Idle" /\ toApply = <<>>
  /\ Len(file) + Len(batch) <= MaxRecords
  /\ NotOlder(batch)
  /\ file' = file \o batch
  /\ last' = LastOf(batch)
  /\ synced' = SyncedBy(file')
  /\ kept' = IF durability = "SyncData" THEN file' ELSE kept
  /\ toApply' = batch
  /\ UNCHANGED <<entered, durability, mode, live, snapshotVars, crashes, buffered, vanished>>

\* append and append_batch, when a write or the sync fails: what has been
\* written stays in the file, next_sequence follows the whole records.
AppendFails(batch) ==
  /\ mode = "Up" /\ stage = "Idle" /\ toApply = <<>>
  /\ Len(file) + Len(batch) <= MaxRecords
  /\ NotOlder(batch)
  /\ \E n \in 0..Len(batch), tail \in {<<>>, <<Torn>>} :
       /\ n = Len(batch) => tail = <<>>
       /\ file' = file \o SubSeq(batch, 1, n) \o tail
       /\ last' = IF n = 0 THEN last ELSE batch[n].sequence
  /\ UNCHANGED <<synced, entered, durability, mode, ledgerVars, snapshotVars, crashes, kept, buffered, vanished>>

Whole(records) == \A k \in DOMAIN records : records[k] # Torn

InOrder(records) == \A k \in 2..Len(records) : records[k - 1].sequence <= records[k].sequence

\* A slip the properties must catch: the last number is not restored.
LastFoundNever(records) == 0

LastFound(records) == LastOf(records)

\* The ledger that ReplaySnapshot::read returns; without one the caller starts afresh.
Recovered(snapshot) ==
  IF snapshot # Nil /\ snapshot.whole THEN snapshot.ledger ELSE EmptyLedger

\* open creates the file when there is none, and never syncs its directory;
\* then validate_existing, and ReplaySnapshot::read by the caller.
Open(d) ==
  /\ mode = "Down"
  /\ IF Whole(file) /\ InOrder(file)
     THEN mode' = "Up" /\ last' = LastFound(file)
     ELSE mode' = "Failed" /\ UNCHANGED last
  /\ durability' = d
  /\ buffered' = (buffered \/ d = "Buffered")
  /\ live' = Recovered(named)
  /\ UNCHANGED <<file, synced, entered, toApply, snapshotVars, crashes, kept, vanished>>

-----------------------------------------------------------------------------
(***************************************************************************)
(* ReplaySnapshot::write: write the temporary file, sync it, rename it,    *)
(* sync the directory if the path has one.                                 *)
(***************************************************************************)
Saved(ledger) == [ledger |-> ledger, synced |-> FALSE, whole |-> TRUE]

WriteTmp ==
  /\ mode = "Up" /\ stage = "Idle"
  /\ tmp' = Saved(live)
  /\ stage' = "Written"
  /\ UNCHANGED <<journalVars, mode, ledgerVars, named, onDisk, returned, crashes, kept, buffered, vanished>>

\* A slip the properties must catch: the temporary file is not synced.
SyncedTmpNever == tmp

SyncedTmp == [tmp EXCEPT !.synced = TRUE]

SyncTmp ==
  /\ mode = "Up" /\ stage = "Written"
  /\ tmp' = SyncedTmp
  /\ stage' = "Synced"
  /\ UNCHANGED <<journalVars, mode, ledgerVars, named, onDisk, returned, crashes, kept, buffered, vanished>>

\* The disk may have taken up the earlier name by now, synced or not.
Rename ==
  /\ mode = "Up" /\ stage = "Synced"
  /\ named' = tmp
  /\ onDisk' \in {onDisk, named}
  /\ tmp' = Nil
  /\ stage' = "Renamed"
  /\ UNCHANGED <<journalVars, mode, ledgerVars, returned, crashes, kept, buffered, vanished>>

\* A slip the properties must catch: the directory is not synced.
SyncedNameNever == onDisk

SyncedName == named

SyncDirectory ==
  /\ mode = "Up" /\ stage = "Renamed"
  /\ onDisk' = SyncedName
  /\ returned' = named.ledger.events
  /\ stage' = "Idle"
  /\ UNCHANGED <<journalVars, mode, ledgerVars, tmp, named, crashes, kept, buffered, vanished>>

\* Under a bare file name the parent is empty: write returns without the sync.
ReturnUnsynced ==
  /\ mode = "Up" /\ stage = "Renamed"
  /\ stage' = "Idle"
  /\ UNCHANGED <<journalVars, mode, ledgerVars, tmp, named, onDisk, returned, crashes, kept, buffered, vanished>>

\* Any step of write fails and it returns the error.  What it leaves in the
\* temporary file nobody reads: the next write truncates it.
SaveFails ==
  /\ mode = "Up"
  /\ stage' = "Idle"
  /\ tmp' = Nil
  /\ UNCHANGED <<journalVars, mode, ledgerVars, named, onDisk, returned, crashes, kept, buffered, vanished>>

\* validate_journal_boundary: the journal is not behind the snapshot.
BoundaryValid(snapshot) == last >= snapshot.ledger.last

\* What the disk may have of a file when the machine goes down.
AfterCrash(snapshot) ==
  IF snapshot = Nil \/ snapshot.synced THEN {snapshot}
  ELSE {[snapshot EXCEPT !.whole = w, !.synced = TRUE] : w \in BOOLEAN}

\* The journal is there after a crash, cut behind what was synced.
FileCut ==
  /\ \E n \in synced..Len(file), tail \in {<<>>, <<Torn>>} :
       /\ n = Len(file) => tail = <<>>
       /\ file' = SubSeq(file, 1, n) \o tail
       /\ synced' = Len(file')
  /\ entered' = TRUE
  /\ UNCHANGED <<kept, vanished>>

\* It is not, synced records or none, when its directory was never synced.
FileGone ==
  /\ ~entered
  /\ file' = <<>> /\ synced' = 0
  /\ kept' = <<>>
  /\ vanished' = TRUE
  /\ UNCHANGED entered

\* The machine goes down: memory is gone, and so may be what was not synced.
Crash ==
  /\ mode = "Up" /\ crashes < MaxCrashes
  /\ crashes' = crashes + 1
  /\ mode' = "Down"
  /\ FileCut \/ FileGone
  /\ \E survivor \in AfterCrash(named) \cup AfterCrash(onDisk) :
       named' = survivor /\ onDisk' = survivor
  /\ last' = 0
  /\ live' = EmptyLedger
  /\ toApply' = <<>>
  /\ stage' = "Idle"
  /\ tmp' = Nil
  /\ UNCHANGED <<durability, returned, buffered>>

Init ==
  /\ file = <<>> /\ synced = 0 /\ last = 0
  /\ entered \in BOOLEAN
  /\ durability \in Durabilities
  /\ mode = "Up"
  /\ toApply = <<>>
  /\ live = EmptyLedger
  /\ stage = "Idle" /\ tmp = Nil /\ named = Nil /\ onDisk = Nil
  /\ crashes = 0
  /\ kept = <<>>
  /\ returned = 0
  /\ buffered = (durability = "Buffered")
  /\ vanished = FALSE

Next ==
  \/ \E batch \in Batches : AppendBatch(batch) \/ AppendFails(batch)
  \/ Apply
  \/ WriteTmp
  \/ SyncTmp
  \/ Rename
  \/ SyncDirectory
  \/ ReturnUnsynced
  \/ SaveFails
  \/ Crash
  \/ \E d \in Durabilities : Open(d)

Spec == Init /\ [][Next]_vars

-----------------------------------------------------------------------------
(***************************************************************************)
(* Reading the journal back.                                               *)
(***************************************************************************)

\* decode_event takes the fields from the first byte of the payload, which
\* encode_event gave to the kind: every number comes back shifted by a byte.
\* (The byte that is shifted in is a zero, and none is lost, below 2^56.)
DecodedSequence(e) == 256 * e.sequence

\* replay_bytes accepts a file of whole records whose numbers agree.
Replays(records) == Whole(records) /\ \A k \in DOMAIN records : DecodedSequence(records[k]) = records[k].sequence

-----------------------------------------------------------------------------
(***************************************************************************)
(* Properties.                                                             *)
(***************************************************************************)
Ledgers == [events : Nat, last : 0..MaxSequence, accepted : SUBSET Key,
            cancelled : SUBSET Key]

Snapshots == [ledger : Ledgers, synced : BOOLEAN, whole : BOOLEAN] \cup {Nil}

\* Every variable has a value of its kind, and no count exceeds what it counts.
TypeOK ==
  /\ file \in Seq(Event \cup {Torn}) /\ synced \in 0..Len(file)
  /\ last \in 0..MaxSequence
  /\ durability \in Durabilities
  /\ mode \in {"Up", "Down", "Failed"}
  /\ toApply \in Seq(Event)
  /\ live \in Ledgers /\ returned \in Nat
  /\ stage \in {"Idle", "Written", "Synced", "Renamed"}
  /\ tmp \in Snapshots /\ named \in Snapshots /\ onDisk \in Snapshots
  /\ crashes \in 0..MaxCrashes
  /\ kept \in Seq(Event \cup {Torn})
  /\ entered \in BOOLEAN /\ buffered \in BOOLEAN /\ vanished \in BOOLEAN

\* An event whose append returned under SyncData is in the file for good, at
\* its place, whatever failed before it and however often the machine went down.
\* (A crash that takes a journal whose directory was never synced takes its
\* acknowledged events too, FileGone: the claim is about the file there is.)
AcknowledgedKept == IsPrefix(kept, file)

\* open refuses a file for a record that was cut short and for nothing else:
\* the journal never writes a file whose numbers it would call a regression.
OpenRefusesOnlyTorn == mode = "Failed" => ~Whole(file)

\* Who reads the snapshot finds a whole one, before, between and after crashes:
\* it was synced under its temporary name before it took its own.
SnapshotWhole == \A snapshot \in {named, onDisk} : snapshot # Nil => snapshot.whole

\* What a restart starts from: a snapshot whose write returned under a path with
\* a directory is not lost (the disk has it or a later one; under a bare file name
\* write returns before the name is synced, and nothing is claimed), it has no
\* order both on its books and gone from them, also when a cancelled name was
\* used again, and as long as every journal was opened with SyncData and none
\* vanished validate_journal_boundary accepts it: the journal is never behind the
\* snapshot, since the caller applies only what was appended.
RestartsFromSnapshot ==
  /\ returned > 0 => onDisk # Nil /\ onDisk.ledger.events >= returned
  /\ mode = "Up" /\ ~buffered /\ ~vanished /\ named # Nil => BoundaryValid(named)
  /\ named # Nil => named.ledger.accepted \cap named.ledger.cancelled = {}

\* README.md promises deterministic replay: what the open journal has written
\* without a failure, replay_file reads.
JournalReplays == mode = "Up" /\ Whole(file) => Replays(file)

=============================================================================
