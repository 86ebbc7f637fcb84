# Verification of the exchange core

TLA+ models of `src/exchange_core/src`, the Rust crate that carries the logic of
the exchange: matching, risk, settlement, durable recovery, the hot standby,
the consensus core, the gateway and its formats, the feed, and the threads of
the server. TLC checks each model on small instances; TLAPS proves the results
listed under *Proofs* for every value of the constants. What is left out, and
why, is under *Not modelled*.

## 1. The system

The crate is a library of components, most of which are driven by a single
caller at a time (`&mut self`). What makes them hard is therefore less the
memory model than the distance between calls: a command is accepted in one call,
queued in a second and processed in a third, a journal is appended between them,
a standby is fed after the primary has acted, and votes and log entries travel
over a network. Two places are concurrent in earnest: the server binary, whose
matcher and scavenger threads share a channel, and the latency counters, which
threads update with relaxed atomics.

| component | source | state | operations | correct means | model |
|---|---|---|---|---|---|
| matching engine | `engine.rs`, `command.rs`, `order.rs`, `sequence.rs` | pool, one book per instrument, sequence and order-id counters, last events | accept, enqueue, process (new, cancel, replace), match | strict price-time priority in admission order; nothing lost or duplicated | `MatchingEngine` |
| order book | `book.rs` | price levels with intrusive lists, counters, order map | insert, remove, cancel, best price | lists, counters and map describe one set of orders | `OrderBook`, promise in `PriceTimeBook` |
| order pool | `pool.rs` | slots, free list, count | allocate, deallocate | each slot has one owner | `OrderPool` |
| command ring | `ring.rs` | bounded queue of slots | try_send, receive | refuses when full | in `MatchingEngine` |
| durable acceptance | `engine.rs`, `command_journal.rs` | the journal file | append, open, read, recover | a restart rebuilds what was acknowledged | `DurableEngine`, its records in `Codec` |
| hot standby | `replication.rs` | two engines, generation fence, channel | submit, drain, apply, promote, take over | agreement implies completeness; the old primary is fenced | `Replication` |
| consensus | `consensus.rs` | term, vote, role, log, commit and peer indexes | tick, the four message handlers, propose, take_committed | one leader per term, one log | `RaftNode` |
| risk | `risk.rs` | accounts, holds, reservations | admit new, cancel and replace, fill, fund, limits | nothing promised twice, value conserved | `RiskEngine` |
| settlement | `ledger.rs` | balances, entries, results | seed, settle (post_batch) | delivery versus payment, once | `Ledger` |
| market data | `market_data.rs` | sequence, a bounded queue per subscriber | publish delta and snapshot, poll | gaps are seen, a snapshot is a base for deltas | `MarketData` |
| sessions and gateway | `session.rs`, `protocol.rs` | sequence numbers, role, credentials | logon, receive, allocate | in-order delivery, permission | `Gateway` |
| wire protocol | `protocol.rs` | none | encode, decode, checksum | a frame is read as it was written or refused | `Codec` |
| quorum tracker | `quorum.rs` | log, commit index, acks | append, ack | commit needs a majority, in order | `QuorumTracker` |
| event journal, replay, snapshot | `journal.rs`, `replay.rs`, `snapshot.rs` | files, rebuilt orders | append, open, replay, write, read | what was acknowledged stays, what is read is whole | `EventJournal` |
| instruments and trading sessions | `instrument.rs`, `lifecycle.rs` | catalogue, status and hours per instrument | register a pair, transition, set hours | no instrument overwritten, none reopened | `Instruments` |
| server and scavenger | `main.rs`, `scavenger.rs` | queue, trades of a command, channel, batch, buffer | warm up, take, send; receive, time out, flush, rotate | every trade flushed once, in order, in the end | `Server` |
| metrics | `metrics.rs` | counters, least and greatest latency | record, read | no extreme lost | `Metrics` |
| health, certification, harness, bot swarm, ticker, web front end, deployment | | | | | not modelled (section 6) |

How they interact in the source: `MatchingEngine` owns the pool and the books
and is the only writer of both; the command ring carries slot numbers;
`accept_durable` composes the engine with a `CommandJournal`; `Sequencer` drives
a primary engine and, optionally, a `HotStandby`. `RaftNode`, `RiskEngine`,
`SettlementEngine`, `ReplicationLog`, the event journal, the market-data
publisher, the gateway, the registry and the lifecycle are not called by the
engine or by each other: they are modelled as components with an arbitrary
caller, restricted only where their own contract restricts it. The server binary
owns an engine on its matcher thread and passes what it trades to the scavenger
thread through an unbounded channel.

## 2. The modules

* **`RaftNode`** (`MCRaftNode`, `RaftNodeProofs`). One action for each handler
  and for the two outcomes of `tick`. The network is a set of messages that may
  be delivered any number of times, in any order or never. The code persists
  nothing, so nodes do not restart; a stopped node is one whose messages are not
  delivered. An index out of bounds aborts the process (`panicked`).
  `overstated` remembers whether a follower ever answered with a longer match
  than the request covered.
* **`OrderPool`**, **`OrderBook`**: operators on records `pool` and `book`, with
  the link fields of the code. `NULL_ORDER` and the end of the free list are the
  code's numbers. `Unlink`, `RemoveOrder` and `InsertLimit` follow the code's
  pointer updates, so a mistake in them shows in `BookWellFormed`.
* **`MatchingEngine`** extends both. `Accept`, `EnqueueOrder` and `ProcessOrder`
  are the three calls; commands in `pending` belong to the caller, those in
  `queue` to the ring. A call that is refused changes nothing and is no step.
* **`PriceTimeBook`** is the abstract specification of the engine: a set of
  resting orders, commands executed in the order of admission, and trades
  computed from a definition of price-time priority that knows no levels, lists
  or rounds. What an incoming order takes from a resting one is what the orders
  before that one leave to it (`Taken`, a sum over a set); its trades are those
  it takes something from, in turn (`TradesOf`), and the book afterwards is what
  is left (`BookAfter`). `KeepsPriceTimePriority` is the refinement, under the
  mapping at the end of `MatchingEngine`.
* **`DurableEngine`** (`RecoveryProofs`) extends `MatchingEngine` with the journal, crashes between
  any two steps and inside an append, and recovery. As in the repository's tests
  the caller processes the accepted slots itself, in order. An append that
  returns an error may have left nothing, a part of the record or all of it
  (`FailedAppends`, `left`). Whether a record can be read is abstracted to
  `Torn`; the bytes that decide it are in `Codec`. The file is taken to be there
  after a crash: `command_journal.rs` syncs its data and never its directory, so
  this assumes that the journal's name was on the disk before the first command
  (`EventJournal` models the other case, for the event journal).
* **`Replication`** (`TransitProofs`): sequencer, primary and standby. The engines are abstracted
  to their accepted commands, their resting names and their counter;
  `Fingerprint` is the digest without hash collisions.
* **`RiskEngine`**: every public operation that changes state. The fills are
  those a matching engine can report between two reserved orders (the external
  part of the model). `torn` remembers a fill that failed after it had written;
  left out is the error of `cancel_reservation` when a hold is smaller than what
  is released, which only such a fill can bring about.
* **`QuorumTracker`** (`TransitProofs`): the log of one leader and the
  tracker of its quorum. What a replica holds it may acknowledge, any number of
  times, at any later moment, and entries of an older leader are among what it
  may hold.
* **`Gateway`**: one session. The client numbers its frames; every frame it ever
  sent can arrive at any time, again and again. Credentials are registered,
  replaced and disabled at any time. A call that fails without changing anything
  is no step, but one that fails after it received a number is (`ReceiveOther`).
* **`MarketData`**: the publisher with one subscriber, and a consumer that keeps
  a copy of the books. The consumer is the contract of `poll` and of
  `full_depth_snapshot` turned into a program: it applies what it is handed, gives
  up its copies at a gap, and asks for snapshots or waits for published ones.
* **`Codec`** (`TransitProofs`): the frames of a session and the records of the command journal,
  byte by byte. A layout lists the fields in the order of the encoder's `put`
  calls, a second table in the order of the decoder's cursor; a byte is a field's
  name and a position in it, so that what holds of a message holds of every value
  of its fields, and a field read at the wrong place or width yields bytes of
  another. `Damage` cuts, extends or changes what was written, once.
* **`Instruments`** (`ServicesProofs`): the registry's pairs of instruments,
  indexed with saturating 16-bit arithmetic, and the status and hours of each.
* **`Metrics`** (`ServicesProofs`): the two compare-exchange loops of
  `record_order_latency`, one step per atomic operation. `Relaxed` is modelled as
  a load that may return any value the location has held (`minHeld`, `maxHeld`).
* **`Server`** (`ServicesProofs`): the matcher's loop, which sends the trades of one
  command before it takes the next, and the turns of the scavenger. What a command
  trades is the engine's business and is any number of trades here. `Enqueue` is the
  producer that the queue and the loop are there for: `main.rs` itself submits
  nothing after the two orders of its warm-up.
* **`MCServices`** puts the hot standby, the quorum, the session, the feed,
  settlement, risk, the formats, the counters, the registry and the lifecycle
  into one instance. In the code they share nothing and call nothing of each
  other, so a behaviour steps one of them only (`stepping`). **`MCServer`** does
  the same with the server and a session, under the fairness that liveness needs.
* **`Ledger`**: `post_batch` is modelled posting by posting with a bounded
  integer, because its checks and its postings fail at different points.
* **`EventJournal`** (`ServicesProofs`): the journal, the ledger of its events and the snapshot of
  that ledger, on a disk that may lose whatever was not synced and keep part of
  it. The four system calls of `ReplaySnapshot::write` are four actions; an
  append is one, because nobody reads the file in between, with `AppendFails` for
  every point at which it can stop, and `SaveFails` for every point at which the
  write of a snapshot can. A later successful sync is taken to cover what an
  earlier one failed to, and a crash before the directory is synced to keep the
  old name or a newer one. A write ends in one of two ways, as its path has it:
  `SyncDirectory`, or, under a bare file name, `ReturnUnsynced`, where `write`
  returns `Ok` with nothing synced but the data; `returned` counts only the
  former. Nobody syncs the directory of a new journal, so it may be one whose name
  is not yet on the disk (`entered`), and a crash can then take the file with all
  it acknowledged (`FileGone`, `vanished`); the next open starts an empty one.
  After a restart the caller starts from the snapshot and cannot replay the rest
  (section 4).

Definitions under *a slip the properties must catch* are mutated forms of the
definition that follows; they are used nowhere else. A property is only kept if
such a slip violates it.

## 3. The runs

| run | instance and bounds | shows |
|---|---|---|
| `raft_safety` | 3 nodes, terms to 2: all elections (up to 6) with empty logs; soon after an election (1 entry, 1 more election); two conflicting leaders (2 entries) | no term has two leaders, in spite of `become_follower` forgetting the vote; log matching, leader append-only, safe commitment and no abort until a match is overstated |
| `raft_minority_commit` | the same, 1 election | **violation**: a leader commits an entry only it holds |
| `engine_priority` | 1 instrument, 5 commands one at a time, 4 order names, 2 prices, quantities 0 to 2 | price-time priority on books of up to four resting orders |
| `engine_pipeline` | 2 instruments, 4 commands of every kind, 2 in flight, queue of 1 | the same promise when cancels and replacements are overtaken by fills, and when the queue is full; a command has no effect only if its target is gone |
| `engine_reuse` | as above with 2 prices, 1 instrument, pool of 3 slots, names reused in flight | slots, lists, levels and their volumes stay consistent, and books uncrossed, even then |
| `engine_key_reuse` | the same | **violation**: two orders rest under one name |
| `durable` | 3 commands, one at a time, quantities 1 and 2, 2 crashes, 1 append that fails before or after it wrote | the journal is the list of admitted commands, and a recovered engine is the one that crashed |
| `durable_pipelined` | two in flight | **violation**: recovery refuses a command that was accepted |
| `event_journal` | 1 order, 2 numbers, 3 records, 2 crashes, both durabilities, both kinds of path, a journal with its name on the disk or not | as long as the journal's file is there, the events it acknowledged are; a snapshot that was returned with its directory synced survives; what is read is whole; unless it vanished, a synced journal is never behind the snapshot |
| `journal_replay` | the same | **violation**: `replay_file` refuses what the journal wrote |
| `services` | standby: 4 commands to each sequencer, channel of 2; quorum: 3 replicas, 2 indexes; session: 3 frames, 3 roles; feed: 2 instruments, 5 events, queue of 2; settlement: 3 accounts, 2 trades, fees of 80% and 40%, amounts to 9; risk: 2 accounts with 2 order names each, 2 prices, 2 quantities, limits, freezes; formats: every message, files of up to 2 records, 1 damage; counters: 2 threads, 3 calls, 4 latencies; instruments: 2 sovereigns | agreement is completeness, agreed state survives, the standby is fenced; commits are held by a majority; orders are handed on once, in order and with permission; a consumer's copy is exact or known to be stale; settlement is whole, final and explained by the entries; holds match orders and value is conserved until a fill fails half-way; a frame or record is read as written or refused; no extreme is lost; no instrument is overwritten or reopened |
| `server` | 2 warm-up orders, 5 commands of up to 2 trades, queue of 2, batches of 3, chunks of 2 trades; a session of 3 frames | no trade lost, repeated or out of order; every command processed and every trade flushed in the end; only a second logon stops a session |

Type invariants are proved rather than run, except for `RaftNode`, whose other
invariants build on it.

*Why these bounds suffice.* Three nodes are the smallest cluster in which a
majority excludes somebody, and two terms the fewest with a stale leader; a
conflict needs two entries. In the engine the list operations distinguish head,
middle and tail, which needs three orders at a level; `engine_priority` has up
to four resting orders. A target that disappears between acceptance and processing needs three
commands (order, cancel, fill). For the ledger, the fee account may be a party,
so three accounts give all coincidences of parties; `MaxAmount` is small so that
overflow is reached. A record or a frame is decoded by its own bytes alone, so
two records (`FileLength`) have a first, a middle boundary and a torn last, and the
theorem takes files of any length. Two threads are what
one compare-exchange needs to lose a race, and four latencies leave room between
the extremes. Batches of three and commands of up to two trades make batches
split commands and commands span batches. A replacement, a partial fill and a cancel of one order
exhaust the paths of a reservation. `MaxSequence`, `MaxTerm`, `MaxElections`,
`MaxRequests`, `MaxLog`, `MaxInFlight`, `MaxFunds`, `MaxSeed`, `MaxCommands`,
`MaxRecords`, `MaxCrashes`, `MaxLeft`, `MaxIndex`, `MaxFrames`, `MaxOutbound`,
`MaxPublished`, `MaxFills`, `MaxRecorded` are the bounds on counters, each named as a constant;
`Scenario` and `UntilTorn` are state constraints, explained where they are
defined. In `event_journal` one order suffices because no event says anything of
two of them but a replacement, and an order may replace itself; a regression
that a later open meets needs two numbers and two crashes; three records let a
batch fail in its middle and another follow it. Two indexes are what the
acknowledgements of one need to be taken for another's; three frames are a logon,
a message and one that overtakes it; five events overflow a queue of two while a
consumer resynchronises, and two instruments let a snapshot of one meet a delta
of the other. `RolesUsed` has a role that may trade, one that may not, and one
that may do next to nothing. `SnapshotAhead = {1}` is the contract that a
published snapshot has a number of its own (see section 4). Deadlock checking is off because these bounds end behaviours.
The symmetry sets permute values that no action or property names.

*Fairness.* `Server` has weak fairness of each of its two threads: both loop for
ever and neither waits for the other, because `try_recv` and the send into an
unbounded channel return at once and `recv_timeout` returns after 100 ms. Nothing
makes a client enqueue, so liveness is claimed of commands that are in the queue
and of trades that were made. `EverythingArrives` is what the timeout of the
scavenger is for: without it the last trades would wait for a batch to fill. The
session has weak fairness of receiving, which stands for a client that sends the
expected frame again until it is received; `ReceivedUpToLogon` shows that only a
second logon frame then stops it. The other specifications state no fairness and
no liveness is claimed: the source has no scheduler that would justify it for
consensus or replication.

## 4. Disagreements with the documents

* **Overstated match** (`raft_minority_commit`). `handle_append_entries` answers
  a success with its own last index. A follower with a stale suffix thereby
  acknowledges entries the leader never sent, and the leader commits on them, or
  later aborts on a `next_index` beyond its log. `SafeUnlessOverstated` says that
  this is the only cause at these bounds.
* **Reused name** (`engine_key_reuse`). `accept_command` looks for an order's name
  in the books, which a command that is accepted and not yet processed has not
  reached. Two orders accepted under one name both rest, and the order map knows
  one of them. `OrderMapExact` holds when clients do not do this
  (`KeyReuse = FALSE`).
* **Pipelined acceptance** (`durable_pipelined`). A journal written with several
  commands in flight can contain a command that recovery refuses.
* **Unreadable journal** (`journal_replay`). `encode_event` puts the kind in
  front of the payload, `decode_event` takes it from the header and reads the
  fields from the first byte on. Every decoded number is shifted by a byte, and
  `replay_bytes` refuses the first record.

The models contain more disagreements as ordinary behaviour, described at their
hazards in `PROJECT.json`: a full queue leaves a gap in the sequence numbers;
`post_batch` is not atomic when a posting overflows; `apply_fill` takes the
buyer's cash before it finds that the seller cannot deliver (it demands the
quantity over and above what the seller has reserved); a promotion does not stop
the old primary from processing; a journal append that fails after it wrote is
refused to the client and replayed by recovery, or leaves a torn record behind
which nothing is recovered; the event journal goes on acknowledging behind a
torn record, which no open accepts; a second logon frame is refused without its
number being received, so that every later frame is a gap; the scavenger counts
a full buffer as one chunk, whatever it holds; and a published snapshot that
carries the number of the latest delta hides from a consumer that it missed that
delta (`SnapshotAhead = {0}` violates `CopyExact`); a snapshot written under a
bare file name is returned before its name is on the disk, and a crash may take
it back; and a crash may take a new journal whole, because its directory is never
synced. The properties of the passing runs name the states they exclude
(`NeverOverflowed`, `torn`, `left`, `KeyReuse`, `buffered`, `vanished`), and
except for reused names and such snapshots the runs reach them. What happens in
those states no property judges: the hazards that consist in reaching them (an
overflow inside a batch, a torn fill, a replacement refused after its reservation
was taken back, a snapshot number used twice, an unsynced directory entry under a
bare name) are listed without a property, with what the model does there.

## 5. Proofs

Proved by TLAPS for every value of the constants, from the named assumptions in
the modules (membership odd and at least three; bounds natural numbers):

* `RaftNodeProofs!TypeCorrect`: `Spec => []TypeOK`, one lemma per handler.
* `RaftNodeProofs!OneLeaderPerTerm`: `Spec => []ElectionSafety`. The usual
  argument, that a node votes once per term, is not available: `become_follower`
  forgets the vote even within a term. The inductive invariant `ElectionInv`
  speaks of *ballots* on the network instead. As long as no leader of a term has
  announced itself, a node has one ballot in it and its `votedFor` remembers it
  (`OneOpenBallot`, `BallotStands`). Once a leader has announced itself, a
  majority is *bound*: each of them voted for the leader and cannot vote for
  another in that term (`LeadersElected`), because only a message of that leader
  makes a node forget a vote within its term, or a message of a later term. Two
  majorities meet (`MajoritiesMeet`), so there is no second leader. No bound of
  the model is used beyond its being a number.
* `RaftNodeProofs!LogsMatch`: `Spec => []LogMatching`. Logs alone are not
  inductive, because a request carries a stretch of a log that its sender may
  since have lost. `LogInv` therefore says that there is one *line* for each term
  (the log of the term's leader, the last it had once it is gone), such that
  every log, and what every request carries, is made of beginnings of lines: up to an
  entry it is the line of that entry's term (`Lined`, `OnLine`). The lines are
  quantified, since no variable remembers those of leaders that are gone; a step
  extends the line of at most one term (`Succeeds`). Who was elected leads until it sees a
  later term (`LeadersStay`), so what it pushes is new, and a follower's log
  spliced with a request at an index where the terms are equal is lined again.
* `RaftNodeProofs!LeadersKeepTheirLogs`: `Spec => LeaderAppendOnly`. A request
  that reaches a leader in its own term would come from a second leader, which
  `ElectionInv` excludes; one of a later term makes it a follower.
* `RaftNodeProofs!SafeWhileAnswersExact`: `Spec => []SafeUnlessOverstated`.
  An entry is *stored* by a node that has answered for it in its term, or led
  that term, and *chosen* when a majority has stored it. `SafeInv` holds as long
  as nobody overstated. Its core: a node gives up what it has stored only for a
  leader that lacks it (`StoredKept`); a vote goes to a log that reaches whatever
  its giver had stored (`VotersInformed`), and the log is still the candidate's
  while it stands (`CandidateLog`); so of the majority that elected a leader each
  knew what it had stored (`LeadersInformed`). Were a chosen entry missing from
  some later line, take the line of least term: one of its voters had stored the
  entry, which gives a lesser one (`ChosenOnLines`). What a leader counts when it
  commits is chosen (`Advances`; it commits only entries of its own term), and
  what requests, followers' commit indexes and application states hold is a
  beginning of something chosen (`RequestsChosen`, `CommitsChosen`,
  `AppliedChosen`), so any two agree (`SafeMeet`). `IndexesKnown` keeps
  `next_index` within the leader's log, so no request is built beyond it. The run
  `raft_minority_commit` shows that the hypothesis is needed.
* `TransitProofs!AgreementComplete`, `ReplicatedKept` and `OldPrimaryFenced`. The primary counts
  the commands it accepted, and so does the standby; the counters are part of the
  fingerprint (`Counted`). Before a takeover the standby's log is never longer
  than the primary's and, where the lengths agree, is the same log (`InStep`).
  Equal fingerprints therefore mean equal logs, and an engine's log only grows
  (`Kept`).
* `ServicesProofs!AcknowledgedStays` and `OpenAcceptsWhole`. The invariant
  `JournalInv` says of the file that its synced part contains what was
  acknowledged (`Synced`), that its whole records are sorted (`Sorted`) and that
  `last` bounds them (`LastBounds`); the last is needed because it is what an
  append compares with, and what a reopening must restore. One lemma per step:
  append, failed append, crash, open. What was acknowledged counts from the
  creation of the file: a crash that takes the file of a journal whose directory
  was never synced takes the acknowledged events too (`FileGone`).
* `ServicesProofs!SnapshotNeverPartial`, from `SnapshotInv`, which says what
  the temporary file and the disk hold at each stage of a write.
* `ServicesProofs!BooksExact` and `NoneSkipped`: `CopyExact` and
  `NothingSkipped` for every queue size. `FeedInv` says that a queue without a gap
  leads from the consumer's copy to the published books (`QueueSound`,
  `UpToDate`), and that a snapshot in it is a book there was (`DepthSound`). The
  assumption is that snapshots have numbers of their own, `0 \notin SnapshotAhead`.
* `ServicesProofs!ExtremesNeverLost`: `ExtremesExact` for any number of threads.
  What a location ever held bounds what a thread may read (`HeldBounds`); a
  thread that leaves its loop has seen a value beyond its own (`ThreadSound`,
  `Accounted`), and the extremes were recorded by somebody (`Attained`).
* `ServicesProofs!EveryTradeOnItsWay` and `ArchiveNeverOverstated`:
  `TradesOnTheirWay` and `ArchiveAccounted` for every batch and chunk size, from
  `ServerInv`, which adds the types and that the buffer is below its limit
  between turns. The one non-linear step is a lemma, `ChunkAccounted`.
* `ServicesProofs!NumbersNeverRestart`: `NumberedOnce`. `SessionInv` says that an
  established session has a role and that roles are registered ones, so the only
  action that resets the numbers is the first logon.
* `ServicesProofs!PairsNeverOverlap` and `EndedForGood`: `PairsWhole` as long as
  the numbers of the instruments fit 16 bits (`InstrumentsAssumption`), where
  saturation never happens; and `NeverReopened`, from the table of transitions.
* `TransitProofs!CommittedByMajority`, from `QuorumInv`: an acknowledgement that
  counts comes from a replica that stores the next index (the code forgets the
  acknowledgements of an index when it commits, which is what keeps this true),
  and no replica stores an entry of this leader beyond the leader's log.

* `TransitProofs!FramesAreExact` and `JournalsAreExact`: `FrameExactOrRefused` and
  `JournalYieldsWhatIsThere` for every `MaxPayload` of at least 48 and `MaxRecord` of
  at least 40 bytes (`CodecAssumption`: the longest message and the longest command
  fit; the code's limits are far above) and for journals of any length. For every
  layout there is, the cursor finds each field where the encoder put it
  (`FieldsUnderCursor`, `ReadsBack`); the fourteen layouts of the code are such and
  are the same on both sides (`LayoutsSound`, `SameLayouts`). The fixed fields of a
  frame and what its checksum covers leave nothing open, so only a frame's own bytes
  are read (`ChecksumDecides`, `OnlyOwnFrame`), and a record is read only with its own
  payload (`OnlyOwnRecord`). Both hold of *any* bytes, not only of those one change
  leads to. The fold of `decode_records` is unfolded to a loop (`LoopRuns`) whose
  invariant, `Reached`, says that after m turns it has read the first m records and
  stands behind them, or has refused the file, or is at its end; so it reads what
  any bytes begin with and nothing else (`YieldsWhatIsThere`), and all of a whole file
  (`YieldsEverything`). What remains assumed is what the model says of a checksum,
  that it differs whenever the region does.

* `ServicesProofs!RestartsSoundly`: `Spec => []RestartsFromSnapshot`, from
  `RestartInv`: no order is both accepted and gone on any ledger there is
  (`LedgersConsistent`), no ledger or snapshot is ahead of what is synced while
  every journal was opened with `SyncData` and none vanished (`LedgersReached`),
  and the snapshots that were returned, are on the disk, under the name and in the
  temporary file follow each other in age (`SnapshotsOrdered`). The claim that a
  returned snapshot is found is about writes under a path with a directory. Writes
  under a bare file name are steps of the behaviours it is proved for, and cannot
  take back what was returned before; of their own snapshot it says nothing.
* `ServicesProofs!HandedOnOnceInOrder`: `HandedOnExactly`, from `HandedOnInv`: the
  number expected next is beyond the logon's and at most one beyond what the client
  sent, and before the logon nothing is handed on.
* `FundsProofs!BooksBalance`, `DeliveryVersusPayment` and `SettledOnce`, from
  `LedgerInv`: no trade has postings before it has a record, what a record says is
  of the terms it was made with, a settled trade has its legs in one unbroken
  stretch of entries, and the entries replayed over the seedings give the
  balances. A balance is not negative *while nothing overflowed*: a batch that
  stops at an overflow after it debited somebody can leave a balance below zero,
  because the check of the net effect has already passed. The attempt to prove
  the claim without that condition is what showed it; TLC confirms it.
* `FundsProofs!PromisedOnceOnly` and `ValueConserved`, from `RiskInv`: what is
  held of an account is the sum, over all its order names, of what each open
  reservation needs (`BookSound`), and the sum over all accounts is what came in.
  Each call changes one summand, or two that cancel.
* `EngineProofs`, from one inductive invariant, `EngineInv`: there is a division of
  the slots into the free ones `F`, the ones in flight and the resting ones `R[i]`
  of each book, under which everything holds that the code's pointers rely on.
  It is built bottom-up. `IsList` says that a sequence of slots is what `next`
  leads through; two lists that start alike are one list, so the invariant need
  not store them. On it rest the free list (`PoolOK`), the queue of a level with
  its backward links, counter and volume, and a book as the levels whose queues
  divide `R[i]`; for each of allocation, release, insertion at the tail,
  unlinking (head, tail, middle, last), a partial fill in place and a filled
  head one lemma says what becomes of them. The rounds of `Match` are an induction whose statement
  also says that the rounds suffice: each takes an order away or ends the
  matching. Then come whole commands (cancel, cancel and re-enter, match, rest or
  release) and the line of commands in flight, which are in the order of their
  sequence numbers, all later than what rests (`LineOK`, `Earlier`).
  * `SlotsAccountedFor` (`NoSlotLeaked`) and `BooksWellFormed` (`BookWellFormed`)
    hold for all clients, those that reuse names included: that is why the
    invariant keeps what it says of names apart.
  * `OrdersFoundByName` (`OrderMapExact`), `NamesUnique` (`ActiveNamesUnique`) and
    `SilenceMeansGone` (`SilentOnlyWhenTargetGone`) assume `~KeyReuse`. `NamesApart`
    says why this is enough: of what is in flight only a replacement of an order
    by itself bears the name of a resting one. `NamesUnique` is the very property that
    `engine_key_reuse` refutes; the theorem says that the reuse of a name in flight
    is the only way to break it.
  * The volume of a level is a `u32` that wraps in a release build. `LevelWellFormed`
    states its equality with the sum of the remaining quantities when
    (`VolumesFit`) the quantities of as many orders as the pool has slots fit in it.

* `RefinementProofs!KeepsPromise`: `Spec => KeepsPriceTimePriority` for `~KeyReuse`,
  that is, the whole engine implements `PriceTimeBook`, step by step. The
  difficulty is that one side computes all trades at once from sums over sets and
  the other makes them one by one in a loop over linked lists. So both are cut
  into single trades.
  * On the abstract side: somebody is first among the orders that may be traded
    with (`SomebodyFirst`), and what `PriceTimeBook` says of an order and a book is the trade
    with the first, followed by what it says of the rest of the order and the book
    without what that trade took (`NextTrade`, `LastTrade`; `NobodyHit` when there is none
    left). The sums behind `Taken` shift by what the first one had (`LeftChanged`,
    `TurnsShift`).
  * On the engine's side: `BestHead` is that first order, because the head of the
    best level has the least sequence number of the best price (`LevelRises`,
    `FirstMet`), and one round of the loop makes exactly that trade and leaves
    exactly that book (`FillThins`, `FillReports`).
  * An induction over the rounds (`Halfway`, `MatchTrades`) joins them: at any time
    the trades made so far, followed by what `PriceTimeBook` says of what is left,
    are what it says of the whole. The loop ends when nothing more can be traded.
  * The rest is bookkeeping: the target of a replacement is gone before it matches
    (`CancelFirstVacates`), what remains rests (`RestJoins`), the events hold the trades
    in their order (`TradesInEvents`), and every other book shows what it did (`OneBookShown`).
    Besides `EngineInv` the proof needs that nothing of a command in flight has been
    traded (`LineInv`).

* `RecoveryProofs`, of the engine behind its journal. Since the engine of
  `DurableEngine` takes the steps of `MatchingEngine` (the caller's `ProcessAccepted` is
  `ProcessOrder` without a queue, a failed append gives its slot back, `FailUnseen`, and a
  crash starts again), the lemmas of `EngineProofs` and `RefinementProofs` about one
  command carry over: they are stated of a command that is admitted, or of the first in
  line that is processed, not of the actions that do it.
  * `AdmittedIsJournaled`: `DSpec => []JournalIsAdmitted`, with no condition on the
    clients. `JournalInv` counts: the places that no failed append left (`Counted`)
    are as many as the numbers handed out, and the record of a command in flight is at the
    place that its number counts to (`Recorded`), which is one place only
    (`PlaceIsThere`). Success adds a place to the count (`OneMore`), failure none (`OneLeft`).
  * `ComesBackAsBefore`: `DSpec => RecoveredAsBefore` for `~KeyReuse`, and for any
    number of commands in flight. The journal has a *history* (`Traced`): the book
    `B[n]` that `PriceTimeBook` makes of its first `n` commands, and the next order id
    `I[n]`. `HistoryInv` says that an engine that has admitted `n` records, and has yet to
    execute `m` of them, shows the book `B[n - m]`, has exactly the commands from
    there to `n` in flight, and hands out `n + 1` and `I[n]` next (`Stands`). Admission and
    execution keep it there, before the crash and in recovery, and slots do not
    occur in it. So an engine that was idle showed `B[n]` of the whole journal, and so
    does the one that has replayed it.
  * `AcknowledgedIsRecovered`: `DSpec => []RecoversUnlessTorn` for `~KeyReuse` and
    `MaxInFlight <= 1`. With nothing in flight, what `accept_command` checks depends on
    the shown book alone (`AcceptableShown`; that a slot is free, too: `RoomShown`), so
    what passed the check when it was recorded passes it in replay (`Serial`). The second
    hypothesis is needed: `durable_pipelined` refutes the property without it.

What a sum over a set, a fold or a recursive function computes is within reach here,
although the library's induction theorems are not: `SumLemmas` states induction over
numbers and finite sets with a *set* in the place of the property (`Induction`,
`SetInduction`), unfolds `FoldFunctionOnSet` to the `CHOOSE` it is defined by, and
shows that the function chosen exists. `RECURSIVE` operators stay out of reach.

Only model-checked: the two liveness properties, `EverythingArrives` and
`ReceivedUpToLogon`. Liveness under fairness and ENABLED are outside the prover's
reach. Every other property of a passing run is a theorem.

## 6. Not modelled

* **Health page** (`health.rs`): serves a page with the counters. It keeps no
  state and nothing depends on what it reads; its readings of several counters
  are not one instant's, which is no promise of the code.
* **Certification, performance harness, bot swarm, stress binaries**
  (`certification.rs`, `bin/`): measurement and load; local
  figures around calls of the engine that `MatchingEngine` models.
* **Ticker** (`ticker.rs`): searches the constant table of sovereigns under older
  names; nothing changes state.
* **Pinning of threads** and the two periodic turns of the scavenger that only
  print a line.
* **Queries**: `recovery_request`, `heartbeat_due` and the other readers, which
  change nothing.
* **crossbeam's queue and channel**: a library; modelled as a bounded and an
  unbounded sequence, as their contract says, which is why the command ring is
  `partly` modelled.
* **Restarts of a Raft node**: the code persists no term, vote or log, so there is
  nothing to restart from; `RaftNode` states its safety for nodes that stay up.
* **Web front end** (`src/src`) and **deployment**: the front end shows simulated
  data and does not talk to the crate; the scripts install and start it.

Two compositions are absent because the source does not make them: risk in front
of the engine, and the engine behind a gateway session and the lifecycle.
