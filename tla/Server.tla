-------------------------------- MODULE Server --------------------------------
(***************************************************************************)
(* The server binary (exchange_core/src/main.rs): the matcher thread, which *)
(* owns the engine, and the scavenger thread (scavenger.rs), which batches *)
(* the trades and flushes the batches.  An unbounded channel connects them. *)
(*                                                                         *)
(* The matcher sends the trades of a command one by one out of             *)
(* engine.trades before it processes the next command, and the scavenger   *)
(* may run between any two of these steps.  What a command trades is the   *)
(* business of MatchingEngine: here it is any number of trades, numbered   *)
(* as they are made.  Dropped data: the pinning of threads, the two orders *)
(* that verify a cancel and trade nothing, log lines, and the two periodic *)
(* turns of the scavenger that only print one.                             *)
(***************************************************************************)
EXTENDS Integers, Sequences

CONSTANTS WarmUpOrders,   \* 10,000
          RingSize,       \* RING_BUFFER_SIZE
          MaxFills,       \* bound: trades of one command
          MaxCommands,    \* bound: commands
          BatchThreshold, \* 1000 trades
          TradeBytes,     \* 24, what a trade takes in the WAL buffer
          ChunkSize       \* GITHUB_CHUNK_SIZE

ASSUME ServerAssumption ==
  /\ WarmUpOrders \in Nat /\ RingSize \in Nat /\ MaxFills \in Nat /\ MaxCommands \in Nat
  /\ BatchThreshold \in Nat \ {0}
  /\ TradeBytes \in Nat \ {0} /\ ChunkSize \in Nat \ {0}

VARIABLES accepted,  \* commands the engine has accepted, and the number of the last
          queue,     \* numbers of the commands on their way to the loop
          executed,  \* the command processed last
          trades,    \* engine.trades
          nextTrade, \* the matcher's position in engine.trades
          channel,   \* trade_tx to trade_rx
          batch,
          walBytes,  \* wal_buffer.len()
          archived,  \* compressed_bytes_written
          made,      \* history: how many trades the engine has made
          flushed    \* history: every trade that was flushed, in order

engineVars == <<accepted, queue, executed, trades, made>>
scavengerVars == <<batch, walBytes, archived, flushed>>
serverVars == <<engineVars, nextTrade, channel, scavengerVars>>

\* A slip the properties must catch: the last trade is not waited for.
SentAllButOne == nextTrade >= Len(trades)

SentAll == nextTrade > Len(trades)

Unsent == SubSeq(trades, nextTrade, Len(trades))

-----------------------------------------------------------------------------
(***************************************************************************)
(* The matcher thread.                                                     *)
(***************************************************************************)
StartAtFirst == nextTrade' = 1

\* process_command, and the start of the loop that sends what it made.
Process(command) ==
  /\ SentAll
  /\ executed' = command
  /\ \E fills \in 0..MaxFills :
       /\ trades' = [i \in 1..fills |-> made + i]
       /\ made' = made + fills
  /\ StartAtFirst
  /\ UNCHANGED <<channel, scavengerVars>>

\* The warm-up accepts an order and processes it without the queue.
WarmUp ==
  /\ accepted < WarmUpOrders
  /\ accepted' = accepted + 1
  /\ Process(accepted + 1)
  /\ UNCHANGED queue

WarmedUp == SentAll /\ accepted >= WarmUpOrders

\* accept_command and enqueue_order, called between two commands by the owner of
\* the engine; a full queue refuses the command.  (After the warm-up main.rs itself
\* calls neither: this is the producer that its queue and its loop are there for.)
Enqueue ==
  /\ WarmedUp
  /\ accepted < MaxCommands
  /\ accepted' = accepted + 1
  /\ queue' = IF Len(queue) < RingSize THEN Append(queue, accepted + 1) ELSE queue
  /\ UNCHANGED <<executed, trades, made, nextTrade, channel, scavengerVars>>

HasWork == queue # <<>>

\* A turn of the loop: queue.try_recv.
TakeCommand ==
  /\ HasWork
  /\ queue' = Tail(queue)
  /\ Process(Head(queue))
  /\ UNCHANGED accepted

SendTrade ==
  /\ ~SentAll
  /\ channel' = Append(channel, trades[nextTrade])
  /\ nextTrade' = nextTrade + 1
  /\ UNCHANGED <<engineVars, scavengerVars>>

-----------------------------------------------------------------------------
(***************************************************************************)
(* The scavenger thread.                                                   *)
(***************************************************************************)
Flush(full) ==
  /\ flushed' = flushed \o full
  /\ batch' = <<>>

\* A slip the properties must catch: the buffer is not cleared.
RotateWithoutClear(bytes) ==
  /\ walBytes' = bytes
  /\ archived' = IF bytes > ChunkSize THEN archived + ChunkSize ELSE archived

\* The end of a turn: a full buffer counts as one chunk, whatever it holds.
Rotate(bytes) ==
  IF bytes > ChunkSize
  THEN walBytes' = 0 /\ archived' = archived + ChunkSize
  ELSE walBytes' = bytes /\ UNCHANGED archived

\* recv_timeout returns a trade.
ReceiveTrade ==
  /\ channel # <<>>
  /\ channel' = Tail(channel)
  /\ LET full == Append(batch, Head(channel))
     IN  IF Len(full) >= BatchThreshold THEN Flush(full)
         ELSE batch' = full /\ UNCHANGED flushed
  /\ Rotate(walBytes + TradeBytes)
  /\ UNCHANGED <<engineVars, nextTrade>>

\* A slip the properties must catch: only a full batch is worth a flush.
WorthFlushingWhenFull == Len(batch) >= BatchThreshold

WorthFlushing == batch # <<>>

\* It times out, with nothing in the channel.
TimeOut ==
  /\ channel = <<>>
  /\ WorthFlushing
  /\ Flush(batch)
  /\ UNCHANGED <<engineVars, nextTrade, channel, walBytes, archived>>

ServerInit ==
  /\ accepted = 0 /\ queue = <<>> /\ executed = 0
  /\ trades = <<>> /\ nextTrade = 1
  /\ channel = <<>> /\ batch = <<>>
  /\ walBytes = 0 /\ archived = 0
  /\ made = 0 /\ flushed = <<>>

Matcher   == WarmUp \/ TakeCommand \/ SendTrade
Scavenger == ReceiveTrade \/ TimeOut

ServerNext == Matcher \/ Enqueue \/ Scavenger

\* Both threads loop for ever and neither waits for the other: try_recv and the
\* send into an unbounded channel return at once, recv_timeout after 100 ms.
\* Nothing makes a client send an order.
ServerFairness == WF_serverVars(Matcher) /\ WF_serverVars(Scavenger)

ServerSpec == ServerInit /\ [][ServerNext]_serverVars /\ ServerFairness

-----------------------------------------------------------------------------
\* A trade is somewhere on its way and nowhere twice: flushed, in the batch, in
\* the channel, or among the trades the matcher has still to send; and they are
\* flushed in the order in which the engine made them (main.rs, scavenger.rs).
TradesOnTheirWay == flushed \o batch \o channel \o Unsent = [i \in 1..made |-> i]

\* What the scavenger reports as archived is what it has received, but for what
\* is in the buffer and at most a trade's bytes for each chunk.
ArchiveAccounted ==
  LET unreported == (Len(flushed) + Len(batch)) * TradeBytes - walBytes - archived
  IN  unreported >= 0 /\ unreported * ChunkSize <= archived * TradeBytes

\* Every command in the queue is processed in the end, however many trades the
\* commands before it make, and every trade is flushed in the end, also when too
\* few follow it to fill a batch (the matcher's loop in main.rs, the timeout in
\* scavenger.rs).
EverythingArrives ==
  /\ \A n \in 1..MaxCommands : (\E k \in DOMAIN queue : queue[k] = n) ~> executed >= n
  /\ \A n \in 1..(MaxCommands * MaxFills) : made >= n ~> Len(flushed) >= n
===============================================================================
