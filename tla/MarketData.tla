----------------------------- MODULE MarketData -----------------------------
(***************************************************************************)
(* The market data publisher (exchange_core/src/market_data.rs) and a      *)
(* consumer that keeps a copy of the published books.                      *)
(*                                                                         *)
(* A subscriber's queue is bounded and drops its oldest event.  The        *)
(* consumer is not part of src/: it applies the deltas that poll hands     *)
(* out, notices gaps, and recovers by a snapshot, either one it asks for   *)
(* (full_depth_snapshot, with the number of the latest delta) or one that  *)
(* is published to everybody.  A book is the set of the deltas that made   *)
(* it, each named by its number.                                           *)
(***************************************************************************)
EXTENDS Naturals, FiniteSets, Sequences

CONSTANTS Symbol,       \* the instruments
          QueueSize,    \* MarketDataPublisher::capacity
          MaxPublished, \* bound: the highest number of an event
          SnapshotAhead \* what a published snapshot adds to the latest number

ASSUME MarketDataAssumption ==
  /\ QueueSize \in Nat \ {0} /\ MaxPublished \in Nat
  /\ SnapshotAhead \subseteq Nat

VARIABLES nextNumber, \* MarketDataPublisher::next_sequence
          feed,       \* the queue of the subscriber
          subscribed,
          depth,      \* the published books
          expected,   \* of the consumer: the number it asks poll for
          copy,       \* of the consumer: its copy of the books
          current     \* of the consumer: the books it believes to have a copy of

publisherVars == <<nextNumber, depth>>
consumerVars  == <<expected, copy, current>>
feedVars == <<publisherVars, feed, subscribed, consumerVars>>

Latest == nextNumber - 1

FeedInit ==
  /\ nextNumber = 1
  /\ feed = <<>> /\ subscribed = FALSE
  /\ depth = [s \in Symbol |-> {}]
  /\ expected = 1
  /\ copy = [s \in Symbol |-> {}]
  /\ current = {}

-----------------------------------------------------------------------------
(***************************************************************************)
(* MarketDataPublisher.                                                    *)
(***************************************************************************)
\* A consumer that subscribes late starts without the books.
Subscribe ==
  /\ ~subscribed
  /\ subscribed' = TRUE
  /\ current' = IF nextNumber = 1 THEN Symbol ELSE {}
  /\ UNCHANGED <<publisherVars, feed, expected, copy>>

\* What a full queue loses.
Room(queue) == IF Len(queue) = QueueSize THEN Tail(queue) ELSE queue

\* A slip the properties must catch: a full queue loses the new event.
FeedUnlessFull(event) == feed' = IF subscribed /\ Len(feed) < QueueSize THEN Append(feed, event) ELSE feed

Feed(event) == feed' = IF subscribed THEN Append(Room(feed), event) ELSE feed

\* A change of a book, and its publication by publish_delta.
PublishDelta(s) ==
  /\ nextNumber <= MaxPublished
  /\ depth' = [depth EXCEPT ![s] = @ \cup {nextNumber}]
  /\ Feed([type |-> "Delta", symbol |-> s, number |-> nextNumber])
  /\ nextNumber' = nextNumber + 1
  /\ UNCHANGED <<subscribed, consumerVars>>

\* The number of the next delta once a snapshot is published.
NextAfter(number) == IF number + 1 > nextNumber THEN number + 1 ELSE nextNumber

\* publish_snapshot of full_depth_snapshot, which numbers it as it is told.
PublishSnapshot(s) ==
  \E ahead \in SnapshotAhead :
    LET number == Latest + ahead
    IN  /\ number \in 1..MaxPublished
        /\ Feed([type |-> "Snapshot", symbol |-> s, number |-> number, book |-> depth[s]])
        /\ nextNumber' = NextAfter(number)
        /\ UNCHANGED <<depth, subscribed, consumerVars>>

-----------------------------------------------------------------------------
(***************************************************************************)
(* The consumer, and poll.                                                 *)
(***************************************************************************)
\* What the consumer does with an event it is handed.
Take(event) ==
  /\ expected' = event.number + 1
  /\ IF event.type = "Snapshot"
     THEN copy' = [copy EXCEPT ![event.symbol] = event.book]
     ELSE copy' = [copy EXCEPT ![event.symbol] = @ \cup {event.number}]

\* A slip the properties must catch: a gap is not noticed.
AheadNever(number) == FALSE

Ahead(number) == number > expected

\* poll hands out the event that is expected.
PollNext ==
  /\ feed # <<>> /\ ~Ahead(Head(feed).number) /\ Head(feed).number >= expected
  /\ feed' = Tail(feed)
  /\ Take(Head(feed))
  /\ current' = IF Head(feed).type = "Snapshot" THEN current \cup {Head(feed).symbol} ELSE current
  /\ UNCHANGED <<publisherVars, subscribed>>

\* poll drops an event that is old.
PollOld ==
  /\ feed # <<>> /\ Head(feed).number < expected
  /\ feed' = Tail(feed)
  /\ UNCHANGED <<publisherVars, subscribed, consumerVars>>

\* poll reports a gap and keeps the event; the consumer gives up its copies and
\* goes on with the number it was told.
PollGap ==
  /\ feed # <<>> /\ Ahead(Head(feed).number)
  /\ expected' = Head(feed).number
  /\ current' = {}
  /\ UNCHANGED <<publisherVars, feed, subscribed, copy>>

\* The consumer asks for snapshots of every book and goes on behind them.
Resync ==
  /\ subscribed
  /\ current # Symbol
  /\ copy' = depth
  /\ expected' = Latest + 1
  /\ current' = Symbol
  /\ UNCHANGED <<publisherVars, feed, subscribed>>

FeedNext ==
  \/ Subscribe
  \/ \E s \in Symbol : PublishDelta(s) \/ PublishSnapshot(s)
  \/ PollNext
  \/ PollOld
  \/ PollGap
  \/ Resync

FeedSpec == FeedInit /\ [][FeedNext]_feedVars

-----------------------------------------------------------------------------
\* "Snapshot sequence defines the exact base for incremental replay": a book the
\* consumer believes to have is what was published up to the number it expects,
\* whatever the queue dropped and however gaps, snapshots and late deltas meet.
CopyExact ==
  \A s \in current : copy[s] = {k \in depth[s] : k < expected}

\* "Updates cannot be silently skipped": a consumer that believes to have a book
\* and finds nothing to poll has all of it.
NothingSkipped ==
  feed = <<>> => \A s \in current : copy[s] = depth[s]
=============================================================================
