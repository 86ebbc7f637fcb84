-------------------------------- MODULE Metrics -------------------------------
(***************************************************************************)
(* The least and the greatest latency among the performance counters       *)
(* (exchange_core/src/metrics.rs), which threads share without a lock.     *)
(* Every atomic operation is a step of its own, and all of them are        *)
(* Relaxed: a load may return any value the location has held, only an     *)
(* exchange that succeeds sees the latest, and compare_exchange_weak may   *)
(* fail for no reason.  The three sums are left out: each is kept by a     *)
(* single fetch_add.                                                       *)
(***************************************************************************)
EXTENDS Integers, Sequences

CONSTANTS Recorder,    \* threads that call record_order_latency
          Latency,     \* the durations they call it with
          U64Max,
          MaxRecorded  \* bound: calls

ASSUME MetricsAssumption ==
  U64Max \in Nat /\ Latency \subseteq 0..U64Max /\ MaxRecorded \in Nat

VARIABLES minLatency, maxLatency,
          minHeld, maxHeld, \* what the two locations have held so far
          at,               \* where each thread is in record_order_latency
          nanos,            \* duration_nanos of its call
          seen,             \* its current_min or current_max
          recorded          \* history: the durations, in the order of the calls

minVars == <<minLatency, minHeld>>
maxVars == <<maxLatency, maxHeld>>
metricsVars == <<minVars, maxVars, at, nanos, seen, recorded>>

Goto(r, step) == at' = [at EXCEPT ![r] = step]

\* A load, before a loop or by an exchange that fails.
Load(r, held) == \E value \in held : seen' = [seen EXCEPT ![r] = value]

\* The call, up to the load before the first loop.
Call(r, duration) ==
  /\ at[r] = "idle"
  /\ Len(recorded) < MaxRecorded
  /\ nanos' = [nanos EXCEPT ![r] = duration]
  /\ recorded' = Append(recorded, duration)
  /\ Load(r, minHeld)
  /\ Goto(r, "min")
  /\ UNCHANGED <<minVars, maxVars>>

\* The end of the first loop, and the load before the second.
LeaveMin(r) ==
  /\ at[r] = "min"
  /\ nanos[r] >= seen[r]
  /\ Load(r, maxHeld)
  /\ Goto(r, "max")
  /\ UNCHANGED <<minVars, maxVars, nanos, recorded>>

\* Slips the properties must catch: a store in place of the compare-exchange.
MinStored(r) == at[r] = "min" /\ nanos[r] < seen[r]
MaxStored(r) == at[r] = "max" /\ nanos[r] > seen[r]

MinExchangeable(r) == at[r] = "min" /\ nanos[r] < seen[r] /\ minLatency = seen[r]
MaxExchangeable(r) == at[r] = "max" /\ nanos[r] > seen[r] /\ maxLatency = seen[r]

\* The exchange succeeds and ends the loop.
ExchangeMin(r) ==
  /\ MinExchangeable(r)
  /\ minLatency' = nanos[r]
  /\ minHeld' = minHeld \cup {nanos[r]}
  /\ Load(r, maxHeld)
  /\ Goto(r, "max")
  /\ UNCHANGED <<maxVars, nanos, recorded>>

\* It fails, and the loop goes round with what it found.
FailMin(r) ==
  /\ at[r] = "min"
  /\ nanos[r] < seen[r]
  /\ Load(r, minHeld)
  /\ UNCHANGED <<minVars, maxVars, at, nanos, recorded>>

LeaveMax(r) ==
  /\ at[r] = "max"
  /\ nanos[r] <= seen[r]
  /\ Goto(r, "idle")
  /\ UNCHANGED <<minVars, maxVars, nanos, seen, recorded>>

ExchangeMax(r) ==
  /\ MaxExchangeable(r)
  /\ maxLatency' = nanos[r]
  /\ maxHeld' = maxHeld \cup {nanos[r]}
  /\ Goto(r, "idle")
  /\ UNCHANGED <<minVars, nanos, seen, recorded>>

FailMax(r) ==
  /\ at[r] = "max"
  /\ nanos[r] > seen[r]
  /\ Load(r, maxHeld)
  /\ UNCHANGED <<minVars, maxVars, at, nanos, recorded>>

MetricsInit ==
  /\ minLatency = U64Max /\ minHeld = {U64Max}
  /\ maxLatency = 0 /\ maxHeld = {0}
  /\ at = [r \in Recorder |-> "idle"]
  /\ nanos = [r \in Recorder |-> 0]
  /\ seen = [r \in Recorder |-> 0]
  /\ recorded = <<>>

MetricsNext ==
  \E r \in Recorder :
    \/ \E duration \in Latency : Call(r, duration)
    \/ LeaveMin(r) \/ ExchangeMin(r) \/ FailMin(r)
    \/ LeaveMax(r) \/ ExchangeMax(r) \/ FailMax(r)

MetricsSpec == MetricsInit /\ [][MetricsNext]_metricsVars

-----------------------------------------------------------------------------
Idle == \A r \in Recorder : at[r] = "idle"

\* Once no call is running the two extremes are those of everything recorded:
\* no update is lost to another thread's, to a stale load or to an exchange that
\* fails (the two loops of record_order_latency).
ExtremesExact ==
  Idle /\ recorded # <<>> =>
    /\ \A k \in DOMAIN recorded : recorded[k] \in minLatency..maxLatency
    /\ \E k \in DOMAIN recorded : recorded[k] = minLatency
    /\ \E k \in DOMAIN recorded : recorded[k] = maxLatency
===============================================================================
