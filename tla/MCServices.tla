----------------------------- MODULE MCServices -----------------------------
(***************************************************************************)
(* Small instances of the services around the engine for TLC: the hot      *)
(* standby, the quorum of a replication log, a gateway session, the market *)
(* data feed, settlement, risk, the binary formats, the latency counters   *)
(* and the instruments.  In the code they share no state and do not call   *)
(* each other, so each initial state chooses the one that steps: TLC       *)
(* explores every behaviour of each and none of their products.            *)
(***************************************************************************)
EXTENDS Replication, QuorumTracker, Gateway, MarketData, Ledger, RiskEngine,
        Codec, Metrics, Instruments, TLC

CONSTANTS k1, k2

VARIABLE stepping \* the service that steps

Symmetry == Permutations({k1, k2})

\* A fee of half the notional makes the truncating division matter at the
\* smallest amounts.
Fees == {[maker |-> 8000, taker |-> 4000]}

NoLimit   == [quantity |-> 100, notional |-> 100]
Tight     == [quantity |-> 1, notional |-> 2]
AllLimits == {NoLimit, Tight}

\* A bound: nothing is explored beyond the first fill that fails half-way.
UntilTorn == ~torn

standbyVars == vars

\* What the other services do while one of them steps.
Still(others) ==
  /\ "standby"  \in others => UNCHANGED standbyVars
  /\ "quorum"   \in others => UNCHANGED quorumVars
  /\ "session"  \in others => UNCHANGED gatewayVars
  /\ "feed"     \in others => UNCHANGED feedVars
  /\ "ledger"   \in others => UNCHANGED ledgerVars
  /\ "risk"     \in others => UNCHANGED riskVars
  /\ "codec"    \in others => UNCHANGED codecVars
  /\ "metrics"  \in others => UNCHANGED metricsVars
  /\ {"registry", "lifecycle"} \subseteq others => UNCHANGED instrumentVars

Service == {"standby", "quorum", "session", "feed", "ledger", "risk", "codec", "metrics",
            "registry", "lifecycle"}

InitServices ==
  /\ stepping \in Service
  /\ Init /\ QuorumInit /\ GatewayInit /\ FeedInit /\ LedgerInit /\ RiskInit
  /\ CodecInit /\ MetricsInit /\ InstrumentsInit
  /\ stepping # "quorum" => holds = [r \in Replica |-> {}]
  /\ stepping # "codec" => carrier = "Frame" /\ written = <<"Heartbeat">>

NextServices ==
  /\ UNCHANGED stepping
  /\ Still(Service \ {stepping})
  /\ \/ stepping = "standby"  /\ Next
     \/ stepping = "quorum"   /\ QuorumNext
     \/ stepping = "session"  /\ GatewayNext
     \/ stepping = "feed"     /\ FeedNext
     \/ stepping = "ledger"   /\ LedgerNext
     \/ stepping = "risk"     /\ RiskNext
     \/ stepping = "codec"    /\ CodecNext
     \/ stepping = "metrics"  /\ MetricsNext
     \/ stepping = "registry" /\ RegistryNext
     \/ stepping = "lifecycle" /\ LifecycleNext

SpecServices ==
  InitServices /\ [][NextServices]_<<vars, quorumVars, gatewayVars, feedVars, ledgerVars,
                                     riskVars, codecVars, metricsVars, instrumentVars, stepping>>
===============================================================================
