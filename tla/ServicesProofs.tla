---------------------------- MODULE ServicesProofs ----------------------------
(***************************************************************************)
(* The services around the engine, for every number of instruments,        *)
(* clients, frames, trades, threads and events, every size of a queue or a *)
(* batch and every choice of durabilities: the numbers a gateway session   *)
(* gives its frames and the frames it hands on, the registry and the       *)
(* trading status of the instruments, the least and the greatest latency,  *)
(* the consumer of the market data, the trades on their way to the disk    *)
(* and the archive, and the event journal with its snapshots and restarts. *)
(***************************************************************************)
EXTENDS Gateway, Instruments, Metrics, MarketData, Server, EventJournal, SequenceTheorems, TLAPS

(***************************************************************************)
(* The gateway session.  A session that is logged on stays so, because     *)
(* every credential has a role: only then can the numbers never restart.   *)
(***************************************************************************)
RolesRegistered == \A key \in DOMAIN credentials : credentials[key].role \in RolesUsed

SessionBegun ==
  /\ established => role # Nobody
  /\ ~established => numbered = <<>>

NumbersFollow ==
  /\ numbered \in Seq(Nat)
  /\ nextOut = Len(numbered) + 1
  /\ NumberedOnce

SessionInv == RolesRegistered /\ SessionBegun /\ NumbersFollow

\* The credentials that are registered or disabled keep a role each.
LEMMA CredentialsKeep ==
  ASSUME SessionInv, NEW key \in ApiKey,
         Disable(key) \/ \E r \in RolesUsed : Register(key, r)
  PROVE  SessionInv'
<1>1. RolesRegistered'
  <2>1. CASE Disable(key)
    BY <2>1 DEF SessionInv, RolesRegistered, Disable
  <2>2. CASE \E r \in RolesUsed : Register(key, r)
    <3>1. PICK r \in RolesUsed, enabled \in BOOLEAN :
            credentials' = [k \in {key} \cup DOMAIN credentials |->
                              IF k = key THEN [role |-> r, enabled |-> enabled] ELSE credentials[k]]
      BY <2>2 DEF Register
    <3>2. ASSUME NEW k \in DOMAIN credentials' PROVE credentials'[k].role \in RolesUsed
      <4>1. CASE k = key
        BY <3>1, <3>2, <4>1
      <4>2. CASE k # key
        BY <3>1, <3>2, <4>2 DEF SessionInv, RolesRegistered
      <4> QED
        BY <4>1, <4>2
    <3> QED
      BY <3>2 DEF RolesRegistered
  <2> QED
    BY <2>1, <2>2
<1>2. UNCHANGED <<established, role, nextOut, numbered>>
  BY DEF Disable, Register, sessionVars
<1> QED
  BY <1>1, <1>2 DEF SessionInv, SessionBegun, NumbersFollow, NumberedOnce

\* A frame of the gateway takes the next number.
LEMMA OutboundKeeps == SessionInv /\ NextOutbound => SessionInv'
<1> SUFFICES ASSUME SessionInv, NextOutbound PROVE SessionInv'
  OBVIOUS
<1>1. RolesRegistered' /\ SessionBegun'
  BY DEF SessionInv, RolesRegistered, SessionBegun, NextOutbound
<1>2. numbered \in Seq(Nat) /\ nextOut = Len(numbered) + 1 /\ NumberedOnce
  BY DEF SessionInv, NumbersFollow
<1>3. numbered' = Append(numbered, nextOut) /\ nextOut' = nextOut + 1
  BY DEF NextOutbound
<1>4. Len(numbered) \in Nat /\ nextOut \in Nat
  BY <1>2
<1>5. numbered' \in Seq(Nat) /\ nextOut' = Len(numbered') + 1
  BY <1>2, <1>3, <1>4
<1>6. ASSUME NEW k \in DOMAIN numbered' PROVE numbered'[k] = k
  <2>1. k \in 1..(Len(numbered) + 1)
    BY <1>2, <1>3, <1>4
  <2>2. CASE k = Len(numbered) + 1
    BY <1>2, <1>3, <1>4, <2>2
  <2>3. CASE k \in 1..Len(numbered)
    BY <1>2, <1>3, <1>4, <2>3 DEF NumberedOnce
  <2> QED
    BY <1>4, <2>1, <2>2, <2>3
<1>7. NumberedOnce'
  BY <1>6 DEF NumberedOnce
<1> QED
  BY <1>1, <1>5, <1>7 DEF SessionInv, NumbersFollow

\* A logon is received only by a session that has numbered nothing.
LEMMA LogonKeeps == ASSUME SessionInv, NEW n, ReceiveLogon(n) PROVE SessionInv'
<1>1. sent[n].key \in DOMAIN credentials
  BY DEF ReceiveLogon, Authentic
<1>2. role' \in RolesUsed /\ established' /\ nextOut' = 1
  BY <1>1 DEF ReceiveLogon, SessionInv, RolesRegistered
<1>3. role' # Nobody
  BY <1>2, RolesAssumption
<1>4. numbered = <<>> /\ UNCHANGED <<numbered, credentials>>
  BY DEF ReceiveLogon, LoggedOn, SessionInv, SessionBegun
<1>5. NumbersFollow'
  BY <1>2, <1>4 DEF NumbersFollow, NumberedOnce
<1> QED
  BY <1>2, <1>3, <1>4, <1>5 DEF SessionInv, RolesRegistered, SessionBegun

\* Every step of the client, the session or the credentials keeps the invariant.
LEMMA SessionStep == SessionInv /\ [GatewayNext]_gatewayVars => SessionInv'
<1> SUFFICES ASSUME SessionInv, [GatewayNext]_gatewayVars PROVE SessionInv'
  OBVIOUS
<1>1. CASE \E key \in ApiKey : Disable(key) \/ \E r \in RolesUsed : Register(key, r)
  BY <1>1, CredentialsKeep
<1>2. CASE UNCHANGED <<credentials, established, nextOut, role, numbered>>
  BY <1>2 DEF SessionInv, RolesRegistered, SessionBegun, NumbersFollow, NumberedOnce
<1>3. ASSUME NEW message \in Message, Send(message)
      PROVE  UNCHANGED <<credentials, established, nextOut, role, numbered>>
  BY <1>3 DEF Send, sessionVars
<1>4. ASSUME NEW n, ReceiveLogon(n) PROVE SessionInv'
  BY <1>4, LogonKeeps
<1>5. ASSUME NEW n, ReceiveOther(n)
      PROVE  UNCHANGED <<credentials, established, nextOut, role, numbered>>
  BY <1>5 DEF ReceiveOther
<1>6. CASE NextOutbound
  BY <1>6, OutboundKeeps
<1>7. CASE UNCHANGED gatewayVars
  BY <1>2, <1>7 DEF gatewayVars, sessionVars
<1> QED
  BY <1>1, <1>2, <1>3, <1>4, <1>5, <1>6, <1>7 DEF GatewayNext

\* However often logons are delivered and credentials change, the gateway's own
\* frames are numbered without a gap and without a repetition (session.rs,
\* GatewaySession).
THEOREM NumbersNeverRestart == GatewaySpec => []NumberedOnce
<1>1. GatewayInit => SessionInv
  BY DEF GatewayInit, SessionInv, RolesRegistered, SessionBegun, NumbersFollow, NumberedOnce
<1>2. SessionInv => NumberedOnce
  BY DEF SessionInv, NumbersFollow
<1> QED
  BY <1>1, <1>2, SessionStep, PTL DEF GatewaySpec

-------------------------------------------------------------------------------
(***************************************************************************)
(* What a session hands on.  The frames before the next expected one are   *)
(* in the client's sequence for good, and nothing was handed on before the *)
(* logon.                                                                  *)
(***************************************************************************)
HandedOnInv ==
  /\ sent \in Seq(Message) /\ actions \in Seq(Nat)
  /\ logon \in Nat /\ nextIn \in Nat /\ logon < nextIn /\ nextIn <= Len(sent) + 1
  /\ role = Nobody => actions = <<>>
  /\ HandedOnExactly

\* A frame that the exchange is to see.
Passes(n) == sent[n].type \in HandedOn /\ Allows(role, Permission[sent[n].type])

LEMMA HandedOnLogon == ASSUME HandedOnInv, NEW n \in DOMAIN sent, ReceiveLogon(n) PROVE HandedOnInv'
<1>1. /\ actions = <<>> /\ logon' = n /\ nextIn' = n + 1 /\ UNCHANGED <<sent, actions>>
  BY DEF ReceiveLogon, LoggedOn, HandedOnInv
<1>2. n \in Nat /\ n <= Len(sent)
  BY DEF HandedOnInv
<1>3. logon' + 1..nextIn' - 1 = {}
  BY <1>1, <1>2
<1>4. HandedOnExactly'
  BY <1>1, <1>3 DEF HandedOnExactly, Range
<1> QED BY <1>1, <1>2, <1>4 DEF HandedOnInv

\* What the client sends later changes nothing of what was received.
LEMMA HandedOnSend == ASSUME HandedOnInv, NEW message \in Message, Send(message) PROVE HandedOnInv'
<1>1. sent' = Append(sent, message) /\ UNCHANGED <<actions, logon, nextIn, role>>
  BY DEF Send, sessionVars
<1>2. sent' \in Seq(Message) /\ Len(sent') = Len(sent) + 1 /\ \A n \in 1..Len(sent) : sent'[n] = sent[n]
  BY <1>1 DEF HandedOnInv
<1>3. \A n \in logon + 1..nextIn - 1 : sent'[n] = sent[n]
  <2>1. logon \in Nat /\ nextIn \in Nat /\ nextIn <= Len(sent) + 1 /\ Len(sent) \in Nat
    BY DEF HandedOnInv
  <2>2. \A n \in logon + 1..nextIn - 1 : n \in 1..Len(sent)
    BY ONLY <2>1
  <2> QED BY <1>2, <2>2
<1>4. {n \in logon + 1..nextIn - 1 : sent'[n].type \in HandedOn /\ Allows(role, Permission[sent'[n].type])}
      = {n \in logon + 1..nextIn - 1 : sent[n].type \in HandedOn /\ Allows(role, Permission[sent[n].type])}
  <2>1. \A n \in logon + 1..nextIn - 1 :
          /\ sent'[n].type \in HandedOn <=> sent[n].type \in HandedOn
          /\ Allows(role, Permission[sent'[n].type]) <=> Allows(role, Permission[sent[n].type])
    BY <1>3
  <2> QED BY ONLY <2>1
<1>5. HandedOnExactly'
  <2>1. HandedOnExactly' <=>
          /\ \A j, k \in DOMAIN actions : j < k => actions[j] < actions[k]
          /\ Range(actions) = {n \in logon + 1..nextIn - 1 :
                                 sent'[n].type \in HandedOn /\ Allows(role, Permission[sent'[n].type])}
    BY <1>1 DEF HandedOnExactly, Range
  <2> QED BY <1>4, <2>1 DEF HandedOnInv, HandedOnExactly
<1> QED BY <1>1, <1>2, <1>5 DEF HandedOnInv

\* The expected frame takes its number, and its place if its role allows it.
LEMMA HandedOnOther == ASSUME HandedOnInv, NEW n \in DOMAIN sent, ReceiveOther(n) PROVE HandedOnInv'
<1>1. /\ n = nextIn /\ nextIn' = n + 1 /\ role # Nobody /\ UNCHANGED <<sent, role, logon>>
      /\ actions' = IF sent[n].type \in HandedOn /\ Permitted(sent[n].type) THEN Append(actions, n) ELSE actions
  BY DEF ReceiveOther, Expected, TakeNumber, LoggedOn
<1>2. n \in Nat /\ n <= Len(sent) /\ logon \in Nat /\ logon < n /\ actions \in Seq(Nat)
  BY <1>1 DEF HandedOnInv
<1>3. sent[n].type \in HandedOn /\ Permitted(sent[n].type) <=> Passes(n)
  BY DEF Permitted, Passes, HandedOn, Permission
<1>4. /\ \A j, k \in DOMAIN actions : j < k => actions[j] < actions[k]
      /\ {actions[k] : k \in DOMAIN actions} = {m \in logon + 1..n - 1 : Passes(m)}
  BY <1>1 DEF HandedOnInv, HandedOnExactly, Passes, Range
<1>5. \A k \in DOMAIN actions : actions[k] < n
  <2>1. \A k \in DOMAIN actions : actions[k] \in {m \in logon + 1..n - 1 : Passes(m)}
    BY <1>4
  <2> QED BY <1>2, <2>1
<1>6. /\ \A j, k \in DOMAIN actions' : j < k => actions'[j] < actions'[k]
      /\ {actions'[k] : k \in DOMAIN actions'} = {m \in logon + 1..n : Passes(m)}
      /\ actions' \in Seq(Nat)
  <2>1. \A m \in logon + 1..n : m \in logon + 1..n - 1 \/ m = n
    BY <1>2
  <2>2. \A m \in logon + 1..n - 1 : m \in logon + 1..n
    BY <1>2
  <2>3. CASE Passes(n)
    <3>1. actions' = Append(actions, n)
      BY <1>1, <1>3, <2>3
    <3>2. /\ DOMAIN actions = 1..Len(actions) /\ DOMAIN actions' = 1..Len(actions) + 1 /\ Len(actions) \in Nat
          /\ \A k \in DOMAIN actions : actions'[k] = actions[k]
          /\ actions'[Len(actions) + 1] = n
          /\ actions' \in Seq(Nat)
      BY <1>2, <3>1
    <3>3. ASSUME NEW j \in DOMAIN actions', NEW k \in DOMAIN actions', j < k PROVE actions'[j] < actions'[k]
      <4>1. j \in DOMAIN actions /\ (k \in DOMAIN actions \/ k = Len(actions) + 1)
        BY <3>2, <3>3
      <4> QED BY <1>4, <1>5, <3>2, <3>3, <4>1
    <3>4. {actions'[k] : k \in DOMAIN actions'} = {actions[k] : k \in DOMAIN actions} \cup {n}
      <4>1. \A k \in DOMAIN actions' : k \in DOMAIN actions \/ k = Len(actions) + 1
        BY <3>2
      <4>2. \A k \in DOMAIN actions : k \in DOMAIN actions'
        BY <3>2
      <4>3. Len(actions) + 1 \in DOMAIN actions'
        BY <3>2
      <4> QED BY <3>2, <4>1, <4>2, <4>3
    <3>5. {m \in logon + 1..n : Passes(m)} = {m \in logon + 1..n - 1 : Passes(m)} \cup {n}
      <4>1. n \in logon + 1..n
        BY <1>2
      <4> QED BY <2>1, <2>2, <2>3, <4>1
    <3> QED BY <1>4, <3>2, <3>3, <3>4, <3>5
  <2>4. CASE ~Passes(n)
    <3>1. actions' = actions
      BY <1>1, <1>3, <2>4
    <3>2. {m \in logon + 1..n : Passes(m)} = {m \in logon + 1..n - 1 : Passes(m)}
      BY <2>1, <2>2, <2>4
    <3> QED BY <1>2, <1>4, <3>1, <3>2
  <2> QED BY <2>3, <2>4
<1>7. logon' + 1..nextIn' - 1 = logon + 1..n
  BY <1>1, <1>2
<1>8. HandedOnExactly'
  BY <1>1, <1>6, <1>7 DEF HandedOnExactly, Passes, Range
<1> QED BY <1>1, <1>2, <1>6, <1>8 DEF HandedOnInv

LEMMA HandedOnStep == HandedOnInv /\ [GatewayNext]_gatewayVars => HandedOnInv'
<1> SUFFICES ASSUME HandedOnInv, [GatewayNext]_gatewayVars PROVE HandedOnInv'
  OBVIOUS
<1>1. CASE UNCHANGED <<sent, actions, logon, nextIn, role>>
  BY <1>1 DEF HandedOnInv, HandedOnExactly, Range
<1>2. ASSUME NEW key \in ApiKey, Disable(key) \/ \E r \in RolesUsed : Register(key, r)
      PROVE  UNCHANGED <<sent, actions, logon, nextIn, role>>
  BY <1>2 DEF Disable, Register, sessionVars
<1>3. NextOutbound => UNCHANGED <<sent, actions, logon, nextIn, role>>
  BY DEF NextOutbound
<1>4. UNCHANGED gatewayVars => UNCHANGED <<sent, actions, logon, nextIn, role>>
  BY DEF gatewayVars, sessionVars
<1> QED
  BY <1>1, <1>2, <1>3, <1>4, HandedOnLogon, HandedOnSend, HandedOnOther DEF GatewayNext

\* Whatever is lost, repeated or overtaken, and however often credentials change,
\* the exchange is handed each frame that the role of the logon allows once and
\* in the order of the client's numbers (GatewaySession::receive).
THEOREM HandedOnOnceInOrder == GatewaySpec => []HandedOnExactly
<1>1. GatewayInit => HandedOnInv
  BY DEF GatewayInit, HandedOnInv, HandedOnExactly, Range
<1>2. HandedOnInv => HandedOnExactly
  BY DEF HandedOnInv
<1> QED BY <1>1, <1>2, HandedOnStep, PTL DEF GatewaySpec

-------------------------------------------------------------------------------
(***************************************************************************)
(* The registry.  The numbers of the instruments fit in 16 bits, so that   *)
(* none is saturated and no two pairs overlap.                             *)
(***************************************************************************)
RegistryTypeOK ==
  /\ DOMAIN instruments = InstrumentId
  /\ DOMAIN defined = Sovereign

RegistryInv == RegistryTypeOK /\ PairsWhole

\* Where the pair of a sovereign is.
LEMMA PairPlaces ==
  ASSUME NEW sovereign \in Sovereign
  PROVE  /\ SpotInstrumentId(sovereign) = 2 * sovereign
         /\ FutureInstrumentId(sovereign) = 2 * sovereign + 1
         /\ 2 * sovereign \in InstrumentId /\ 2 * sovereign + 1 \in InstrumentId
         /\ sovereign \in Nat
<1>1. sovereign \in Nat /\ 2 * sovereign + 1 <= U16Max /\ 2 * sovereign + 1 < 2 * MaxSovereigns
  BY InstrumentsAssumption DEF Sovereign
<1> QED
  BY <1>1, InstrumentsAssumption
  DEF SpotInstrumentId, FutureInstrumentId, Saturated, InstrumentId, MaxInstruments

\* A pair that is registered replaces the pair of its sovereign and no other.
LEMMA RegisterPairKeeps ==
  ASSUME RegistryInv, NEW sovereign \in Sovereign, NEW definition \in Definition,
         RegisterPair(sovereign, definition)
  PROVE  RegistryInv'
<1> DEFINE spot   == Spot(sovereign, definition)
           future == Future(sovereign, definition)
<1>1. /\ spot.id = 2 * sovereign /\ future.id = 2 * sovereign + 1
      /\ 2 * sovereign \in InstrumentId /\ 2 * sovereign + 1 \in InstrumentId
      /\ sovereign \in Nat
  BY PairPlaces DEF Spot, Future
<1>2. /\ instruments' = [[instruments EXCEPT ![spot.id] = spot] EXCEPT ![future.id] = future]
      /\ defined' = [defined EXCEPT ![sovereign] = definition]
  BY DEF RegisterPair, With
<1>3. DOMAIN instruments = InstrumentId /\ DOMAIN defined = Sovereign /\ PairsWhole
  BY DEF RegistryInv, RegistryTypeOK
<1>4. definition # Vacant
  BY InstrumentsAssumption
<1> HIDE DEF spot, future
<1>5. /\ instruments'[2 * sovereign] = spot /\ instruments'[2 * sovereign + 1] = future
      /\ \A id \in InstrumentId : id # 2 * sovereign /\ id # 2 * sovereign + 1
                                    => instruments'[id] = instruments[id]
      /\ DOMAIN instruments' = InstrumentId
  BY <1>1, <1>2, <1>3
<1>6. /\ defined'[sovereign] = definition
      /\ \A other \in Sovereign : other # sovereign => defined'[other] = defined[other]
      /\ DOMAIN defined' = Sovereign
  BY <1>2, <1>3
<1>7. ASSUME NEW other \in Sovereign, defined'[other] # Vacant
      PROVE  /\ instruments'[2 * other] = Spot(other, defined'[other])
             /\ instruments'[2 * other + 1] = Future(other, defined'[other])
  <2>1. CASE other = sovereign
    BY <1>5, <1>6, <2>1 DEF spot, future
  <2>2. CASE other # sovereign
    <3>1. /\ 2 * other \in InstrumentId /\ 2 * other + 1 \in InstrumentId /\ other \in Nat
      BY PairPlaces
    <3>2. instruments'[2 * other] = instruments[2 * other]
          /\ instruments'[2 * other + 1] = instruments[2 * other + 1]
      BY <1>1, <1>5, <2>2, <3>1
    <3>3. defined'[other] = defined[other]
      BY <1>6, <2>2
    <3> QED
      BY <1>3, <1>7, <3>2, <3>3 DEF PairsWhole
  <2> QED
    BY <2>1, <2>2
<1>8. ASSUME NEW id \in InstrumentId, instruments'[id] # Vacant
      PROVE  defined'[id \div 2] # Vacant
  <2>1. CASE id = 2 * sovereign \/ id = 2 * sovereign + 1
    <3>1. id \div 2 = sovereign
      BY <1>1, <2>1
    <3> QED
      BY <1>4, <1>6, <3>1
  <2>2. CASE ~(id = 2 * sovereign \/ id = 2 * sovereign + 1)
    <3>1. defined[id \div 2] # Vacant
      BY <1>3, <1>5, <1>8, <2>2 DEF PairsWhole
    <3>2. id \div 2 \in Sovereign /\ id \div 2 # sovereign
      BY <1>1, <2>2, InstrumentsAssumption DEF InstrumentId, MaxInstruments, Sovereign
    <3> QED
      BY <1>6, <3>1, <3>2
  <2> QED
    BY <2>1, <2>2
<1>9. PairsWhole'
  BY <1>7, <1>8 DEF PairsWhole
<1> QED
  BY <1>5, <1>6, <1>9 DEF RegistryInv, RegistryTypeOK

\* Every definition of a sovereign, every transition and every session keeps the
\* registry whole.
LEMMA RegistryStep == RegistryInv /\ [InstrumentsNext]_instrumentVars => RegistryInv'
<1> SUFFICES ASSUME RegistryInv, [InstrumentsNext]_instrumentVars PROVE RegistryInv'
  OBVIOUS
<1>1. CASE RegistryNext
  BY <1>1, RegisterPairKeeps DEF RegistryNext
<1>2. CASE LifecycleNext \/ UNCHANGED instrumentVars
  <2>1. UNCHANGED <<instruments, defined>>
    BY <1>2 DEF LifecycleNext, Transition, SetSession, instrumentVars
  <2> QED
    BY <2>1 DEF RegistryInv, RegistryTypeOK, PairsWhole
<1> QED
  BY <1>1, <1>2 DEF InstrumentsNext

\* However many sovereigns there are and however often they are defined, no pair
\* overwrites an instrument of another (register_pair).
THEOREM PairsNeverOverlap == InstrumentsSpec => []PairsWhole
<1>1. InstrumentsInit => RegistryInv
  BY DEF InstrumentsInit, RegistryInv, RegistryTypeOK, PairsWhole
<1>2. RegistryInv => PairsWhole
  BY DEF RegistryInv
<1> QED
  BY <1>1, <1>2, RegistryStep, PTL DEF InstrumentsSpec

-------------------------------------------------------------------------------
(***************************************************************************)
(* The trading status.                                                     *)
(***************************************************************************)
\* A status that is terminal has none but terminal statuses after it.
LEMMA TerminalStays ==
  ASSUME NEW from, NEW to, ValidTransition(from, to), from \in {"Closed", "Expired", "Settled"}
  PROVE  to \in {"Closed", "Expired", "Settled"} /\ to # "Open"
BY DEF ValidTransition

\* Trading in an instrument that has ended has ended for good (valid_transition,
\* is_terminal, accepts_orders).
THEOREM EndedForGood == InstrumentsSpec => NeverReopened
<1> DEFINE StatusesTotal == DOMAIN statuses = InstrumentId
           Ended == \A id \in InstrumentId : IsTerminal(id) => IsTerminal(id)' /\ ~AcceptsOrders(id)'
<1>1. InstrumentsInit => StatusesTotal
  BY DEF InstrumentsInit
<1>2. StatusesTotal /\ [InstrumentsNext]_instrumentVars => StatusesTotal' /\ [Ended]_instrumentVars
  <2> SUFFICES ASSUME StatusesTotal, [InstrumentsNext]_instrumentVars PROVE StatusesTotal' /\ Ended
    OBVIOUS
  <2>1. CASE \E id \in InstrumentId, to \in Status : Transition(id, to)
    <3>1. PICK id \in InstrumentId, to \in Status : Transition(id, to)
      BY <2>1
    <3>2. /\ ValidTransition(statuses[id], to)
          /\ statuses' = [statuses EXCEPT ![id] = to]
      BY <3>1 DEF Transition
    <3>3. ASSUME NEW other \in InstrumentId, IsTerminal(other)
          PROVE  IsTerminal(other)' /\ ~AcceptsOrders(other)'
      <4>1. CASE other = id
        BY <3>2, <3>3, <4>1, TerminalStays DEF IsTerminal, AcceptsOrders
      <4>2. CASE other # id
        BY <3>2, <3>3, <4>2 DEF IsTerminal, AcceptsOrders
      <4> QED
        BY <4>1, <4>2
    <3> QED
      BY <3>2, <3>3
  <2>2. CASE UNCHANGED statuses
    BY <2>2 DEF IsTerminal, AcceptsOrders
  <2> QED
    BY <2>1, <2>2
    DEF InstrumentsNext, RegistryNext, RegisterPair, LifecycleNext, SetSession, instrumentVars
<1> QED
  BY <1>1, <1>2, PTL DEF InstrumentsSpec, NeverReopened
-----------------------------------------------------------------------------
(***************************************************************************)
(* The metrics.  The least and the greatest latency are exact whenever no  *)
(* call is running, for every number of threads and for all durations.     *)
(***************************************************************************)
Value == 0..U64Max

MetricsTypeOK ==
  /\ minLatency \in Value /\ minHeld \subseteq Value
  /\ maxLatency \in Value /\ maxHeld \subseteq Value
  /\ at \in [Recorder -> {"idle", "min", "max"}]
  /\ nanos \in [Recorder -> Value]
  /\ seen \in [Recorder -> Value]
  /\ recorded \in Seq(Value)

IsRecorded(value) == \E k \in 1..Len(recorded) : recorded[k] = value

\* The least value only falls and the greatest only rises, so a stale load is
\* never beyond what is there now.
HeldBounds ==
  /\ \A value \in minHeld : minLatency <= value
  /\ \A value \in maxHeld : value <= maxLatency

\* A thread in a loop works on a duration that was recorded, and what it has
\* seen was once there.
ThreadSound ==
  \A r \in Recorder :
    /\ at[r] # "idle" => IsRecorded(nanos[r])
    /\ at[r] = "min" => seen[r] \in minHeld
    /\ at[r] = "max" => seen[r] \in maxHeld

\* What is not yet accounted for is in the hands of a thread that will.
Accounted ==
  \A k \in 1..Len(recorded) :
    /\ minLatency <= recorded[k] \/ \E r \in Recorder : at[r] = "min" /\ nanos[r] = recorded[k]
    /\ recorded[k] <= maxLatency \/ \E r \in Recorder : at[r] # "idle" /\ nanos[r] = recorded[k]

\* The extremes are those of the start or were recorded.
Attained ==
  /\ minLatency = U64Max \/ IsRecorded(minLatency)
  /\ maxLatency = 0 \/ IsRecorded(maxLatency)

MetricsInv == MetricsTypeOK /\ HeldBounds /\ ThreadSound /\ Accounted /\ Attained

\* The counters at the start, before any call.
LEMMA MetricsStart == MetricsInit => MetricsInv
<1> SUFFICES ASSUME MetricsInit PROVE MetricsInv
  OBVIOUS
<1> USE MetricsAssumption
<1>1. MetricsTypeOK
  <2>1. <<>> \in Seq(Value) /\ U64Max \in Value /\ 0 \in Value
    BY DEF Value
  <2>2. [r \in Recorder |-> 0] \in [Recorder -> Value]
    BY <2>1
  <2>3. [r \in Recorder |-> "idle"] \in [Recorder -> {"idle", "min", "max"}]
    OBVIOUS
  <2> QED
    BY <2>1, <2>2, <2>3, Zenon DEF MetricsInit, MetricsTypeOK
<1>2. HeldBounds /\ Attained
  BY DEF MetricsInit, HeldBounds, Attained
<1>3. ThreadSound
  BY DEF MetricsInit, ThreadSound
<1>4. Accounted
  BY DEF MetricsInit, Accounted
<1> QED
  BY <1>1, <1>2, <1>3, <1>4 DEF MetricsInv

\* A call records its duration, and its thread will account for it.
LEMMA CallKeeps ==
  ASSUME MetricsInv, NEW r \in Recorder, NEW duration \in Latency, Call(r, duration)
  PROVE  MetricsInv'
<1>1. MetricsTypeOK /\ HeldBounds /\ ThreadSound /\ Accounted /\ Attained
  BY DEF MetricsInv
<1>2. PICK value \in minHeld : seen' = [seen EXCEPT ![r] = value]
  BY DEF Call, Load
<1>3. duration \in Value /\ value \in Value
  BY <1>1, MetricsAssumption DEF Value, MetricsTypeOK
<1>4. /\ recorded' = Append(recorded, duration)
      /\ recorded \in Seq(Value) /\ Len(recorded) \in Nat
      /\ Len(recorded') = Len(recorded) + 1
      /\ recorded'[Len(recorded) + 1] = duration
      /\ \A k \in 1..Len(recorded) : recorded'[k] = recorded[k]
  BY <1>1, <1>3 DEF Call, MetricsTypeOK
<1>5. /\ nanos' = [nanos EXCEPT ![r] = duration]
      /\ at' = [at EXCEPT ![r] = "min"]
      /\ UNCHANGED <<minLatency, minHeld, maxLatency, maxHeld>>
  BY DEF Call, Goto, minVars, maxVars
<1>6. /\ at \in [Recorder -> {"idle", "min", "max"}] /\ at[r] = "idle"
      /\ nanos \in [Recorder -> Value] /\ seen \in [Recorder -> Value]
  BY <1>1 DEF MetricsTypeOK, Call
<1>7. MetricsTypeOK'
  BY <1>1, <1>2, <1>3, <1>4, <1>5 DEF MetricsTypeOK
<1>8. HeldBounds'
  BY <1>1, <1>5 DEF HeldBounds
<1>9. ASSUME NEW v, IsRecorded(v) PROVE IsRecorded(v)'
  BY <1>4, <1>9 DEF IsRecorded
<1>10. IsRecorded(duration)'
  BY <1>4 DEF IsRecorded
<1>11. ThreadSound'
  <2> SUFFICES ASSUME NEW q \in Recorder
               PROVE  /\ at'[q] # "idle" => IsRecorded(nanos[q])'
                      /\ at'[q] = "min" => seen'[q] \in minHeld'
                      /\ at'[q] = "max" => seen'[q] \in maxHeld'
    BY DEF ThreadSound
  <2>1. CASE q = r
    BY <1>2, <1>5, <1>6, <1>10, <2>1 DEF IsRecorded
  <2>2. CASE q # r
    <3>1. at'[q] = at[q] /\ nanos'[q] = nanos[q] /\ seen'[q] = seen[q]
      BY <1>2, <1>5, <1>6, <2>2
    <3>2. at[q] # "idle" => IsRecorded(nanos[q])
      BY <1>1 DEF ThreadSound
    <3>3. at[q] # "idle" => IsRecorded(nanos[q])'
      BY <1>4, <3>1, <3>2 DEF IsRecorded
    <3> QED
      BY <1>1, <1>5, <3>1, <3>3 DEF ThreadSound
  <2> QED
    BY <2>1, <2>2
<1>12. Accounted'
  <2> SUFFICES ASSUME NEW k \in 1..Len(recorded')
               PROVE  /\ minLatency' <= recorded'[k] \/ \E q \in Recorder : at'[q] = "min" /\ nanos'[q] = recorded'[k]
                      /\ recorded'[k] <= maxLatency' \/ \E q \in Recorder : at'[q] # "idle" /\ nanos'[q] = recorded'[k]
    BY DEF Accounted
  <2>1. \A q \in Recorder : at[q] # "idle" => at'[q] = at[q] /\ nanos'[q] = nanos[q]
    BY <1>5, <1>6
  <2>2. CASE k = Len(recorded) + 1
    BY <1>4, <1>5, <1>6, <2>2
  <2>3. CASE k # Len(recorded) + 1
    <3>1. k \in 1..Len(recorded) /\ recorded'[k] = recorded[k]
      BY <1>4, <2>3
    <3> QED
      BY <1>1, <1>5, <2>1, <3>1 DEF Accounted
  <2> QED
    BY <2>2, <2>3
<1>13. Attained'
  BY <1>1, <1>5, <1>9 DEF Attained, IsRecorded
<1> QED
  BY <1>7, <1>8, <1>11, <1>12, <1>13 DEF MetricsInv

\* What the six other steps have in common: a thread r that is in a loop moves to
\* where it has value in hand, and an extreme only improves, to r's duration.  It
\* leaves a loop only when the extreme accounts for its duration.
Moves(r, turn, value) ==
  /\ at[r] # "idle" /\ UNCHANGED <<nanos, recorded>>
  /\ at' = [at EXCEPT ![r] = turn] /\ seen' = [seen EXCEPT ![r] = value]
  /\ minLatency' \in {minLatency, nanos[r]} /\ minLatency' <= minLatency
  /\ minHeld' \in SUBSET Value /\ minHeld \subseteq minHeld' /\ \A v \in minHeld' : minLatency' <= v
  /\ maxLatency' \in {maxLatency, nanos[r]} /\ maxLatency <= maxLatency'
  /\ maxHeld' \in SUBSET Value /\ maxHeld \subseteq maxHeld' /\ \A v \in maxHeld' : v <= maxLatency'
  /\ turn = "min" => value \in minHeld'
  /\ turn = "max" => value \in maxHeld'
  /\ at[r] = "min" /\ turn # "min" => minLatency' <= nanos[r]
  /\ turn = "idle" => nanos[r] <= maxLatency'

\* Such a step keeps the invariant.
LEMMA MoveKeeps ==
  ASSUME MetricsInv, NEW r \in Recorder, NEW turn \in {"idle", "min", "max"}, NEW value \in Value,
         Moves(r, turn, value)
  PROVE  MetricsInv'
<1> USE DEF Moves
<1>1. MetricsTypeOK /\ ThreadSound /\ Accounted /\ Attained
  BY DEF MetricsInv
<1>2. /\ at \in [Recorder -> {"idle", "min", "max"}] /\ seen \in [Recorder -> Value]
      /\ nanos \in [Recorder -> Value] /\ recorded \in Seq(Value)
      /\ minLatency \in Value /\ maxLatency \in Value /\ nanos[r] \in Value
  BY <1>1 DEF MetricsTypeOK
<1>3. minLatency' \in Value /\ maxLatency' \in Value
  BY <1>2
<1>4. at' \in [Recorder -> {"idle", "min", "max"}] /\ seen' \in [Recorder -> Value]
  BY <1>2
<1>5. MetricsTypeOK'
  BY <1>2, <1>3, <1>4 DEF MetricsTypeOK
<1>6. HeldBounds'
  BY DEF HeldBounds
<1>7. IsRecorded(nanos[r])
  BY <1>1 DEF ThreadSound
<1>8. ThreadSound'
  <2> SUFFICES ASSUME NEW q \in Recorder
               PROVE  /\ at'[q] # "idle" => IsRecorded(nanos[q])'
                      /\ at'[q] = "min" => seen'[q] \in minHeld'
                      /\ at'[q] = "max" => seen'[q] \in maxHeld'
    BY DEF ThreadSound
  <2>1. CASE q = r
    BY <1>2, <1>7, <2>1 DEF IsRecorded
  <2>2. CASE q # r
    BY <1>1, <1>2, <2>2 DEF ThreadSound, IsRecorded
  <2> QED
    BY <2>1, <2>2
<1>9. \A q \in Recorder : q # r => at'[q] = at[q] /\ nanos'[q] = nanos[q]
  BY <1>2
<1>10. at'[r] = turn /\ nanos'[r] = nanos[r]
  BY <1>2
<1>11. Accounted'
  <2> SUFFICES ASSUME NEW k \in 1..Len(recorded)
               PROVE  /\ minLatency' <= recorded[k] \/ \E q \in Recorder : at'[q] = "min" /\ nanos'[q] = recorded[k]
                      /\ recorded[k] <= maxLatency' \/ \E q \in Recorder : at'[q] # "idle" /\ nanos'[q] = recorded[k]
    BY DEF Accounted
  <2>0. recorded[k] \in Value
    BY <1>2
  <2>1. recorded[k] \in Nat /\ minLatency \in Nat /\ maxLatency \in Nat /\ minLatency' \in Nat /\ maxLatency' \in Nat
    BY <1>2, <1>3, <2>0 DEF Value
  <2>2. minLatency' <= recorded[k] \/ \E q \in Recorder : at'[q] = "min" /\ nanos'[q] = recorded[k]
    <3>1. CASE minLatency <= recorded[k]
      BY <2>1, <3>1
    <3>2. ASSUME NEW q \in Recorder, at[q] = "min", nanos[q] = recorded[k]
          PROVE  minLatency' <= recorded[k] \/ \E p \in Recorder : at'[p] = "min" /\ nanos'[p] = recorded[k]
      BY <1>9, <1>10, <3>2
    <3> QED
      BY <1>1, <3>1, <3>2 DEF Accounted
  <2>3. recorded[k] <= maxLatency' \/ \E q \in Recorder : at'[q] # "idle" /\ nanos'[q] = recorded[k]
    <3>1. CASE recorded[k] <= maxLatency
      BY <2>1, <3>1
    <3>2. ASSUME NEW q \in Recorder, at[q] # "idle", nanos[q] = recorded[k]
          PROVE  recorded[k] <= maxLatency' \/ \E p \in Recorder : at'[p] # "idle" /\ nanos'[p] = recorded[k]
      BY <1>9, <1>10, <3>2
    <3> QED
      BY <1>1, <3>1, <3>2 DEF Accounted
  <2> QED
    BY <2>2, <2>3
<1>12. Attained'
  BY <1>1, <1>7 DEF Attained, IsRecorded
<1> QED
  BY <1>5, <1>6, <1>8, <1>11, <1>12 DEF MetricsInv

\* Every step of one thread keeps the invariant.
LEMMA ThreadKeeps ==
  ASSUME MetricsInv, NEW r \in Recorder,
         LeaveMin(r) \/ ExchangeMin(r) \/ FailMin(r) \/ LeaveMax(r) \/ ExchangeMax(r) \/ FailMax(r)
  PROVE  MetricsInv'
<1>1. MetricsTypeOK /\ HeldBounds /\ ThreadSound
  BY DEF MetricsInv
<1>2. /\ at \in [Recorder -> {"idle", "min", "max"}] /\ seen \in [Recorder -> Value]
      /\ minLatency \in Value /\ maxLatency \in Value
      /\ minHeld \subseteq Value /\ maxHeld \subseteq Value
  BY <1>1 DEF MetricsTypeOK
<1>3. nanos[r] \in Nat /\ nanos[r] \in Value /\ seen[r] \in Nat /\ seen[r] \in Value
  BY <1>1 DEF MetricsTypeOK, Value
<1>4. /\ minLatency \in Nat /\ maxLatency \in Nat
      /\ \A v \in minHeld : v \in Nat /\ minLatency <= v
      /\ \A v \in maxHeld : v \in Nat /\ v <= maxLatency
  BY <1>1, <1>2 DEF HeldBounds, Value
<1>5. /\ at[r] = "min" => minLatency <= seen[r]
      /\ at[r] = "max" => seen[r] <= maxLatency
  BY <1>1, <1>4 DEF ThreadSound
<1>6. CASE LeaveMin(r)
  <2>1. PICK v \in maxHeld : seen' = [seen EXCEPT ![r] = v]
    BY <1>6 DEF LeaveMin, Load
  <2>2. /\ at[r] = "min" /\ nanos[r] >= seen[r] /\ at' = [at EXCEPT ![r] = "max"]
        /\ UNCHANGED <<minLatency, minHeld, maxLatency, maxHeld, nanos, recorded>>
    BY <1>6 DEF LeaveMin, Goto, minVars, maxVars
  <2>3. v \in Value /\ minLatency <= nanos[r]
    BY <1>2, <1>3, <1>4, <1>5, <2>1, <2>2
  <2>4. Moves(r, "max", v)
    BY <1>2, <1>4, <2>1, <2>2, <2>3 DEF Moves
  <2> QED
    BY <1>2, <1>4, <2>1, <2>2, <2>3, <2>4, MoveKeeps
<1>7. CASE ExchangeMin(r)
  <2>1. PICK v \in maxHeld : seen' = [seen EXCEPT ![r] = v]
    BY <1>7 DEF ExchangeMin, Load
  <2>2. /\ at[r] = "min" /\ nanos[r] < seen[r] /\ minLatency = seen[r]
        /\ at' = [at EXCEPT ![r] = "max"]
        /\ minLatency' = nanos[r] /\ minHeld' = minHeld \cup {nanos[r]}
        /\ UNCHANGED <<maxLatency, maxHeld, nanos, recorded>>
    BY <1>7 DEF ExchangeMin, MinExchangeable, Goto, maxVars
  <2>3. /\ v \in Value /\ minLatency' <= minLatency
        /\ minHeld' \in SUBSET Value /\ \A u \in minHeld' : minLatency' <= u
    <3>1. v \in Value /\ minHeld' \in SUBSET Value
      BY <1>2, <1>3, <2>1, <2>2, Zenon
    <3>2. minLatency' <= minLatency
      BY <1>3, <1>4, <2>2
    <3>3. ASSUME NEW u \in minHeld' PROVE minLatency' <= u
      <4>1. u \in minHeld \/ u = nanos[r]
        BY <2>2
      <4> QED
        BY <1>3, <1>4, <2>2, <4>1
    <3> QED
      BY <3>1, <3>2, <3>3
  <2>4. /\ maxLatency' = maxLatency /\ maxHeld' = maxHeld /\ maxHeld \in SUBSET Value
        /\ maxLatency <= maxLatency /\ \A u \in maxHeld : u <= maxLatency
    BY <1>2, <1>4, <2>2
  <2>5. at[r] # "idle" /\ minHeld \subseteq minHeld' /\ minLatency' <= nanos[r]
    BY <1>3, <2>2
  <2>6. Moves(r, "max", v)
    BY <2>1, <2>2, <2>3, <2>4, <2>5 DEF Moves
  <2> QED
    BY <2>3, <2>6, MoveKeeps
<1>8. CASE FailMin(r)
  <2>1. PICK v \in minHeld : seen' = [seen EXCEPT ![r] = v]
    BY <1>8 DEF FailMin, Load
  <2>2. /\ at[r] = "min" /\ at' = [at EXCEPT ![r] = "min"]
        /\ UNCHANGED <<minLatency, minHeld, maxLatency, maxHeld, nanos, recorded>>
    BY <1>2, <1>8 DEF FailMin, minVars, maxVars
  <2>3. v \in Value
    BY <1>2, <2>1
  <2>4. Moves(r, "min", v)
    BY <1>2, <1>4, <2>1, <2>2, <2>3 DEF Moves
  <2> QED
    BY <1>2, <1>4, <2>1, <2>2, <2>3, <2>4, MoveKeeps
<1>9. CASE LeaveMax(r)
  <2>1. /\ at[r] = "max" /\ nanos[r] <= seen[r] /\ at' = [at EXCEPT ![r] = "idle"]
        /\ UNCHANGED <<minLatency, minHeld, maxLatency, maxHeld, nanos, recorded>>
        /\ seen' = [seen EXCEPT ![r] = seen[r]]
    BY <1>2, <1>9 DEF LeaveMax, Goto, minVars, maxVars
  <2>2. nanos[r] <= maxLatency
    BY <1>3, <1>4, <1>5, <2>1
  <2>3. Moves(r, "idle", seen[r])
    BY <1>2, <1>3, <1>4, <2>1, <2>2 DEF Moves
  <2> QED
    BY <1>2, <1>3, <1>4, <2>1, <2>2, <2>3, MoveKeeps
<1>10. CASE ExchangeMax(r)
  <2>1. /\ at[r] = "max" /\ nanos[r] > seen[r] /\ maxLatency = seen[r]
        /\ at' = [at EXCEPT ![r] = "idle"]
        /\ maxLatency' = nanos[r] /\ maxHeld' = maxHeld \cup {nanos[r]}
        /\ UNCHANGED <<minLatency, minHeld, nanos, recorded>>
        /\ seen' = [seen EXCEPT ![r] = seen[r]]
    BY <1>2, <1>10 DEF ExchangeMax, MaxExchangeable, Goto, minVars
  <2>2. /\ maxLatency' >= maxLatency /\ nanos[r] <= maxLatency'
        /\ maxHeld' \in SUBSET Value /\ \A u \in maxHeld' : u <= maxLatency'
    <3>1. maxHeld' \in SUBSET Value
      BY <1>2, <1>3, <2>1, Zenon
    <3>2. maxLatency' >= maxLatency /\ nanos[r] <= maxLatency'
      BY <1>3, <1>4, <2>1
    <3>3. ASSUME NEW u \in maxHeld' PROVE u <= maxLatency'
      <4>1. u \in maxHeld \/ u = nanos[r]
        BY <2>1
      <4> QED
        BY <1>3, <1>4, <2>1, <4>1
    <3> QED
      BY <3>1, <3>2, <3>3
  <2>3. /\ minLatency' = minLatency /\ minHeld' = minHeld /\ minHeld \in SUBSET Value
        /\ minLatency <= minLatency /\ \A u \in minHeld : minLatency <= u
    BY <1>2, <1>4, <2>1
  <2>4. at[r] # "idle" /\ at[r] # "min" /\ maxHeld \subseteq maxHeld' /\ maxLatency <= maxLatency'
    BY <1>4, <2>1, <2>2
  <2>5. Moves(r, "idle", seen[r])
    BY <2>1, <2>2, <2>3, <2>4 DEF Moves
  <2> QED
    BY <1>3, <2>5, MoveKeeps
<1>11. CASE FailMax(r)
  <2>1. PICK v \in maxHeld : seen' = [seen EXCEPT ![r] = v]
    BY <1>11 DEF FailMax, Load
  <2>2. /\ at[r] = "max" /\ at' = [at EXCEPT ![r] = "max"]
        /\ UNCHANGED <<minLatency, minHeld, maxLatency, maxHeld, nanos, recorded>>
    BY <1>2, <1>11 DEF FailMax, minVars, maxVars
  <2>3. v \in Value
    BY <1>2, <2>1
  <2>4. Moves(r, "max", v)
    BY <1>2, <1>4, <2>1, <2>2, <2>3 DEF Moves
  <2> QED
    BY <1>2, <1>4, <2>1, <2>2, <2>3, <2>4, MoveKeeps
<1> QED
  BY <1>6, <1>7, <1>8, <1>9, <1>10, <1>11

\* With no call running nothing is left to account for.
LEMMA MetricsInvImplies == MetricsInv => ExtremesExact
<1> SUFFICES ASSUME MetricsInv, Idle, recorded # <<>>
             PROVE  /\ \A k \in 1..Len(recorded) : recorded[k] \in minLatency..maxLatency
                    /\ IsRecorded(minLatency) /\ IsRecorded(maxLatency)
  BY DEF ExtremesExact, IsRecorded, MetricsInv, MetricsTypeOK
<1>1. MetricsTypeOK /\ Accounted /\ Attained
  BY DEF MetricsInv
<1>2. /\ recorded \in Seq(Value) /\ Len(recorded) \in Nat /\ Len(recorded) # 0
      /\ minLatency \in Value /\ maxLatency \in Value
  BY <1>1 DEF MetricsTypeOK
<1>3. \A k \in 1..Len(recorded) :
        recorded[k] \in Value /\ minLatency <= recorded[k] /\ recorded[k] <= maxLatency
  BY <1>1, <1>2 DEF Accounted, Idle
<1>4. recorded[1] \in Value /\ minLatency <= recorded[1] /\ recorded[1] <= maxLatency /\ 1 \in 1..Len(recorded)
  BY <1>2, <1>3
<1>5. minLatency = U64Max => recorded[1] = minLatency
  BY <1>2, <1>4, MetricsAssumption DEF Value
<1>6. maxLatency = 0 => recorded[1] = maxLatency
  BY <1>2, <1>4, MetricsAssumption DEF Value
<1>7. IsRecorded(minLatency) /\ IsRecorded(maxLatency)
  BY <1>1, <1>4, <1>5, <1>6 DEF Attained, IsRecorded
<1> QED
  BY <1>2, <1>3, <1>7 DEF Value

\* No update of an extreme is ever lost, with any number of threads, whatever the
\* relaxed loads return and whichever exchanges fail (record_order_latency).
THEOREM ExtremesNeverLost == MetricsSpec => []ExtremesExact
<1>1. MetricsInv /\ [MetricsNext]_metricsVars => MetricsInv'
  <2> SUFFICES ASSUME MetricsInv, [MetricsNext]_metricsVars PROVE MetricsInv'
    OBVIOUS
  <2>1. ASSUME NEW r \in Recorder, NEW duration \in Latency, Call(r, duration) PROVE MetricsInv'
    BY <2>1, CallKeeps
  <2>2. CASE UNCHANGED metricsVars
    BY <2>2 DEF metricsVars, minVars, maxVars, MetricsInv, MetricsTypeOK, HeldBounds, ThreadSound,
       Accounted, Attained, IsRecorded
  <2> QED
    BY <2>1, <2>2, ThreadKeeps DEF MetricsNext
<1> QED
  BY MetricsStart, <1>1, MetricsInvImplies, PTL DEF MetricsSpec

-------------------------------------------------------------------------------
(***************************************************************************)
(* Market data.  The invariant says what every queued event tells of the   *)
(* books, that the queue is a run of events without a gap from what the    *)
(* consumer has seen to the latest, and that a book a consumer believes in *)
(* is the one it has been told of.                                         *)
(***************************************************************************)
FeedEvent == [type : {"Delta"}, symbol : Symbol, number : Nat]
           \cup [type : {"Snapshot"}, symbol : Symbol, number : Nat, book : SUBSET Nat]

FeedTypeOK ==
  /\ nextNumber \in Nat \ {0} /\ expected \in Nat \ {0}
  /\ feed \in Seq(FeedEvent)
  /\ subscribed \in BOOLEAN
  /\ depth \in [Symbol -> SUBSET Nat]
  /\ copy \in [Symbol -> SUBSET Nat]
  /\ current \subseteq Symbol

\* Every number of a book is published, and by the delta of one book.
DepthSound ==
  /\ \A s \in Symbol : \A k \in depth[s] : 1 <= k /\ k < nextNumber
  /\ \A s, t \in Symbol : s # t => depth[s] \cap depth[t] = {}

\* What an event says of the books: a delta is in its book, a snapshot is its
\* book as far as its number, which belongs to no delta.
EventSound(event) ==
  /\ event.number < nextNumber
  /\ event.type = "Delta" => event.number \in depth[event.symbol]
  /\ event.type = "Snapshot" =>
       /\ \A s \in Symbol : event.number \notin depth[s]
       /\ event.book = {k \in depth[event.symbol] : k < event.number}

QueueSound == \A i \in 1..Len(feed) : EventSound(feed[i])

\* The queue ends with the latest event; with nothing to poll, a consumer that
\* believes to have a book expects the next one.
UpToDate ==
  /\ feed # <<>> => feed[Len(feed)].number = nextNumber - 1
  /\ feed = <<>> /\ current # {} => expected = nextNumber

Unsubscribed ==
  ~subscribed => feed = <<>> /\ expected = 1 /\ current = {} /\ copy = [s \in Symbol |-> {}]

FeedInv ==
  FeedTypeOK /\ DepthSound /\ QueueSound /\ UpToDate /\ Unsubscribed
    /\ expected <= nextNumber /\ CopyExact

\* A queue with the oldest event taken off holds no other events.
LEMMA TailOfFeed ==
  ASSUME FeedTypeOK, feed # <<>>
  PROVE  /\ Tail(feed) \in Seq(FeedEvent) /\ Head(feed) \in FeedEvent /\ Head(feed) = feed[1]
         /\ Len(feed) \in Nat \ {0} /\ Len(Tail(feed)) = Len(feed) - 1
         /\ \A i \in 1..Len(Tail(feed)) : Tail(feed)[i] = feed[i + 1]
         /\ Tail(feed) # <<>> => Tail(feed)[Len(Tail(feed))] = feed[Len(feed)]
<1>1. feed \in Seq(FeedEvent) /\ Len(feed) \in Nat /\ Len(feed) # 0
  BY DEF FeedTypeOK
<1> QED
  BY <1>1

\* What publish_delta and publish_snapshot do to the queue: the new event is the
\* last one, and the others were there before.
LEMMA FeedGrows ==
  ASSUME FeedTypeOK, NEW event \in FeedEvent, Feed(event)
  PROVE  /\ feed' \in Seq(FeedEvent)
         /\ \A i \in 1..Len(feed') :
              feed'[i] = event \/ \E j \in 1..Len(feed) : feed'[i] = feed[j]
         /\ subscribed => feed' # <<>> /\ feed'[Len(feed')] = event
         /\ ~subscribed => feed' = feed
<1>1. feed \in Seq(FeedEvent) /\ Len(feed) \in Nat
  BY DEF FeedTypeOK
<1>2. CASE ~subscribed
  BY <1>1, <1>2 DEF Feed
<1>3. CASE subscribed
  <2> DEFINE rest == Room(feed)
  <2>1. /\ rest \in Seq(FeedEvent)
        /\ \A i \in 1..Len(rest) : \E j \in 1..Len(feed) : rest[i] = feed[j]
    <3>1. CASE Len(feed) = QueueSize
      <4>1. feed # <<>>
        BY <1>1, <3>1, MarketDataAssumption
      <4>2. \A i \in 1..Len(Tail(feed)) : i + 1 \in 1..Len(feed) /\ Tail(feed)[i] = feed[i + 1]
        BY <1>1, <4>1, TailOfFeed
      <4> QED
        BY <3>1, <4>1, <4>2, TailOfFeed DEF Room
    <3>2. CASE Len(feed) # QueueSize
      BY <1>1, <3>2 DEF Room
    <3> QED
      BY <3>1, <3>2
  <2>2. feed' = Append(rest, event)
    BY <1>3 DEF Feed
  <2> HIDE DEF rest
  <2>3. feed' \in Seq(FeedEvent) /\ Len(feed') = Len(rest) + 1 /\ Len(rest) \in Nat
    BY <2>1, <2>2
  <2>4. /\ feed'[Len(rest) + 1] = event
        /\ \A i \in 1..Len(rest) : feed'[i] = rest[i]
    BY <2>1, <2>2
  <2>5. feed' # <<>>
    BY <2>3
  <2>6. ASSUME NEW i \in 1..Len(feed')
        PROVE  feed'[i] = event \/ \E j \in 1..Len(feed) : feed'[i] = feed[j]
    <3>1. CASE i = Len(rest) + 1
      BY <2>4, <3>1
    <3>2. CASE i # Len(rest) + 1
      <4>1. i \in 1..Len(rest)
        BY <2>3, <3>2
      <4> QED
        BY <2>1, <2>4, <4>1
    <3> QED
      BY <3>1, <3>2
  <2> QED
    BY <1>3, <2>3, <2>4, <2>5, <2>6
<1> QED
  BY <1>2, <1>3

\* So the queue stays sound if the new event and the old ones are sound afterwards.
LEMMA GrownFeedSound ==
  ASSUME FeedTypeOK, QueueSound, NEW event \in FeedEvent, Feed(event), EventSound(event)',
         \A old \in FeedEvent : EventSound(old) => EventSound(old)'
  PROVE  QueueSound'
<1>1. \A j \in 1..Len(feed) : feed[j] \in FeedEvent /\ EventSound(feed[j])
  BY DEF FeedTypeOK, QueueSound
<1>2. ASSUME NEW i \in 1..Len(feed') PROVE EventSound(feed[i])'
  <2>1. CASE feed'[i] = event
    BY <2>1 DEF EventSound
  <2>2. ASSUME NEW j \in 1..Len(feed), feed'[i] = feed[j] PROVE EventSound(feed[i])'
    <3>1. PICK old \in FeedEvent : old = feed[j] /\ EventSound(old)
      BY <1>1
    <3>2. EventSound(old)'
      BY <3>1
    <3> QED
      BY <2>2, <3>1, <3>2 DEF EventSound
  <2> QED
    BY <2>1, <2>2, FeedGrows
<1> QED
  BY <1>2 DEF QueueSound

\* The publisher and the consumer start with nothing.
LEMMA FeedStart == FeedInit => FeedInv
<1> SUFFICES ASSUME FeedInit PROVE FeedInv
  OBVIOUS
<1>1. FeedTypeOK
  <2>1. <<>> \in Seq(FeedEvent) /\ 1 \in Nat \ {0}
    OBVIOUS
  <2>2. [s \in Symbol |-> {}] \in [Symbol -> SUBSET Nat]
    OBVIOUS
  <2> QED
    BY <2>1, <2>2, Zenon DEF FeedInit, FeedTypeOK
<1>2. DepthSound /\ UpToDate /\ Unsubscribed /\ CopyExact /\ expected <= nextNumber
  BY DEF FeedInit, DepthSound, UpToDate, Unsubscribed, CopyExact
<1>3. QueueSound
  BY DEF FeedInit, QueueSound
<1> QED
  BY <1>1, <1>2, <1>3 DEF FeedInv

\* A late subscriber believes to have no book; an early one has all, empty.
LEMMA SubscribeKeeps == FeedInv /\ Subscribe => FeedInv'
<1> SUFFICES ASSUME FeedInv, Subscribe PROVE FeedInv'
  OBVIOUS
<1>1. FeedTypeOK /\ feed = <<>> /\ expected = 1 /\ copy = [s \in Symbol |-> {}]
  BY DEF FeedInv, Unsubscribed, Subscribe
<1>2. nextNumber = 1 => \A s \in Symbol : depth[s] = {}
  <2> SUFFICES ASSUME nextNumber = 1, NEW s \in Symbol, NEW k \in depth[s] PROVE FALSE
    OBVIOUS
  <2>1. depth[s] \subseteq Nat
    BY <1>1 DEF FeedTypeOK
  <2> QED
    BY <2>1 DEF FeedInv, DepthSound
<1> QED
  BY <1>1, <1>2 DEF FeedInv, FeedTypeOK, DepthSound, QueueSound, EventSound, UpToDate, Unsubscribed,
     CopyExact, Subscribe, publisherVars

\* A delta gets a number that no book has and that is larger than all before.
LEMMA PublishDeltaKeeps ==
  ASSUME FeedInv, NEW s \in Symbol, PublishDelta(s)
  PROVE  FeedInv'
<1> USE MarketDataAssumption
<1>1. /\ FeedTypeOK /\ DepthSound /\ QueueSound /\ UpToDate /\ Unsubscribed
      /\ expected <= nextNumber /\ CopyExact
  BY DEF FeedInv
<1>2. /\ nextNumber' = nextNumber + 1 /\ UNCHANGED <<subscribed, expected, copy, current>>
      /\ depth' = [depth EXCEPT ![s] = @ \cup {nextNumber}]
      /\ Feed([type |-> "Delta", symbol |-> s, number |-> nextNumber])
  BY DEF PublishDelta, consumerVars
<1>3. PICK event \in FeedEvent : /\ event.number = nextNumber /\ event.type = "Delta"
                             /\ event.symbol = s /\ Feed(event)
  BY <1>1, <1>2 DEF FeedTypeOK, FeedEvent
<1>4. /\ nextNumber \in Nat \ {0} /\ expected \in Nat \ {0}
      /\ depth \in [Symbol -> SUBSET Nat] /\ depth' \in [Symbol -> SUBSET Nat]
      /\ \A t \in Symbol : depth'[t] = IF t = s THEN depth[t] \cup {nextNumber} ELSE depth[t]
  BY <1>1, <1>2 DEF FeedTypeOK
<1>5. FeedTypeOK'
  BY <1>1, <1>2, <1>3, <1>4, FeedGrows DEF FeedTypeOK
<1>6. \A t \in Symbol : \A k \in depth[t] : k \in Nat /\ 1 <= k /\ k < nextNumber
  BY <1>1, <1>4 DEF DepthSound
<1>7. DepthSound'
  BY <1>1, <1>2, <1>4, <1>6 DEF DepthSound
<1>8. QueueSound'
  <2>1. EventSound(event)'
    BY <1>2, <1>3, <1>4 DEF EventSound
  <2>2. ASSUME NEW old \in FeedEvent, EventSound(old) PROVE EventSound(old)'
    <3>1. old.number \in Nat /\ old.symbol \in Symbol
      BY DEF FeedEvent
    <3>2. \A t \in Symbol : old.number \notin depth[t] => old.number \notin depth'[t]
      BY <1>4, <2>2, <3>1 DEF EventSound
    <3>3. {k \in depth'[old.symbol] : k < old.number} = {k \in depth[old.symbol] : k < old.number}
      BY <1>4, <2>2, <3>1 DEF EventSound
    <3>4. /\ old.number < nextNumber'
          /\ old.type = "Delta" => old.number \in depth'[old.symbol]
      BY <1>2, <1>4, <2>2, <3>1 DEF EventSound
    <3> QED
      BY <2>2, <3>2, <3>3, <3>4 DEF EventSound
  <2> QED
    BY <1>1, <1>2, <1>3, <2>1, <2>2, GrownFeedSound
<1>9. UpToDate'
  <2>1. CASE subscribed
    BY <1>1, <1>2, <1>3, <1>4, <2>1, FeedGrows DEF UpToDate
  <2>2. CASE ~subscribed
    BY <1>1, <1>2, <1>3, <2>2, FeedGrows DEF UpToDate, Unsubscribed
  <2> QED
    BY <2>1, <2>2
<1>10. Unsubscribed'
  BY <1>1, <1>2, <1>3, FeedGrows DEF Unsubscribed
<1>11. CopyExact'
  BY <1>1, <1>2, <1>4 DEF CopyExact, FeedTypeOK
<1> QED
  BY <1>1, <1>2, <1>4, <1>5, <1>7, <1>8, <1>9, <1>10, <1>11 DEF FeedInv

\* A snapshot that is published gets a number of its own, larger than all before,
\* and has all of its book.
LEMMA PublishSnapshotKeeps ==
  ASSUME FeedInv, 0 \notin SnapshotAhead, NEW s \in Symbol, PublishSnapshot(s)
  PROVE  FeedInv'
<1> USE MarketDataAssumption
<1>1. /\ FeedTypeOK /\ DepthSound /\ QueueSound /\ UpToDate /\ Unsubscribed
      /\ expected <= nextNumber /\ CopyExact
  BY DEF FeedInv
<1>2. PICK ahead \in SnapshotAhead :
        /\ Feed([type |-> "Snapshot", symbol |-> s, number |-> Latest + ahead, book |-> depth[s]])
        /\ nextNumber' = NextAfter(Latest + ahead)
        /\ UNCHANGED <<depth, subscribed, expected, copy, current>>
  BY DEF PublishSnapshot, consumerVars
<1>3. /\ nextNumber \in Nat \ {0} /\ expected \in Nat \ {0}
      /\ depth \in [Symbol -> SUBSET Nat]
  BY <1>1 DEF FeedTypeOK
<1>4. PICK number \in Nat : /\ number = Latest + ahead
                           /\ number >= nextNumber /\ nextNumber' = number + 1
  BY <1>2, <1>3 DEF Latest, NextAfter
<1>5. PICK event \in FeedEvent : /\ event.number = number /\ event.type = "Snapshot"
                             /\ event.symbol = s /\ event.book = depth[s] /\ Feed(event)
  BY <1>2, <1>3, <1>4 DEF FeedEvent
<1>6. FeedTypeOK'
  BY <1>1, <1>2, <1>3, <1>4, <1>5, FeedGrows DEF FeedTypeOK
<1>7. \A t \in Symbol : \A k \in depth[t] : k \in Nat /\ 1 <= k /\ k < nextNumber
  BY <1>1, <1>3 DEF DepthSound
<1>8. DepthSound'
  BY <1>1, <1>2, <1>3, <1>4, <1>7 DEF DepthSound
<1>9. QueueSound'
  <2>1. EventSound(event)'
    BY <1>2, <1>3, <1>4, <1>5, <1>7 DEF EventSound
  <2>2. ASSUME NEW old \in FeedEvent, EventSound(old) PROVE EventSound(old)'
    <3>1. old.number \in Nat /\ old.number < nextNumber'
      BY <1>3, <1>4, <2>2 DEF FeedEvent, EventSound
    <3> QED
      BY <1>2, <2>2, <3>1 DEF EventSound
  <2> QED
    BY <1>1, <1>5, <2>1, <2>2, GrownFeedSound
<1>10. UpToDate'
  <2>1. CASE subscribed
    BY <1>1, <1>4, <1>5, <2>1, FeedGrows DEF UpToDate
  <2>2. CASE ~subscribed
    BY <1>1, <1>2, <1>5, <2>2, FeedGrows DEF UpToDate, Unsubscribed
  <2> QED
    BY <2>1, <2>2
<1>11. Unsubscribed'
  BY <1>1, <1>2, <1>5, FeedGrows DEF Unsubscribed
<1>12. CopyExact' /\ expected' <= nextNumber'
  BY <1>1, <1>2, <1>3, <1>4 DEF CopyExact
<1> QED
  BY <1>6, <1>8, <1>9, <1>10, <1>11, <1>12 DEF FeedInv

\* An event that is taken off leaves the queue sound and its end where it was.
LEMMA TakenFeed ==
  ASSUME FeedInv, feed # <<>>, feed' = Tail(feed), UNCHANGED <<nextNumber, depth>>
  PROVE  /\ feed' \in Seq(FeedEvent) /\ QueueSound'
         /\ feed' # <<>> => feed'[Len(feed')].number = nextNumber - 1
         /\ feed' = <<>> => Head(feed).number = nextNumber - 1
         /\ Head(feed) \in FeedEvent /\ EventSound(Head(feed))
<1>1. FeedTypeOK /\ QueueSound /\ UpToDate
  BY DEF FeedInv
<1>2. /\ feed' \in Seq(FeedEvent) /\ Head(feed) \in FeedEvent /\ Head(feed) = feed[1]
      /\ Len(feed) \in Nat \ {0} /\ Len(feed') = Len(feed) - 1
      /\ \A i \in 1..Len(feed') : feed'[i] = feed[i + 1]
      /\ feed' # <<>> => feed'[Len(feed')] = feed[Len(feed)]
  BY <1>1, TailOfFeed
<1>3. QueueSound'
  <2> SUFFICES ASSUME NEW i \in 1..Len(feed') PROVE EventSound(feed[i])'
    BY DEF QueueSound
  <2>1. EventSound(feed[i + 1]) /\ feed'[i] = feed[i + 1]
    BY <1>1, <1>2 DEF QueueSound
  <2> QED
    BY <2>1 DEF EventSound
<1>4. EventSound(Head(feed))
  BY <1>1, <1>2 DEF QueueSound
<1>5. feed' = <<>> => Len(feed) = 1
  <2>1. feed' = <<>> => Len(feed') = 0
    OBVIOUS
  <2> QED
    BY <1>2, <2>1
<1> QED
  BY <1>1, <1>2, <1>3, <1>4, <1>5 DEF UpToDate

\* The event that is expected brings the copy of its book, and of every other
\* book that the consumer has, to its own number.
LEMMA PollNextKeeps == FeedInv /\ PollNext => FeedInv'
<1> SUFFICES ASSUME FeedInv, PollNext PROVE FeedInv'
  OBVIOUS
<1>1. /\ FeedTypeOK /\ DepthSound /\ QueueSound /\ UpToDate /\ Unsubscribed
      /\ expected <= nextNumber /\ CopyExact
  BY DEF FeedInv
<1>2. /\ feed # <<>> /\ feed' = Tail(feed) /\ UNCHANGED <<nextNumber, depth, subscribed>>
      /\ ~Ahead(Head(feed).number) /\ Head(feed).number >= expected
      /\ Take(Head(feed))
      /\ current' = IF Head(feed).type = "Snapshot" THEN current \cup {Head(feed).symbol} ELSE current
  BY DEF PollNext, publisherVars
<1>3. /\ feed' \in Seq(FeedEvent) /\ QueueSound'
      /\ feed' # <<>> => feed'[Len(feed')].number = nextNumber - 1
      /\ feed' = <<>> => Head(feed).number = nextNumber - 1
      /\ Head(feed) \in FeedEvent /\ EventSound(Head(feed))
  BY <1>2, TakenFeed
<1>4. PICK event \in FeedEvent : event = Head(feed)
  BY <1>3
<1>5. /\ nextNumber \in Nat \ {0} /\ expected \in Nat \ {0}
      /\ depth \in [Symbol -> SUBSET Nat] /\ copy \in [Symbol -> SUBSET Nat]
      /\ current \subseteq Symbol /\ subscribed \in BOOLEAN
  BY <1>1 DEF FeedTypeOK
<1>6. /\ event.number \in Nat /\ event.symbol \in Symbol /\ event.type \in {"Delta", "Snapshot"}
      /\ event.type = "Snapshot" => event.book \in SUBSET Nat
  BY DEF FeedEvent
<1>7. event.number = expected /\ expected' = expected + 1 /\ event.number < nextNumber
  BY <1>2, <1>3, <1>4, <1>5, <1>6 DEF Ahead, Take, EventSound
<1>8. copy' \in [Symbol -> SUBSET Nat] /\ current' \subseteq Symbol
  BY <1>2, <1>4, <1>5, <1>6 DEF Take
<1>9. FeedTypeOK'
  BY <1>2, <1>3, <1>5, <1>7, <1>8 DEF FeedTypeOK
<1>10. DepthSound' /\ Unsubscribed'
  BY <1>1, <1>2 DEF DepthSound, Unsubscribed
<1>11. UpToDate'
  BY <1>2, <1>3, <1>4, <1>5, <1>7 DEF UpToDate
<1>12. \A t \in Symbol : \A k \in depth[t] : k \in Nat
  BY <1>5
<1>13. CopyExact'
  <2>1. CASE event.type = "Delta"
    <3>1. /\ expected \in depth[event.symbol]
          /\ copy' = [copy EXCEPT ![event.symbol] = @ \cup {expected}] /\ current' = current
      BY <1>2, <1>3, <1>4, <1>7, <2>1 DEF Take, EventSound
    <3> SUFFICES ASSUME NEW t \in current PROVE copy'[t] = {k \in depth[t] : k < expected + 1}
      BY <1>2, <1>7, <3>1 DEF CopyExact
    <3>2. copy[t] = {k \in depth[t] : k < expected} /\ t \in Symbol
      BY <1>1, <1>5 DEF CopyExact
    <3>3. t # event.symbol => expected \notin depth[t]
      BY <1>1, <1>6, <3>1, <3>2 DEF DepthSound
    <3> QED
      BY <1>5, <1>6, <1>12, <3>1, <3>2, <3>3
  <2>2. CASE event.type = "Snapshot"
    <3>1. /\ \A t \in Symbol : expected \notin depth[t]
          /\ event.book = {k \in depth[event.symbol] : k < expected}
          /\ copy' = [copy EXCEPT ![event.symbol] = event.book]
          /\ current' = current \cup {event.symbol}
      BY <1>2, <1>3, <1>4, <1>7, <2>2 DEF Take, EventSound
    <3> SUFFICES ASSUME NEW t \in current' PROVE copy'[t] = {k \in depth[t] : k < expected + 1}
      BY <1>2, <1>7 DEF CopyExact
    <3>2. t \in Symbol
      BY <1>8
    <3>3. {k \in depth[t] : k < expected + 1} = {k \in depth[t] : k < expected}
      BY <1>5, <1>12, <3>1, <3>2
    <3>4. CASE t = event.symbol
      BY <1>5, <3>1, <3>2, <3>3, <3>4
    <3>5. CASE t # event.symbol
      <4>1. copy[t] = {k \in depth[t] : k < expected}
        BY <1>1, <3>1, <3>5 DEF CopyExact
      <4> QED
        BY <1>5, <3>1, <3>2, <3>3, <3>5, <4>1
    <3> QED
      BY <3>4, <3>5
  <2> QED
    BY <1>6, <2>1, <2>2
<1> QED
  BY <1>2, <1>3, <1>5, <1>7, <1>9, <1>10, <1>11, <1>13 DEF FeedInv

\* An old event changes nothing that the consumer has.
LEMMA PollOldKeeps == FeedInv /\ PollOld => FeedInv'
<1> SUFFICES ASSUME FeedInv, PollOld PROVE FeedInv'
  OBVIOUS
<1>1. /\ FeedTypeOK /\ DepthSound /\ UpToDate /\ Unsubscribed /\ expected <= nextNumber /\ CopyExact
  BY DEF FeedInv
<1>2. /\ feed # <<>> /\ feed' = Tail(feed) /\ Head(feed).number < expected
      /\ UNCHANGED <<nextNumber, depth, subscribed, expected, copy, current>>
  BY DEF PollOld, publisherVars, consumerVars
<1>3. /\ feed' \in Seq(FeedEvent) /\ QueueSound'
      /\ feed' # <<>> => feed'[Len(feed')].number = nextNumber - 1
      /\ feed' = <<>> => Head(feed).number = nextNumber - 1
  BY <1>2, TakenFeed
<1>4. FeedTypeOK' /\ DepthSound' /\ Unsubscribed' /\ CopyExact' /\ expected' <= nextNumber'
  BY <1>1, <1>2, <1>3 DEF FeedTypeOK, DepthSound, Unsubscribed, CopyExact
<1>5. UpToDate'
  BY <1>1, <1>2, <1>3 DEF UpToDate, FeedTypeOK
<1> QED
  BY <1>3, <1>4, <1>5 DEF FeedInv

\* A consumer that finds a gap believes to have no book.
LEMMA PollGapKeeps == FeedInv /\ PollGap => FeedInv'
<1> SUFFICES ASSUME FeedInv, PollGap PROVE FeedInv'
  OBVIOUS
<1>1. FeedTypeOK /\ QueueSound /\ feed # <<>>
  BY DEF FeedInv, PollGap
<1>2. Head(feed) \in FeedEvent /\ EventSound(Head(feed)) /\ expected < Head(feed).number
  BY <1>1, TailOfFeed DEF QueueSound, PollGap, Ahead
<1>3. /\ Head(feed).number \in Nat /\ Head(feed).number < nextNumber
      /\ expected \in Nat \ {0} /\ nextNumber \in Nat
  BY <1>1, <1>2 DEF FeedEvent, EventSound, FeedTypeOK
<1>4. expected' \in Nat \ {0} /\ expected' <= nextNumber'
  BY <1>2, <1>3 DEF PollGap, publisherVars
<1>5. FeedTypeOK'
  BY <1>1, <1>4 DEF FeedTypeOK, PollGap, publisherVars
<1> QED
  BY <1>1, <1>4, <1>5 DEF FeedInv, DepthSound, QueueSound, EventSound, UpToDate, Unsubscribed,
     CopyExact, PollGap, publisherVars

\* A consumer that asks for snapshots has every book as it is.
LEMMA ResyncKeeps == FeedInv /\ Resync => FeedInv'
<1> SUFFICES ASSUME FeedInv, Resync PROVE FeedInv'
  OBVIOUS
<1>1. FeedTypeOK /\ DepthSound /\ nextNumber \in Nat \ {0}
  BY DEF FeedInv, FeedTypeOK
<1>2. /\ expected' = nextNumber /\ copy' = depth /\ current' = Symbol /\ subscribed
      /\ UNCHANGED <<nextNumber, depth, feed, subscribed>>
  BY <1>1 DEF Resync, Latest, publisherVars
<1>3. FeedTypeOK'
  BY <1>1, <1>2 DEF FeedTypeOK
<1>4. CopyExact'
  BY <1>1, <1>2 DEF CopyExact, DepthSound
<1> QED
  BY <1>1, <1>2, <1>3, <1>4 DEF FeedInv, DepthSound, QueueSound, EventSound, UpToDate, Unsubscribed

\* Every step of the publisher and the consumer keeps the invariant.
LEMMA FeedStep == 0 \notin SnapshotAhead /\ FeedInv /\ [FeedNext]_feedVars => FeedInv'
<1> SUFFICES ASSUME 0 \notin SnapshotAhead, FeedInv, [FeedNext]_feedVars PROVE FeedInv'
  OBVIOUS
<1>1. CASE Subscribe
  BY <1>1, SubscribeKeeps
<1>2. ASSUME NEW s \in Symbol, PublishDelta(s) PROVE FeedInv'
  BY <1>2, PublishDeltaKeeps
<1>3. ASSUME NEW s \in Symbol, PublishSnapshot(s) PROVE FeedInv'
  BY <1>3, PublishSnapshotKeeps
<1>4. CASE PollNext
  BY <1>4, PollNextKeeps
<1>5. CASE PollOld
  BY <1>5, PollOldKeeps
<1>6. CASE PollGap
  BY <1>6, PollGapKeeps
<1>7. CASE Resync
  BY <1>7, ResyncKeeps
<1>8. CASE UNCHANGED feedVars
  BY <1>8 DEF feedVars, publisherVars, consumerVars, FeedInv, FeedTypeOK, DepthSound, QueueSound,
     EventSound, UpToDate, Unsubscribed, CopyExact
<1> QED
  BY <1>1, <1>2, <1>3, <1>4, <1>5, <1>6, <1>7, <1>8 DEF FeedNext

\* A consumer with no event left and a book that is exact up to the next number
\* has all of the book.
LEMMA FeedInvImplies == FeedInv => CopyExact /\ NothingSkipped
<1> SUFFICES ASSUME FeedInv PROVE NothingSkipped
  BY DEF FeedInv
<1> SUFFICES ASSUME feed = <<>>, NEW s \in current PROVE copy[s] = depth[s]
  BY DEF NothingSkipped
<1>1. expected = nextNumber /\ s \in Symbol /\ depth[s] \subseteq Nat
  BY DEF FeedInv, UpToDate, FeedTypeOK
<1>2. copy[s] = {k \in depth[s] : k < nextNumber}
  BY <1>1 DEF FeedInv, CopyExact
<1> QED
  BY <1>1, <1>2 DEF FeedInv, DepthSound

\* "Snapshot sequence defines the exact base for incremental replay": every book
\* that a consumer believes to have is exact, if no snapshot that is published
\* shares its number with a delta (publish_delta, publish_snapshot, poll).
THEOREM BooksExact == ASSUME 0 \notin SnapshotAhead PROVE FeedSpec => []CopyExact
<1>1. FeedInv /\ [FeedNext]_feedVars => FeedInv'
  BY FeedStep
<1> QED
  BY FeedStart, <1>1, FeedInvImplies, PTL DEF FeedSpec

\* "Updates cannot be silently skipped": under the same condition a consumer
\* with nothing to poll has every update, whatever the queue dropped.
THEOREM NoneSkipped == ASSUME 0 \notin SnapshotAhead PROVE FeedSpec => []NothingSkipped
<1>1. FeedInv /\ [FeedNext]_feedVars => FeedInv'
  BY FeedStep
<1> QED
  BY FeedStart, <1>1, FeedInvImplies, PTL DEF FeedSpec

-------------------------------------------------------------------------------
(***************************************************************************)
(* The server.  No trade is lost, repeated or flushed out of order, and    *)
(* the scavenger's account of what it archived is off by at most a trade   *)
(* for each chunk.                                                         *)
(***************************************************************************)
ServerTypeOK ==
  /\ trades \in Seq(Nat) /\ channel \in Seq(Nat)
  /\ batch \in Seq(Nat) /\ flushed \in Seq(Nat)
  /\ nextTrade \in Nat \ {0} /\ nextTrade <= Len(trades) + 1
  /\ walBytes \in Nat /\ walBytes <= ChunkSize
  /\ archived \in Nat /\ made \in Nat

ServerInv == ServerTypeOK /\ TradesOnTheirWay /\ ArchiveAccounted

\* Trades that follow one another make a longer run of trades.
LEMMA TradesFollow ==
  ASSUME NEW a \in Nat, NEW fills \in Nat
  PROVE  /\ [i \in 1..a |-> i] \o [i \in 1..fills |-> a + i] = [i \in 1..(a + fills) |-> i]
         /\ [i \in 1..fills |-> a + i] \in Seq(Nat) /\ Len([i \in 1..fills |-> a + i]) = fills
<1> DEFINE s == [i \in 1..a |-> i]
           t == [i \in 1..fills |-> a + i]
           u == [i \in 1..(a + fills) |-> i]
<1>1. s \in Seq(Nat) /\ Len(s) = a
  OBVIOUS
<1>2. t \in Seq(Nat) /\ Len(t) = fills
  OBVIOUS
<1>3. u \in Seq(Nat) /\ Len(u) = a + fills
  OBVIOUS
<1>4. /\ \A i \in 1..a : s[i] = i
      /\ \A i \in 1..fills : t[i] = a + i
      /\ \A i \in 1..(a + fills) : u[i] = i
  OBVIOUS
<1> HIDE DEF s, t, u
<1>5. /\ s \o t \in Seq(Nat) /\ Len(s \o t) = a + fills
      /\ \A i \in 1..(a + fills) : (s \o t)[i] = IF i <= a THEN s[i] ELSE t[i - a]
  BY <1>1, <1>2, ConcatProperties
<1>6. ASSUME NEW i \in 1..(a + fills) PROVE (s \o t)[i] = u[i]
  <2>1. CASE i <= a
    BY <1>4, <1>5, <2>1
  <2>2. CASE ~(i <= a)
    <3>1. i - a \in 1..fills
      BY <2>2
    <3> QED
      BY <1>4, <1>5, <2>2, <3>1
  <2> QED
    BY <2>1, <2>2
<1>7. s \o t = u
  BY <1>3, <1>5, <1>6, SeqEqual
<1> QED
  BY <1>2, <1>7 DEF s, t, u

\* A trade that moves from the front of one sequence to the end of the one before
\* it stays where it is among all trades.
LEMMA MovesOver ==
  ASSUME NEW p \in Seq(Nat), NEW q \in Seq(Nat), NEW r \in Seq(Nat), NEW n \in Nat
  PROVE  (p \o Append(q, n)) \o r = (p \o q) \o (<<n>> \o r)
<1>1. <<n>> \in Seq(Nat)
  OBVIOUS
<1>2. Append(q, n) = q \o <<n>>
  BY AppendIsConcat
<1>3. p \o (q \o <<n>>) = (p \o q) \o <<n>>
  BY <1>1, ConcatAssociative
<1>4. p \o q \in Seq(Nat)
  BY ConcatProperties
<1>5. ((p \o q) \o <<n>>) \o r = (p \o q) \o (<<n>> \o r)
  BY <1>1, <1>4, ConcatAssociative
<1> QED
  BY <1>2, <1>3, <1>5

\* A chunk is reported when the bytes of a trade fill the buffer: the account that
\* was off by at most a trade for each chunk still is, with one chunk more.
LEMMA ChunkAccounted ==
  ASSUME NEW n \in Nat, NEW t \in Nat, NEW w \in Nat, NEW a \in Nat, NEW c \in Nat,
         w <= c, w + t > c,
         n * t - w - a >= 0, (n * t - w - a) * c <= a * t
  PROVE  /\ (n + 1) * t - 0 - (a + c) >= 0
         /\ ((n + 1) * t - 0 - (a + c)) * c <= (a + c) * t
<1> DEFINE u == n * t - w - a
           v == (n + 1) * t - 0 - (a + c)
<1>1. n * t \in Nat /\ a * t \in Nat /\ t * c \in Nat /\ (n + 1) * t = n * t + t
      /\ (a + c) * t = a * t + t * c
  OBVIOUS
<1>2. u \in Nat /\ v \in Int /\ v = u + (w + t - c)
  BY <1>1
<1>3. v >= 0 /\ v <= u + t
  BY <1>2
<1> HIDE DEF u, v
<1>4. v * c <= (u + t) * c /\ (u + t) * c = u * c + t * c
  BY <1>2, <1>3
<1>5. u * c <= a * t /\ u * c \in Nat /\ v * c \in Nat
  BY <1>2, <1>3 DEF u
<1> QED
  BY <1>1, <1>3, <1>4, <1>5 DEF v

\* No trade before the first command.
LEMMA ServerStart == ServerInit => ServerInv
<1> SUFFICES ASSUME ServerInit PROVE ServerInv
  OBVIOUS
<1> USE ServerAssumption
<1>1. ServerTypeOK
  BY DEF ServerInit, ServerTypeOK
<1>2. Unsent = <<>>
  BY SubSeqEmpty DEF ServerInit, Unsent
<1>3. <<>> \o <<>> = <<>>
  BY ConcatEmptySeq, EmptySeq
<1>4. [i \in 1..0 |-> i] = <<>>
  OBVIOUS
<1>5. TradesOnTheirWay
  BY <1>2, <1>3, <1>4 DEF ServerInit, TradesOnTheirWay
<1>6. ArchiveAccounted
  BY DEF ServerInit, ArchiveAccounted
<1> QED
  BY <1>1, <1>5, <1>6 DEF ServerInv

\* What the matcher has still to send, and what all trades are made of.
LEMMA Parts ==
  ASSUME ServerTypeOK
  PROVE  /\ Unsent \in Seq(Nat)
         /\ flushed \o batch \in Seq(Nat) /\ (flushed \o batch) \o channel \in Seq(Nat)
         /\ Len(flushed) \in Nat /\ Len(batch) \in Nat
<1>1. \A i \in nextTrade..Len(trades) : trades[i] \in Nat
  BY DEF ServerTypeOK
<1>2. Unsent \in Seq(Nat)
  BY <1>1, SubSeqProperties DEF ServerTypeOK, Unsent
<1> QED
  BY <1>2, ConcatProperties DEF ServerTypeOK

\* A command is processed only when all trades of the one before are sent.
LEMMA ProcessKeeps ==
  ASSUME ServerInv, NEW command, Process(command)
  PROVE  ServerInv'
<1>1. ServerTypeOK /\ TradesOnTheirWay /\ ArchiveAccounted
  BY DEF ServerInv
<1>2. PICK fills \in 0..MaxFills :
        trades' = [i \in 1..fills |-> made + i] /\ made' = made + fills
  BY DEF Process
<1>3. /\ fills \in Nat /\ made \in Nat /\ nextTrade \in Nat /\ Len(trades) \in Nat
      /\ nextTrade' = 1 /\ nextTrade > Len(trades)
      /\ UNCHANGED <<channel, batch, walBytes, archived, flushed>>
  BY <1>1, ServerAssumption DEF ServerTypeOK, Process, SentAll, StartAtFirst, scavengerVars
<1>4. trades' \in Seq(Nat) /\ Len(trades') = fills
  BY <1>2, <1>3, TradesFollow
<1>5. ServerTypeOK'
  BY <1>1, <1>2, <1>3, <1>4 DEF ServerTypeOK
<1>6. Unsent = <<>>
  BY <1>3, SubSeqEmpty DEF Unsent
<1>7. Unsent' = trades'
  BY <1>3, <1>4, SubSeqFull DEF Unsent
<1> DEFINE run == (flushed \o batch) \o channel
<1>8. run \in Seq(Nat)
  BY <1>1, Parts
<1>9. run = [i \in 1..made |-> i]
  <2>1. run \o <<>> = run
    BY <1>8, ConcatEmptySeq
  <2> QED
    BY <1>1, <1>6, <2>1 DEF TradesOnTheirWay
<1>10. run \o [i \in 1..fills |-> made + i] = [i \in 1..(made + fills) |-> i]
  BY <1>3, <1>9, TradesFollow
<1>11. TradesOnTheirWay'
  BY <1>2, <1>3, <1>7, <1>10 DEF TradesOnTheirWay
<1>12. ArchiveAccounted'
  BY <1>1, <1>3 DEF ArchiveAccounted
<1> QED
  BY <1>5, <1>11, <1>12 DEF ServerInv

\* The trade that is sent was the first the matcher had still to send.
LEMMA SendTradeKeeps == ServerInv /\ SendTrade => ServerInv'
<1> SUFFICES ASSUME ServerInv, SendTrade PROVE ServerInv'
  OBVIOUS
<1>1. ServerTypeOK /\ TradesOnTheirWay /\ ArchiveAccounted
  BY DEF ServerInv
<1>2. /\ nextTrade \in 1..Len(trades) /\ trades \in Seq(Nat) /\ channel \in Seq(Nat)
      /\ channel' = Append(channel, trades[nextTrade]) /\ nextTrade' = nextTrade + 1
      /\ UNCHANGED <<trades, made, batch, walBytes, archived, flushed>>
  BY <1>1 DEF SendTrade, SentAll, ServerTypeOK, engineVars, scavengerVars
<1>3. trades[nextTrade] \in Nat /\ Len(trades) \in Nat
  BY <1>2
<1>4. ServerTypeOK'
  BY <1>1, <1>2, <1>3 DEF ServerTypeOK
<1>5. Unsent = <<trades[nextTrade]>> \o Unsent'
  BY <1>2, <1>3, SubSeqRecursiveFirst DEF Unsent
<1>6. flushed \o batch \in Seq(Nat) /\ Unsent' \in Seq(Nat)
  <2>1. \A i \in (nextTrade + 1)..Len(trades) : trades[i] \in Nat
    BY <1>2
  <2>2. Unsent' \in Seq(Nat)
    BY <1>2, <1>3, <2>1, SubSeqProperties DEF Unsent
  <2> QED
    BY <1>1, <2>2, Parts
<1>7. ((flushed \o batch) \o channel') \o Unsent' = ((flushed \o batch) \o channel) \o Unsent
  <2> DEFINE settled == flushed \o batch
             next    == trades[nextTrade]
             rest    == Unsent'
  <2>0. settled \in Seq(Nat) /\ next \in Nat /\ rest \in Seq(Nat) /\ channel \in Seq(Nat)
    BY <1>2, <1>3, <1>6
  <2> HIDE DEF settled, next, rest
  <2>1. (settled \o Append(channel, next)) \o rest = (settled \o channel) \o (<<next>> \o rest)
    BY <2>0, MovesOver
  <2> QED
    BY <1>2, <1>5, <2>1, Zenon DEF settled, next, rest
<1>8. TradesOnTheirWay'
  BY <1>1, <1>2, <1>7 DEF TradesOnTheirWay
<1>9. ArchiveAccounted'
  BY <1>1, <1>2 DEF ArchiveAccounted
<1> QED
  BY <1>4, <1>8, <1>9 DEF ServerInv

\* The trade that is received was the first in the channel, and is now the last in
\* the batch, or the last that was flushed.
LEMMA ReceiveTradeKeeps == ServerInv /\ ReceiveTrade => ServerInv'
<1> SUFFICES ASSUME ServerInv, ReceiveTrade PROVE ServerInv'
  OBVIOUS
<1>1. ServerTypeOK /\ TradesOnTheirWay /\ ArchiveAccounted
  BY DEF ServerInv
<1>2. /\ channel # <<>> /\ channel' = Tail(channel)
      /\ channel \in Seq(Nat) /\ batch \in Seq(Nat) /\ flushed \in Seq(Nat)
      /\ walBytes \in Nat /\ walBytes <= ChunkSize /\ archived \in Nat
      /\ UNCHANGED <<trades, made, nextTrade>>
  BY <1>1 DEF ReceiveTrade, ServerTypeOK, engineVars
<1> DEFINE first == Head(channel)
           full  == Append(batch, first)
<1>3. first \in Nat /\ channel' \in Seq(Nat) /\ channel = <<first>> \o channel'
  <2>1. Head(channel) \in Nat /\ Tail(channel) \in Seq(Nat)
    BY <1>2, HeadTailProperties
  <2>2. 1 \in 1..Len(channel) /\ Len(channel) \in 1..Len(channel)
    BY <1>2, EmptySeq
  <2>3. SubSeq(channel, 1, Len(channel)) = <<channel[1]>> \o SubSeq(channel, 2, Len(channel))
    <3>1. SubSeq(channel, 1, Len(channel))
            = <<channel[1]>> \o SubSeq(channel, 1 + 1, Len(channel))
      BY <1>2, <2>2, SubSeqRecursiveFirst, Zenon
    <3> QED
      BY <3>1
  <2>4. SubSeq(channel, 1, Len(channel)) = channel
    BY <1>2, SubSeqFull
  <2>5. SubSeq(channel, 2, Len(channel)) = Tail(channel) /\ channel[1] = Head(channel)
    BY <1>2, TailIsSubSeq
  <2> QED
    BY <1>2, <2>1, <2>3, <2>4, <2>5
<1>4. /\ full \in Seq(Nat) /\ Len(full) = Len(batch) + 1
      /\ Len(batch) \in Nat /\ Len(flushed) \in Nat
      /\ flushed \o full \in Seq(Nat) /\ Len(flushed \o full) = Len(flushed) + Len(batch) + 1
  BY <1>2, <1>3, ConcatProperties
<1>5. \/ flushed' = flushed \o full /\ batch' = <<>>
      \/ flushed' = flushed /\ batch' = full
  BY DEF ReceiveTrade, Flush
<1> HIDE DEF first, full
<1>6. /\ flushed' \in Seq(Nat) /\ batch' \in Seq(Nat)
      /\ flushed' \o batch' = flushed \o full
      /\ Len(flushed') + Len(batch') = Len(flushed) + Len(batch) + 1
  <2>1. (flushed \o full) \o <<>> = flushed \o full /\ <<>> \in Seq(Nat) /\ Len(<<>>) = 0
    BY <1>4, ConcatEmptySeq, EmptySeq
  <2>2. CASE flushed' = flushed \o full /\ batch' = <<>>
    <3>1. Len(flushed') = Len(flushed) + Len(batch) + 1 /\ Len(batch') = 0
      BY <1>4, <2>1, <2>2, Zenon
    <3>2. flushed' \in Seq(Nat) /\ batch' \in Seq(Nat) /\ flushed' \o batch' = flushed \o full
      BY <1>4, <2>1, <2>2, Zenon
    <3> QED
      BY <1>4, <3>1, <3>2
  <2>3. CASE flushed' = flushed /\ batch' = full
    <3>1. Len(flushed') = Len(flushed) /\ Len(batch') = Len(batch) + 1
      BY <1>4, <2>3, Zenon
    <3>2. flushed' \in Seq(Nat) /\ batch' \in Seq(Nat) /\ flushed' \o batch' = flushed \o full
      BY <1>2, <1>4, <2>3, Zenon
    <3> QED
      BY <1>4, <3>1, <3>2
  <2> QED
    BY <1>5, <2>2, <2>3
<1>7. TradesOnTheirWay'
  <2>1. (flushed \o full) \o channel' = (flushed \o batch) \o channel
    <3> DEFINE rest == Tail(channel)
               out  == flushed
               held == batch
               next == first
    <3>1. out \in Seq(Nat) /\ held \in Seq(Nat) /\ next \in Nat /\ rest \in Seq(Nat)
      BY <1>2, <1>3
    <3> HIDE DEF rest, out, held, next
    <3>2. (out \o Append(held, next)) \o rest = (out \o held) \o (<<next>> \o rest)
      BY <3>1, MovesOver
    <3> QED
      BY <1>2, <1>3, <3>2, Zenon DEF full, rest, out, held, next
  <2>2. Unsent' = Unsent /\ made' = made
    BY <1>2 DEF Unsent
  <2> QED
    BY <1>1, <1>6, <2>1, <2>2, Zenon DEF TradesOnTheirWay
<1>8. CASE walBytes + TradeBytes > ChunkSize
  <2>1. walBytes' = 0 /\ archived' = archived + ChunkSize
    BY <1>8, ServerAssumption DEF ReceiveTrade, Rotate
  <2>2. ServerTypeOK'
    BY <1>1, <1>2, <1>3, <1>6, <2>1, ServerAssumption DEF ServerTypeOK
  <2>3. ArchiveAccounted'
    <3> DEFINE n == Len(flushed) + Len(batch)
    <3>1. n \in Nat /\ TradeBytes \in Nat /\ ChunkSize \in Nat
      BY <1>4, ServerAssumption
    <3>2. n * TradeBytes - walBytes - archived >= 0
          /\ (n * TradeBytes - walBytes - archived) * ChunkSize <= archived * TradeBytes
      BY <1>1 DEF ArchiveAccounted
    <3> HIDE DEF n
    <3>3. /\ (n + 1) * TradeBytes - 0 - (archived + ChunkSize) >= 0
          /\ ((n + 1) * TradeBytes - 0 - (archived + ChunkSize)) * ChunkSize
               <= (archived + ChunkSize) * TradeBytes
      BY <1>2, <1>8, <3>1, <3>2, ChunkAccounted
    <3>4. Len(flushed') + Len(batch') = n + 1
      BY <1>6 DEF n
    <3> QED
      BY <2>1, <3>3, <3>4 DEF ArchiveAccounted
  <2> QED
    BY <1>7, <2>2, <2>3 DEF ServerInv
<1>9. CASE ~(walBytes + TradeBytes > ChunkSize)
  <2>1. walBytes' = walBytes + TradeBytes /\ archived' = archived
    BY <1>9, ServerAssumption DEF ReceiveTrade, Rotate
  <2>2. ServerTypeOK'
    BY <1>1, <1>2, <1>3, <1>6, <1>9, <2>1, ServerAssumption DEF ServerTypeOK
  <2>3. ArchiveAccounted'
    <3> DEFINE n == Len(flushed) + Len(batch)
    <3>1. n \in Nat /\ TradeBytes \in Nat /\ ChunkSize \in Nat
      BY <1>4, ServerAssumption
    <3>2. Len(flushed') + Len(batch') = n + 1
      BY <1>6
    <3> HIDE DEF n
    <3>3. n * TradeBytes \in Nat /\ (n + 1) * TradeBytes = n * TradeBytes + TradeBytes
      BY <3>1
    <3>4. (n + 1) * TradeBytes - walBytes' - archived' = n * TradeBytes - walBytes - archived
      BY <1>2, <2>1, <3>1, <3>3
    <3> QED
      BY <1>1, <2>1, <3>2, <3>4 DEF ArchiveAccounted, n
  <2> QED
    BY <1>7, <2>2, <2>3 DEF ServerInv
<1> QED
  BY <1>8, <1>9

\* A batch that is flushed before it is full keeps its place.
LEMMA TimeOutKeeps == ServerInv /\ TimeOut => ServerInv'
<1> SUFFICES ASSUME ServerInv, TimeOut PROVE ServerInv'
  OBVIOUS
<1>1. ServerTypeOK /\ TradesOnTheirWay /\ ArchiveAccounted
  BY DEF ServerInv
<1>2. /\ flushed' = flushed \o batch /\ batch' = <<>>
      /\ UNCHANGED <<trades, made, nextTrade, channel, walBytes, archived>>
  BY DEF TimeOut, Flush, engineVars
<1>3. /\ flushed \o batch \in Seq(Nat) /\ (flushed \o batch) \o <<>> = flushed \o batch
      /\ <<>> \in Seq(Nat) /\ Len(<<>>) = 0 /\ Len(flushed \o batch) = Len(flushed) + Len(batch)
  BY <1>1, ConcatProperties, ConcatEmptySeq, EmptySeq DEF ServerTypeOK
<1>4. ServerTypeOK'
  BY <1>1, <1>2, <1>3 DEF ServerTypeOK
<1>5. TradesOnTheirWay'
  BY <1>1, <1>2, <1>3 DEF TradesOnTheirWay, Unsent
<1>6. Len(flushed') + Len(batch') = Len(flushed) + Len(batch)
  BY <1>1, <1>2, <1>3, Parts
<1>7. ArchiveAccounted'
  BY <1>1, <1>2, <1>6 DEF ArchiveAccounted
<1> QED
  BY <1>4, <1>5, <1>7 DEF ServerInv

\* Every step of either thread, and every command that is accepted, keeps the
\* invariant.
LEMMA ServerStep == ServerInv /\ [ServerNext]_serverVars => ServerInv'
<1> SUFFICES ASSUME ServerInv, [ServerNext]_serverVars PROVE ServerInv'
  OBVIOUS
<1>1. CASE WarmUp
  BY <1>1, ProcessKeeps DEF WarmUp
<1>2. CASE TakeCommand
  BY <1>2, ProcessKeeps DEF TakeCommand
<1>3. CASE SendTrade
  BY <1>3, SendTradeKeeps
<1>4. CASE Enqueue
  BY <1>4 DEF Enqueue, scavengerVars, ServerInv, ServerTypeOK, TradesOnTheirWay, Unsent, ArchiveAccounted
<1>5. CASE ReceiveTrade
  BY <1>5, ReceiveTradeKeeps
<1>6. CASE TimeOut
  BY <1>6, TimeOutKeeps
<1>7. CASE UNCHANGED serverVars
  BY <1>7 DEF serverVars, engineVars, scavengerVars, ServerInv, ServerTypeOK, TradesOnTheirWay, Unsent,
     ArchiveAccounted
<1> QED
  BY <1>1, <1>2, <1>3, <1>4, <1>5, <1>6, <1>7 DEF ServerNext, Matcher, Scavenger

\* No trade is lost between the engine and the archive, none is there twice, and
\* none overtakes another (main.rs, scavenger.rs).
THEOREM EveryTradeOnItsWay == ServerSpec => []TradesOnTheirWay
<1>1. ServerInv /\ [ServerNext]_serverVars => ServerInv'
  BY ServerStep
<1>2. ServerInv => TradesOnTheirWay
  BY DEF ServerInv
<1> QED
  BY ServerStart, <1>1, <1>2, PTL DEF ServerSpec

\* What the scavenger reports as archived is never more than it has received, and
\* less by at most a trade's bytes for each chunk (scavenger.rs).
THEOREM ArchiveNeverOverstated == ServerSpec => []ArchiveAccounted
<1>1. ServerInv /\ [ServerNext]_serverVars => ServerInv'
  BY ServerStep
<1>2. ServerInv => ArchiveAccounted
  BY DEF ServerInv
<1> QED
  BY ServerStart, <1>1, <1>2, PTL DEF ServerSpec

-----------------------------------------------------------------------------
(***************************************************************************)
(* The event journal: what a synced append acknowledged stays in it, open  *)
(* refuses only a journal with a torn record, a snapshot that can be found *)
(* under its name is whole, and a restart starts from the one that was     *)
(* last returned with its directory synced, or from a later one, which     *)
(* the journal is not behind.                                              *)
(*                                                                         *)
(* The journal and the snapshot share no step, so each has an invariant of *)
(* its own.  For the journal it says what the disk is sure to keep and     *)
(* that the whole records of the file are sorted, torn ones among them or  *)
(* not; for the snapshot how far each stage of its write has come.  The    *)
(* restart needs both, and that no ledger, in memory or saved, is ahead of *)
(* the events that the disk is sure to keep.                               *)
(***************************************************************************)
Record == Event \cup {Torn}

JournalTyped ==
  /\ file \in Seq(Record) /\ kept \in Seq(Record)
  /\ synced \in 0..Len(file)
  /\ last \in Nat

\* What was acknowledged is part of what the disk is sure to keep.
Synced == Len(kept) <= synced /\ IsPrefix(kept, file)

Sorted(records) ==
  \A j, k \in DOMAIN records :
    j < k /\ records[j] # Torn /\ records[k] # Torn
    => records[j].sequence <= records[k].sequence

\* An open journal knows a number that no event of its file exceeds.
LastBounds ==
  mode = "Up" => \A k \in DOMAIN file : file[k] # Torn => file[k].sequence <= last

JournalInv == JournalTyped /\ Synced /\ Sorted(file) /\ LastBounds /\ OpenRefusesOnlyTorn

-----------------------------------------------------------------------------
\* The events of one command carry one number (ExchangeEvent).
LEMMA BatchShape ==
  ASSUME NEW added \in Batches
  PROVE  /\ added \in Seq(Event) /\ Len(added) \in 1..2
         /\ \A k \in 1..Len(added) : added[k].sequence = Head(added).sequence
         /\ Head(added).sequence \in Nat
<1> DEFINE e(kind, key, s) == [kind |-> kind, key |-> key, sequence |-> s]
<1>1. PICK k \in Key, new \in Key, s \in 1..MaxSequence :
        added \in {<<e("Accepted", k, s)>>, <<e("Cancelled", k, s)>>,
                   <<e("Accepted", k, s), e("Trade", k, s)>>,
                   <<e("Replaced", k, s), e("Accepted", new, s)>>}
  BY DEF Batches
<1>2. s \in Nat
  BY JournalAssumption
<1>3. \A kind \in {"Accepted", "Cancelled", "Replaced", "Trade"}, key \in Key :
        e(kind, key, s) \in Event /\ e(kind, key, s).sequence = s
  BY DEF Event
<1>4. \E a, b \in Event : /\ a.sequence = s /\ b.sequence = s
                          /\ added = <<a>> \/ added = <<a, b>>
  BY <1>1, <1>3
<1>5. PICK a \in Event, b \in Event : /\ a.sequence = s /\ b.sequence = s
                                      /\ added = <<a>> \/ added = <<a, b>>
  BY <1>4
<1>6. CASE added = <<a>>
  BY <1>2, <1>5, <1>6
<1>7. CASE added = <<a, b>>
  BY <1>2, <1>5, <1>7
<1> QED
  BY <1>5, <1>6, <1>7

\* The number of a whole record is a number.
LEMMA RecordNumber ==
  ASSUME NEW r \in Record, r # Torn
  PROVE  r \in Event /\ r.sequence \in Nat
BY JournalAssumption DEF Record, Event

\* Where the records of a file with records behind it come from.
LEMMA ConcatShape ==
  ASSUME NEW s \in Seq(Record), NEW t \in Seq(Record)
  PROVE  /\ s \o t \in Seq(Record)
         /\ Len(s \o t) = Len(s) + Len(t)
         /\ DOMAIN (s \o t) = 1..Len(s) + Len(t)
         /\ \A k \in 1..Len(s) : (s \o t)[k] = s[k]
         /\ \A k \in Len(s) + 1..Len(s) + Len(t) :
              k - Len(s) \in 1..Len(t) /\ (s \o t)[k] = t[k - Len(s)]
OBVIOUS

\* Records appended in two steps are the records appended at once.
LEMMA ConcatAssociates ==
  ASSUME NEW s \in Seq(Record), NEW t \in Seq(Record), NEW u \in Seq(Record)
  PROVE  (s \o t) \o u = s \o (t \o u)
OBVIOUS

\* A torn record or none.
LEMMA TailShape ==
  ASSUME NEW tail \in {<<>>, <<Torn>>}
  PROVE  tail \in Seq(Record) /\ \A k \in DOMAIN tail : tail[k] = Torn
<1>1. Torn \in Record
  BY DEF Record
<1>2. CASE tail = <<>>
  BY <1>2
<1>3. CASE tail = <<Torn>>
  BY <1>1, <1>3
<1> QED
  BY <1>2, <1>3

\* What is at the start of a file is still there after an append.
LEMMA PrefixOfConcat ==
  ASSUME NEW s \in Seq(Record), NEW t \in Seq(Record), NEW u \in Seq(Record), IsPrefix(s, t)
  PROVE  IsPrefix(s, t \o u)
<1>1. Len(s) <= Len(t) /\ Len(t \o u) = Len(t) + Len(u)
  BY DEF IsPrefix
<1>2. SubSeq(t \o u, 1, Len(s)) = SubSeq(t, 1, Len(s))
  BY <1>1
<1> QED
  BY <1>1, <1>2 DEF IsPrefix

\* What is at the start of a file is still there when it is cut behind it.
LEMMA PrefixOfCut ==
  ASSUME NEW s \in Seq(Record), NEW t \in Seq(Record), IsPrefix(s, t),
         NEW n \in 0..Len(t), Len(s) <= n
  PROVE  IsPrefix(s, SubSeq(t, 1, n))
<1>1. SubSeq(t, 1, n) \in Seq(Record) /\ Len(SubSeq(t, 1, n)) = n
  OBVIOUS
<1>2. SubSeq(SubSeq(t, 1, n), 1, Len(s)) = SubSeq(t, 1, Len(s))
  BY <1>1
<1> QED
  BY <1>1, <1>2 DEF IsPrefix

\* A sorted file followed by sorted records of no smaller numbers is sorted.
LEMMA SortedConcat ==
  ASSUME NEW s \in Seq(Record), NEW t \in Seq(Record), Sorted(s), Sorted(t),
         \A j \in DOMAIN s, k \in DOMAIN t :
           s[j] # Torn /\ t[k] # Torn => s[j].sequence <= t[k].sequence
  PROVE  Sorted(s \o t)
<1> DEFINE r == s \o t
<1>1. r \in Seq(Record) /\ Len(r) = Len(s) + Len(t)
  OBVIOUS
<1>2. \A j \in 1..Len(s) : r[j] = s[j]
  OBVIOUS
<1>3. \A j \in Len(s) + 1..Len(r) : j - Len(s) \in 1..Len(t) /\ r[j] = t[j - Len(s)]
  BY <1>1
<1> SUFFICES ASSUME NEW j \in 1..Len(r), NEW k \in 1..Len(r), j < k, r[j] # Torn, r[k] # Torn
             PROVE  r[j].sequence <= r[k].sequence
  BY <1>1 DEF Sorted
<1> HIDE DEF r
<1>4. CASE k <= Len(s)
  BY <1>2, <1>4 DEF Sorted
<1>5. CASE j <= Len(s) /\ k > Len(s)
  <2>1. r[j] = s[j] /\ k - Len(s) \in 1..Len(t) /\ r[k] = t[k - Len(s)]
    BY <1>1, <1>2, <1>3, <1>5
  <2> QED
    BY <2>1, <1>5
<1>6. CASE j > Len(s)
  <2>1. /\ j - Len(s) \in 1..Len(t) /\ r[j] = t[j - Len(s)]
        /\ k - Len(s) \in 1..Len(t) /\ r[k] = t[k - Len(s)]
        /\ j - Len(s) < k - Len(s)
    BY <1>1, <1>3, <1>6
  <2> QED
    BY <2>1 DEF Sorted
<1> QED
  BY <1>1, <1>4, <1>5, <1>6

\* The start of a sorted file, with a torn record behind it or not, is sorted,
\* and its whole records are those of the file.
LEMMA SortedCut ==
  ASSUME NEW t \in Seq(Record), Sorted(t), NEW n \in 0..Len(t),
         NEW tail \in {<<>>, <<Torn>>}
  PROVE  LET cut == SubSeq(t, 1, n) \o tail
         IN  /\ cut \in Seq(Record)
             /\ Len(cut) = n + Len(tail)
             /\ Sorted(cut)
             /\ \A k \in DOMAIN cut : cut[k] # Torn => k \in 1..n /\ cut[k] = t[k]
<1> DEFINE cut == SubSeq(t, 1, n) \o tail
<1>1. SubSeq(t, 1, n) \in Seq(Record) /\ Len(SubSeq(t, 1, n)) = n
  OBVIOUS
<1>2. tail \in Seq(Record) /\ \A k \in DOMAIN tail : tail[k] = Torn
  BY TailShape
<1>3. cut \in Seq(Record) /\ Len(cut) = n + Len(tail)
  BY <1>1, <1>2
<1>4. \A k \in 1..n : cut[k] = t[k]
  BY <1>1, <1>2
<1>5. \A k \in 1..Len(cut) : k > n => cut[k] = Torn
  BY <1>1, <1>2, <1>3
<1>6. \A k \in 1..Len(cut) : cut[k] # Torn => k \in 1..n /\ cut[k] = t[k]
  BY <1>3, <1>4, <1>5
<1>7. Sorted(cut)
  BY <1>3, <1>6 DEF Sorted
<1> QED
  BY <1>3, <1>6, <1>7

-----------------------------------------------------------------------------
\* A journal may grow by records that are not older than what is in it, and by
\* a torn one; last then is the number of the latest whole record.
LEMMA Grown ==
  ASSUME JournalInv, mode = "Up", mode' = "Up",
         NEW added \in Batches, NotOlder(added),
         NEW n \in 0..Len(added), NEW tail \in {<<>>, <<Torn>>},
         file' = file \o (SubSeq(added, 1, n) \o tail),
         last' = IF n = 0 THEN last ELSE added[n].sequence
  PROVE  /\ file' \in Seq(Record) /\ Len(file') >= Len(file)
         /\ IsPrefix(kept, file')
         /\ last' \in Nat /\ Sorted(file') /\ LastBounds' /\ OpenRefusesOnlyTorn'
<1> DEFINE more == SubSeq(added, 1, n) \o tail
           s == Head(added).sequence
<1>1. /\ added \in Seq(Event) /\ s \in Nat /\ s >= last
      /\ \A k \in 1..Len(added) : added[k].sequence = s
  BY BatchShape DEF NotOlder
<1>2. added \in Seq(Record) /\ Sorted(added)
  <2>1. added \in Seq(Record)
    BY <1>1 DEF Record
  <2> QED
    BY <1>1, <2>1 DEF Sorted
<1>3. /\ more \in Seq(Record) /\ Sorted(more)
      /\ \A k \in DOMAIN more : more[k] # Torn => k \in 1..n /\ more[k] = added[k]
  BY <1>2, SortedCut
<1> HIDE DEF more
<1>4. \A k \in DOMAIN more : more[k] # Torn => n > 0 /\ more[k].sequence = s
  <2> SUFFICES ASSUME NEW k \in DOMAIN more, more[k] # Torn
               PROVE  n > 0 /\ more[k].sequence = s
    OBVIOUS
  <2>1. k \in 1..n /\ more[k] = added[k]
    BY <1>3
  <2>2. n \in Nat /\ n <= Len(added) /\ Len(added) \in Nat
    BY <1>1
  <2>3. n > 0 /\ k \in 1..Len(added)
    BY <2>1, <2>2
  <2> QED
    BY <1>1, <2>1, <2>3
<1>5. file \in Seq(Record) /\ kept \in Seq(Record) /\ last \in Nat
  BY DEF JournalInv, JournalTyped
<1>6. file' = file \o more
  BY DEF more
<1>7. /\ file' \in Seq(Record)
      /\ Len(file') = Len(file) + Len(more) /\ DOMAIN file' = 1..Len(file) + Len(more)
      /\ \A k \in 1..Len(file) : file'[k] = file[k]
      /\ \A k \in Len(file) + 1..Len(file) + Len(more) :
           k - Len(file) \in 1..Len(more) /\ file'[k] = more[k - Len(file)]
  <2> DEFINE whole == file \o more
  <2>1. /\ whole \in Seq(Record)
        /\ Len(whole) = Len(file) + Len(more) /\ DOMAIN whole = 1..Len(file) + Len(more)
        /\ \A k \in 1..Len(file) : whole[k] = file[k]
        /\ \A k \in Len(file) + 1..Len(file) + Len(more) :
             k - Len(file) \in 1..Len(more) /\ whole[k] = more[k - Len(file)]
    BY <1>3, <1>5, ConcatShape
  <2>2. file' = whole
    BY <1>6
  <2> HIDE DEF whole
  <2> QED
    BY <2>1, <2>2
<1>8. Len(file) \in Nat /\ Len(more) \in Nat /\ DOMAIN file = 1..Len(file) /\ DOMAIN more = 1..Len(more)
  BY <1>3, <1>5
<1>9. IsPrefix(kept, file')
  BY <1>3, <1>5, <1>6, PrefixOfConcat DEF JournalInv, Synced
<1>10. last' \in Nat /\ last' >= last /\ (n > 0 => last' = s)
  <2>1. CASE n = 0
    BY <1>5, <2>1
  <2>2. CASE n # 0
    <3>1. n \in 1..Len(added)
      BY <1>1, <2>2
    <3>2. last' = s
      BY <1>1, <2>2, <3>1
    <3> QED
      BY <1>1, <1>5, <2>2, <3>2
  <2> QED
    BY <2>1, <2>2
<1>11. \A j \in DOMAIN file : file[j] # Torn => file[j] \in Record /\ file[j].sequence \in Nat /\ file[j].sequence <= last
  BY <1>5, RecordNumber DEF JournalInv, LastBounds
<1>12. Sorted(file')
  <2>1. \A j \in DOMAIN file, k \in DOMAIN more :
          file[j] # Torn /\ more[k] # Torn => file[j].sequence <= more[k].sequence
    BY <1>1, <1>4, <1>5, <1>11
  <2> QED
    BY <1>3, <1>5, <1>6, <2>1, SortedConcat DEF JournalInv
<1>13. LastBounds'
  <2> SUFFICES ASSUME NEW k \in DOMAIN file', file'[k] # Torn
               PROVE  file'[k].sequence <= last'
    BY DEF LastBounds
  <2>1. CASE k <= Len(file)
    <3>1. k \in DOMAIN file /\ file'[k] = file[k]
      BY <1>7, <1>8, <2>1
    <3> QED
      BY <1>5, <1>10, <1>11, <3>1
  <2>2. CASE k > Len(file)
    <3>1. k \in 1..Len(file) + Len(more)
      BY <1>7
    <3>2. k \in Len(file) + 1..Len(file) + Len(more)
      BY <1>8, <2>2, <3>1
    <3>3. k - Len(file) \in DOMAIN more /\ file'[k] = more[k - Len(file)]
      BY <1>7, <1>8, <3>2
    <3>4. n > 0 /\ file'[k].sequence = s
      BY <1>4, <3>3
    <3>5. last' = s
      BY <1>10, <3>4
    <3> QED
      BY <1>1, <3>4, <3>5
  <2> QED
    BY <1>7, <1>8, <2>1, <2>2
<1>14. OpenRefusesOnlyTorn'
  BY DEF OpenRefusesOnlyTorn
<1> QED
  BY <1>7, <1>9, <1>10, <1>12, <1>13, <1>14, <1>8

\* An empty journal satisfies the invariant.
LEMMA JournalInit == Init => JournalInv
BY DEF Init, JournalInv, JournalTyped, Synced, Sorted, LastBounds, OpenRefusesOnlyTorn, IsPrefix

\* An append that returns keeps it: what it acknowledges is synced or was not
\* asked to be.
LEMMA JournalAppend ==
  ASSUME JournalInv, NEW added \in Batches, AppendBatch(added)
  PROVE  JournalInv'
<1>1. /\ added \in Seq(Event) /\ Len(added) \in 1..2
      /\ SubSeq(added, 1, Len(added)) \o <<>> = added
      /\ LastOf(added) = added[Len(added)].sequence
  BY BatchShape DEF LastOf, Last
<1>2. /\ mode = "Up" /\ mode' = "Up" /\ NotOlder(added)
      /\ file' = file \o added /\ last' = added[Len(added)].sequence
  BY <1>1 DEF AppendBatch, snapshotVars
<1>3. /\ file' \in Seq(Record) /\ Len(file') >= Len(file)
      /\ IsPrefix(kept, file')
      /\ last' \in Nat /\ Sorted(file') /\ LastBounds' /\ OpenRefusesOnlyTorn'
  <2> DEFINE n == Len(added)
  <2>1. n \in 0..Len(added) /\ n # 0
    BY <1>1
  <2>2. file' = file \o (SubSeq(added, 1, n) \o <<>>)
    BY <1>1, <1>2
  <2>3. last' = IF n = 0 THEN last ELSE added[n].sequence
    BY <1>2, <2>1
  <2> HIDE DEF n
  <2> QED
    BY <1>2, <2>1, <2>2, <2>3, Grown
<1>4. CASE durability = "SyncData"
  <2>1. synced' = Len(file') /\ kept' = file'
    BY <1>4 DEF AppendBatch, SyncedBy
  <2>2. IsPrefix(file', file')
    BY <1>3 DEF IsPrefix
  <2> QED
    BY <1>3, <2>1, <2>2 DEF JournalInv, JournalTyped, Synced
<1>5. CASE durability # "SyncData"
  <2>1. synced' = synced /\ kept' = kept
    BY <1>5 DEF AppendBatch, SyncedBy
  <2> QED
    BY <1>3, <2>1 DEF JournalInv, JournalTyped, Synced
<1> QED
  BY <1>4, <1>5

\* An append that stops half-way keeps it: what it leaves behind is not older
\* than what is there, and a torn record ends it.
LEMMA JournalAppendFails ==
  ASSUME JournalInv, NEW added \in Batches, AppendFails(added)
  PROVE  JournalInv'
<1>1. PICK n \in 0..Len(added), tail \in {<<>>, <<Torn>>} :
        /\ file' = file \o SubSeq(added, 1, n) \o tail
        /\ last' = IF n = 0 THEN last ELSE added[n].sequence
  BY DEF AppendFails
<1>2. /\ mode = "Up" /\ mode' = "Up" /\ NotOlder(added)
      /\ synced' = synced /\ kept' = kept
  BY DEF AppendFails
<1>3. file' = file \o (SubSeq(added, 1, n) \o tail)
  <2>1. file \in Seq(Record) /\ SubSeq(added, 1, n) \in Seq(Event)
    BY BatchShape DEF JournalInv, JournalTyped
  <2>2. SubSeq(added, 1, n) \in Seq(Record)
    BY <2>1 DEF Record
  <2>3. tail \in Seq(Record)
    BY TailShape
  <2> QED
    BY <1>1, <2>1, <2>2, <2>3, ConcatAssociates
<1>4. /\ file' \in Seq(Record) /\ Len(file') >= Len(file)
      /\ IsPrefix(kept, file')
      /\ last' \in Nat /\ Sorted(file') /\ LastBounds' /\ OpenRefusesOnlyTorn'
  BY <1>1, <1>2, <1>3, Grown
<1> QED
  BY <1>2, <1>4 DEF JournalInv, JournalTyped, Synced

\* A crash keeps it: the file is cut behind what was synced, or is gone with
\* what it had acknowledged.
LEMMA JournalCrash ==
  ASSUME JournalInv, Crash
  PROVE  JournalInv'
<1>8. CASE FileGone
  BY <1>8 DEF Crash, FileGone, JournalInv, JournalTyped, Synced, Sorted, LastBounds, OpenRefusesOnlyTorn, IsPrefix
<1>9. SUFFICES ASSUME FileCut PROVE JournalInv'
  BY <1>8 DEF Crash
<1>1. PICK n \in synced..Len(file), tail \in {<<>>, <<Torn>>} :
        file' = SubSeq(file, 1, n) \o tail /\ synced' = Len(file')
  BY <1>9 DEF FileCut
<1>2. mode' = "Down" /\ last' = 0 /\ kept' = kept
  BY <1>9 DEF Crash, FileCut
<1>3. /\ file \in Seq(Record) /\ kept \in Seq(Record) /\ synced \in 0..Len(file)
      /\ n \in 0..Len(file) /\ Len(kept) <= n /\ IsPrefix(kept, file) /\ Sorted(file)
  BY DEF JournalInv, JournalTyped, Synced
<1>4. file' \in Seq(Record) /\ Len(file') = n + Len(tail) /\ Sorted(file')
  BY <1>1, <1>3, SortedCut
<1>5. IsPrefix(kept, file')
  <2>1. IsPrefix(kept, SubSeq(file, 1, n)) /\ SubSeq(file, 1, n) \in Seq(Record)
    BY <1>3, PrefixOfCut
  <2>2. tail \in Seq(Record)
    BY TailShape
  <2> QED
    BY <1>1, <1>3, <2>1, <2>2, PrefixOfConcat
<1>6. JournalTyped'
  BY <1>1, <1>2, <1>3, <1>4 DEF JournalTyped
<1>7. Synced'
  BY <1>1, <1>2, <1>3, <1>4, <1>5 DEF Synced, IsPrefix
<1> QED
  BY <1>2, <1>4, <1>6, <1>7 DEF JournalInv, LastBounds, OpenRefusesOnlyTorn

\* Reopening keeps it: the number it restores bounds the whole records.
LEMMA JournalOpen ==
  ASSUME JournalInv, NEW d \in Durabilities, Open(d)
  PROVE  JournalInv'
<1>1. file' = file /\ synced' = synced /\ kept' = kept /\ mode = "Down"
  BY DEF Open
<1>2. file \in Seq(Record) /\ Sorted(file)
  BY DEF JournalInv, JournalTyped
<1>3. CASE Whole(file) /\ InOrder(file)
  <2>1. mode' = "Up" /\ last' = LastOf(file)
    BY <1>3 DEF Open, LastFound
  <2>2. CASE file = <<>>
    BY <1>1, <2>1, <2>2 DEF JournalInv, JournalTyped, Synced, LastBounds, OpenRefusesOnlyTorn, LastOf
  <2>3. CASE file # <<>>
    <3>1. Len(file) \in DOMAIN file /\ last' = file[Len(file)].sequence
      BY <1>2, <2>1, <2>3 DEF LastOf, Last
    <3>2. \A k \in DOMAIN file : file[k] # Torn /\ file[k].sequence \in Nat
      BY <1>2, <1>3, RecordNumber DEF Whole
    <3>3. \A k \in DOMAIN file : file[k].sequence <= last'
      BY <1>2, <3>1, <3>2 DEF Sorted
    <3> QED
      BY <1>1, <2>1, <3>1, <3>2, <3>3 DEF JournalInv, JournalTyped, Synced, LastBounds, OpenRefusesOnlyTorn
  <2> QED
    BY <2>2, <2>3
<1>4. CASE ~(Whole(file) /\ InOrder(file))
  <2>1. mode' = "Failed" /\ last' = last
    BY <1>4 DEF Open
  <2>2. Whole(file) => InOrder(file)
    <3> SUFFICES ASSUME Whole(file), NEW k \in 2..Len(file)
                 PROVE  file[k - 1].sequence <= file[k].sequence
      BY DEF InOrder
    <3>1. k - 1 \in DOMAIN file /\ k \in DOMAIN file /\ k - 1 < k
      BY <1>2
    <3> QED
      BY <1>2, <3>1 DEF Sorted, Whole
  <2>3. ~Whole(file)
    BY <1>4, <2>2
  <2> QED
    BY <1>1, <2>1, <2>3 DEF JournalInv, JournalTyped, Synced, LastBounds, OpenRefusesOnlyTorn, Whole
<1> QED
  BY <1>3, <1>4

\* Every step keeps the invariant; those of the snapshot leave the journal alone.
LEMMA JournalNext == JournalInv /\ [Next]_vars => JournalInv'
<1> SUFFICES ASSUME JournalInv, [Next]_vars PROVE JournalInv'
  OBVIOUS
<1>1. ASSUME UNCHANGED <<journalVars, mode, kept>> PROVE JournalInv'
  BY <1>1 DEF JournalInv, JournalTyped, Synced, Sorted, LastBounds, OpenRefusesOnlyTorn, Whole, journalVars
<1>2. CASE Apply
  BY <1>1, <1>2 DEF Apply
<1>3. CASE WriteTmp \/ SyncTmp \/ Rename \/ SyncDirectory \/ ReturnUnsynced \/ SaveFails
  BY <1>1, <1>3 DEF WriteTmp, SyncTmp, Rename, SyncDirectory, ReturnUnsynced, SaveFails
<1>4. CASE UNCHANGED vars
  BY <1>1, <1>4 DEF vars
<1> QED
  BY <1>2, <1>3, <1>4, JournalAppend, JournalAppendFails, JournalCrash, JournalOpen DEF Next

\* Whatever fails and however often the machine goes down, an event whose append
\* returned under SyncData is in the journal (append, append_batch), as long as no
\* crash takes the whole file of a journal whose directory was never synced.
THEOREM AcknowledgedStays == Spec => []AcknowledgedKept
<1>1. JournalInv => AcknowledgedKept
  BY DEF JournalInv, Synced, AcknowledgedKept
<1> QED
  BY <1>1, JournalInit, JournalNext, PTL DEF Spec

\* validate_existing fails on no file that the journal wrote whole.
THEOREM OpenAcceptsWhole == Spec => []OpenRefusesOnlyTorn
<1>1. JournalInv => OpenRefusesOnlyTorn
  BY DEF JournalInv
<1> QED
  BY <1>1, JournalInit, JournalNext, PTL DEF Spec

-----------------------------------------------------------------------------
\* A snapshot file whose bytes are on the disk, or will be.
IsFile(snapshot, isSynced) ==
  snapshot = [ledger |-> snapshot.ledger, synced |-> isSynced, whole |-> TRUE]

SnapshotInv ==
  /\ stage = "Written" => IsFile(tmp, FALSE)
  /\ stage = "Synced" => IsFile(tmp, TRUE)
  /\ named = Nil \/ IsFile(named, TRUE)
  /\ onDisk = Nil \/ IsFile(onDisk, TRUE)

\* Every step keeps the invariant of the snapshot: each stage of a write knows
\* what its file holds by then.
LEMMA SnapshotNext == SnapshotInv /\ [Next]_vars => SnapshotInv'
<1> SUFFICES ASSUME SnapshotInv, [Next]_vars PROVE SnapshotInv'
  OBVIOUS
<1>1. ASSUME UNCHANGED <<stage, tmp, named, onDisk>> PROVE SnapshotInv'
  BY <1>1 DEF SnapshotInv, IsFile
<1>2. CASE Apply \/ UNCHANGED vars \/ \E d \in Durabilities : Open(d)
  BY <1>1, <1>2 DEF Apply, Open, vars, snapshotVars
<1>3. CASE \E added \in Batches : AppendBatch(added) \/ AppendFails(added)
  BY <1>1, <1>3 DEF AppendBatch, AppendFails, snapshotVars
<1>4. CASE WriteTmp
  BY <1>4 DEF WriteTmp, Saved, SnapshotInv, IsFile
<1>5. CASE SyncTmp
  <2> DEFINE l == tmp.ledger
  <2>1. tmp = [ledger |-> l, synced |-> FALSE, whole |-> TRUE]
    BY <1>5 DEF SyncTmp, SnapshotInv, IsFile
  <2> HIDE DEF l
  <2>2. tmp' = [ledger |-> l, synced |-> TRUE, whole |-> TRUE]
    BY <1>5, <2>1 DEF SyncTmp, SyncedTmp
  <2>3. IsFile(tmp', TRUE)
    BY <2>2 DEF IsFile
  <2> QED
    BY <1>5, <2>3 DEF SyncTmp, SnapshotInv, IsFile
<1>6. CASE Rename
  BY <1>6 DEF Rename, SnapshotInv, IsFile
<1>7. CASE SyncDirectory \/ ReturnUnsynced \/ SaveFails
  BY <1>7 DEF SyncDirectory, ReturnUnsynced, SaveFails, SyncedName, SnapshotInv, IsFile
<1>8. CASE Crash
  <2>1. AfterCrash(named) = {named} /\ AfterCrash(onDisk) = {onDisk}
    <3>1. ASSUME NEW snapshot, snapshot = Nil \/ IsFile(snapshot, TRUE)
          PROVE  AfterCrash(snapshot) = {snapshot}
      <4>1. snapshot = Nil \/ snapshot.synced = TRUE
        BY <3>1 DEF IsFile
      <4> QED
        BY <4>1 DEF AfterCrash
    <3> QED
      BY <3>1 DEF SnapshotInv
  <2>2. stage' = "Idle" /\ named' \in {named, onDisk} /\ onDisk' = named'
    BY <1>8, <2>1 DEF Crash
  <2> QED
    BY <2>2 DEF SnapshotInv, IsFile
<1> QED
  BY <1>2, <1>3, <1>4, <1>5, <1>6, <1>7, <1>8 DEF Next

\* A snapshot is whole from the moment it has its name, whenever the machine
\* goes down (ReplaySnapshot::write).
THEOREM SnapshotNeverPartial == Spec => []SnapshotWhole
<1>1. Init => SnapshotInv
  BY DEF Init, SnapshotInv
<1>2. SnapshotInv => SnapshotWhole
  BY DEF SnapshotInv, SnapshotWhole, IsFile
<1> QED
  BY <1>1, <1>2, SnapshotNext, PTL DEF Spec

-----------------------------------------------------------------------------
(***************************************************************************)
(* What a restart starts from.                                             *)
(***************************************************************************)
Ledger == [events : Nat, last : Nat, accepted : SUBSET Key, cancelled : SUBSET Key]

\* A ledger on whose books no order is gone.
Consistent(ledger) == ledger \in Ledger /\ ledger.accepted \cap ledger.cancelled = {}

\* The number is that of a synced event, or of one before it.
Reached(x) == x = 0 \/ \E k \in DOMAIN kept : kept[k] # Torn /\ x <= kept[k].sequence

\* A snapshot there is.
Sound(snapshot) == snapshot # Nil => Consistent(snapshot.ledger)

LedgersConsistent ==
  /\ Consistent(live) /\ Sound(tmp) /\ Sound(named) /\ Sound(onDisk)
  /\ toApply \in Seq(Event) /\ returned \in Nat

\* While every journal was opened with SyncData and none vanished, no ledger is
\* ahead of what is synced.
LedgersReached ==
  ~buffered /\ ~vanished =>
    /\ durability = "SyncData"
    /\ Reached(live.last)
    /\ \A snapshot \in {tmp, named, onDisk} : snapshot # Nil => Reached(snapshot.ledger.last)
    /\ \A k \in DOMAIN toApply : Reached(toApply[k].sequence)

\* The snapshots from the oldest to the latest: returned, on the disk, under its
\* name, in the temporary file, and the ledger in memory.
SnapshotsOrdered ==
  /\ stage # "Idle" => mode = "Up"
  /\ stage \in {"Written", "Synced"} =>
       /\ tmp # Nil
       /\ tmp.ledger.events <= live.events
       /\ named # Nil => named.ledger.events <= tmp.ledger.events
  /\ stage = "Renamed" => named # Nil
  /\ mode = "Up" /\ named # Nil => named.ledger.events <= live.events
  /\ onDisk # Nil => named # Nil /\ onDisk.ledger.events <= named.ledger.events
  /\ returned > 0 => onDisk # Nil /\ returned <= onDisk.ledger.events

RestartInv == LedgersConsistent /\ LedgersReached /\ SnapshotsOrdered

\* Applying an event keeps a ledger consistent and counts it.
LEMMA AppliedSound ==
  ASSUME NEW ledger, Consistent(ledger), NEW e \in Event
  PROVE  /\ Consistent(Applied(ledger, e))
         /\ Applied(ledger, e).events = ledger.events + 1
         /\ Applied(ledger, e).last = e.sequence
<1>1. PICK n, l, a, c : n = ledger.events /\ l = ledger.last /\ a = ledger.accepted /\ c = ledger.cancelled
  OBVIOUS
<1>2. ledger = [events |-> n, last |-> l, accepted |-> a, cancelled |-> c]
      /\ n \in Nat /\ a \subseteq Key /\ c \subseteq Key /\ a \cap c = {}
  BY <1>1 DEF Consistent, Ledger
<1>3. e.key \in Key /\ e.sequence \in Nat /\ e.kind \in {"Accepted", "Cancelled", "Replaced", "Trade"}
  BY JournalAssumption DEF Event
<1>4. PICK a2, c2 : a2 = a \cup {e.key} /\ c2 = c \ {e.key}
  OBVIOUS
<1>5. PICK a3, c3 : a3 = a \ {e.key} /\ c3 = c \cup {e.key}
  OBVIOUS
<1>6. WithAccepted(ledger, e.key) = [events |-> n, last |-> l, accepted |-> a2, cancelled |-> c2]
  <2>1. WithAccepted(ledger, e.key) = [ledger EXCEPT !.accepted = a2, !.cancelled = c2]
    BY <1>1, <1>4 DEF WithAccepted
  <2> QED BY ONLY <1>2, <2>1
<1>7. WithGone(ledger, e.key) = [events |-> n, last |-> l, accepted |-> a3, cancelled |-> c3]
  <2>1. WithGone(ledger, e.key) = [ledger EXCEPT !.accepted = a3, !.cancelled = c3]
    BY <1>1, <1>5 DEF WithGone
  <2> QED BY ONLY <1>2, <2>1
<1>8. PICK next : next = CASE e.kind = "Accepted" -> WithAccepted(ledger, e.key)
                           [] e.kind \in {"Cancelled", "Replaced"} -> WithGone(ledger, e.key)
                           [] e.kind = "Trade" -> ledger
  OBVIOUS
<1>9. \E x, y : /\ next = [events |-> n, last |-> l, accepted |-> x, cancelled |-> y]
                /\ x \subseteq Key /\ y \subseteq Key /\ x \cap y = {}
  <2>1. a2 \subseteq Key /\ c2 \subseteq Key /\ a2 \cap c2 = {} /\ a3 \subseteq Key /\ c3 \subseteq Key /\ a3 \cap c3 = {}
    BY <1>2, <1>3, <1>4, <1>5
  <2>2. next \in {WithAccepted(ledger, e.key), WithGone(ledger, e.key), ledger}
    BY <1>3, <1>8
  <2> QED BY <1>2, <1>6, <1>7, <2>1, <2>2
<1>10. PICK x, y : /\ next = [events |-> n, last |-> l, accepted |-> x, cancelled |-> y]
                   /\ x \subseteq Key /\ y \subseteq Key /\ x \cap y = {}
  BY <1>9
<1>11. Applied(ledger, e) = [next EXCEPT !.events = @ + 1, !.last = e.sequence]
  BY <1>8 DEF Applied
<1>12. Applied(ledger, e) = [events |-> n + 1, last |-> e.sequence, accepted |-> x, cancelled |-> y]
  BY <1>10, <1>11
<1> QED BY <1>1, <1>2, <1>3, <1>10, <1>12 DEF Consistent, Ledger

\* What is reached stays so while the synced events stay where they are.
LEMMA ReachedStays ==
  ASSUME kept \in Seq(Record), kept' \in Seq(Record), IsPrefix(kept, kept'), NEW x, Reached(x)
  PROVE  Reached(x)'
<1>1. Len(kept) <= Len(kept') /\ \A k \in 1..Len(kept) : k \in 1..Len(kept') /\ kept'[k] = kept[k]
  <2>1. Len(kept) <= Len(kept') /\ SubSeq(kept, 1, Len(kept)) = SubSeq(kept', 1, Len(kept))
    BY DEF IsPrefix
  <2>2. \A k \in 1..Len(kept) : k \in 1..Len(kept') /\ SubSeq(kept', 1, Len(kept))[k] = kept'[k]
    BY <2>1
  <2>3. \A k \in 1..Len(kept) : SubSeq(kept, 1, Len(kept))[k] = kept[k]
    OBVIOUS
  <2> QED BY <2>1, <2>2, <2>3
<1>2. DOMAIN kept = 1..Len(kept) /\ DOMAIN kept' = 1..Len(kept')
  OBVIOUS
<1> QED BY <1>1, <1>2 DEF Reached

\* At the start nothing was saved and nothing applied.
LEMMA RestartInitial == Init => RestartInv
<1> SUFFICES ASSUME Init PROVE RestartInv
  OBVIOUS
<1>1. Consistent(live) /\ live.last = 0 /\ toApply \in Seq(Event) /\ DOMAIN toApply = {}
  BY DEF Init, EmptyLedger, Consistent, Ledger
<1>2. LedgersConsistent
  BY <1>1 DEF Init, LedgersConsistent, Sound
<1>3. LedgersReached
  <2>1. ~buffered => durability = "SyncData"
    BY JournalAssumption DEF Init
  <2> QED BY <1>1, <2>1 DEF Init, LedgersReached, Reached
<1>4. SnapshotsOrdered
  BY DEF Init, SnapshotsOrdered
<1> QED BY <1>2, <1>3, <1>4 DEF RestartInv

\* What is appended under SyncData is reached before the caller applies it
\* (append_batch syncs before it returns).
LEMMA RestartAppend ==
  ASSUME RestartInv, JournalInv, JournalInv', NEW added \in Batches, AppendBatch(added)
  PROVE  RestartInv'
<1>1. /\ added \in Seq(Event) /\ \A k \in 1..Len(added) : added[k] \in Event /\ added[k].sequence \in Nat
  <2>1. added \in Seq(Event)
    BY BatchShape
  <2>2. \A k \in 1..Len(added) : added[k] \in Event
    BY <2>1
  <2>3. \A e \in Event : e.sequence \in Nat
    BY JournalAssumption DEF Event
  <2> QED BY <2>1, <2>2, <2>3
<1>2. /\ toApply' = added /\ file' = file \o added /\ UNCHANGED <<mode, live, snapshotVars, buffered, vanished, durability>>
      /\ kept' = IF durability = "SyncData" THEN file' ELSE kept
  BY DEF AppendBatch
<1>3. kept \in Seq(Record) /\ kept' \in Seq(Record) /\ file \in Seq(Record) /\ IsPrefix(kept, kept')
  <2>1. kept \in Seq(Record) /\ kept' \in Seq(Record) /\ file \in Seq(Record) /\ IsPrefix(kept, file)
    BY DEF JournalInv, JournalTyped, Synced
  <2>2. added \in Seq(Record)
    BY <1>1 DEF Record
  <2>3. IsPrefix(kept, file \o added)
    BY <2>1, <2>2, PrefixOfConcat
  <2>4. IsPrefix(kept, kept)
    BY <2>1 DEF IsPrefix
  <2> QED BY <1>2, <2>1, <2>3, <2>4
<1>4. LedgersConsistent' /\ SnapshotsOrdered'
  BY <1>1, <1>2 DEF RestartInv, LedgersConsistent, SnapshotsOrdered, Sound, snapshotVars
<1>5. LedgersReached'
  <2> SUFFICES ASSUME ~buffered, ~vanished PROVE LedgersReached'
    BY <1>2 DEF LedgersReached
  <2>1. durability = "SyncData" /\ kept' = file \o added
    BY <1>2 DEF RestartInv, LedgersReached
  <2>2. \A x : Reached(x) => Reached(x)'
    BY <1>3, ReachedStays
  <2>3. \A k \in DOMAIN added : Reached(added[k].sequence)'
    <3> SUFFICES ASSUME NEW k \in 1..Len(added) PROVE Reached(added[k].sequence)'
      BY <1>1
    <3>2. Len(file) + k \in DOMAIN kept' /\ kept'[Len(file) + k] = added[k]
      BY <1>1, <1>3, <2>1
    <3>3. added[k] # Torn
      BY <1>1, DistinctAssumption
    <3> QED BY <1>1, <3>2, <3>3 DEF Reached
  <2>4. \A x : Reached(x)' <=> (x = 0 \/ \E k \in DOMAIN kept' : kept'[k] # Torn /\ x <= kept'[k].sequence)
    BY DEF Reached
  <2> QED BY <1>2, <2>1, <2>2, <2>3 DEF RestartInv, LedgersReached, snapshotVars
<1> QED BY <1>4, <1>5 DEF RestartInv

\* What was not synced, a torn tail included, takes nothing from what was reached.
LEMMA RestartFails ==
  ASSUME RestartInv, NEW added \in Batches, AppendFails(added)
  PROVE  RestartInv'
BY DEF AppendFails, RestartInv, LedgersConsistent, LedgersReached, SnapshotsOrdered, Sound, Reached,
       ledgerVars, snapshotVars

\* The caller applies only what it appended, so its ledger stays within reach.
LEMMA RestartApply == ASSUME RestartInv, Apply PROVE RestartInv'
<1>1. /\ toApply # <<>> /\ toApply' = Tail(toApply) /\ stage = "Idle"
      /\ live' = IF Head(toApply).sequence >= live.last THEN Applied(live, Head(toApply)) ELSE live
      /\ UNCHANGED <<durability, mode, stage, tmp, named, onDisk, returned, kept, buffered, vanished>>
  BY DEF Apply, journalVars, snapshotVars
<1>2. /\ toApply \in Seq(Event) /\ Head(toApply) \in Event /\ toApply' \in Seq(Event)
      /\ Head(toApply) = toApply[1] /\ 1 \in DOMAIN toApply
      /\ \A k \in DOMAIN toApply' : k + 1 \in DOMAIN toApply /\ toApply'[k] = toApply[k + 1]
  BY <1>1 DEF RestartInv, LedgersConsistent
<1>3. Consistent(live) /\ live.events \in Nat
  BY DEF RestartInv, LedgersConsistent, Consistent, Ledger
<1>4. /\ Consistent(live') /\ live'.events \in Nat /\ live'.events >= live.events
      /\ live'.last \in {live.last, Head(toApply).sequence}
  <2>1. /\ Consistent(Applied(live, Head(toApply)))
        /\ Applied(live, Head(toApply)).events = live.events + 1
        /\ Applied(live, Head(toApply)).last = Head(toApply).sequence
    BY <1>2, <1>3, AppliedSound
  <2> QED BY <1>1, <1>3, <2>1
<1>5. LedgersConsistent'
  BY <1>1, <1>2, <1>4 DEF RestartInv, LedgersConsistent, Sound
<1>6. LedgersReached'
  <2>1. \A x : Reached(x)' <=> Reached(x)
    BY <1>1 DEF Reached
  <2> SUFFICES ASSUME ~buffered, ~vanished
               PROVE  /\ durability = "SyncData" /\ Reached(live'.last)
                      /\ \A snapshot \in {tmp, named, onDisk} : snapshot # Nil => Reached(snapshot.ledger.last)
                      /\ \A k \in DOMAIN toApply' : Reached(toApply'[k].sequence)
    BY <1>1, <2>1 DEF LedgersReached
  <2> QED BY <1>2, <1>4 DEF RestartInv, LedgersReached
<1>7. SnapshotsOrdered'
  <2>1. \A snapshot \in {tmp, named, onDisk} : snapshot # Nil => snapshot.ledger.events \in Nat
    BY DEF RestartInv, LedgersConsistent, Sound, Consistent, Ledger
  <2> QED BY <1>1, <1>3, <1>4, <2>1 DEF RestartInv, SnapshotsOrdered
<1> QED BY <1>5, <1>6, <1>7 DEF RestartInv

\* No snapshot is the absence of one.
LEMMA SnapshotThere ==
  ASSUME NEW l \in Ledger, NEW s \in BOOLEAN, NEW w \in BOOLEAN
  PROVE  [ledger |-> l, synced |-> s, whole |-> w] # Nil
<1>1. PICK L : L = [events : Nat, last : Nat, accepted : SUBSET Key, cancelled : SUBSET Key]
  OBVIOUS
<1>2. PICK S : S = [ledger : L, synced : BOOLEAN, whole : BOOLEAN]
  OBVIOUS
<1>3. Nil \notin S
  BY <1>1, <1>2, DistinctAssumption
<1>4. l \in L
  BY <1>1 DEF Ledger
<1>5. [ledger |-> l, synced |-> s, whole |-> w] \in S
  BY ONLY <1>2, <1>4, s \in BOOLEAN, w \in BOOLEAN
<1> QED BY <1>3, <1>5

\* Each stage of ReplaySnapshot::write hands the same ledger to the next, and a
\* write that ends without the directory's sync leaves the disk as it was.
LEMMA RestartSave ==
  ASSUME RestartInv, SnapshotInv,
         WriteTmp \/ SyncTmp \/ Rename \/ SyncDirectory \/ ReturnUnsynced \/ SaveFails
  PROVE  RestartInv'
<1>1. UNCHANGED <<mode, live, toApply, durability, kept, buffered, vanished>>
  BY DEF WriteTmp, SyncTmp, Rename, SyncDirectory, ReturnUnsynced, SaveFails, journalVars, ledgerVars
<1>2. \A x : Reached(x)' <=> Reached(x)
  BY <1>1 DEF Reached
<1>3. \A snapshot \in {tmp, named, onDisk} :
        snapshot # Nil => Consistent(snapshot.ledger) /\ snapshot.ledger.events \in Nat
  BY DEF RestartInv, LedgersConsistent, Sound, Consistent, Ledger
<1>4. Consistent(live) /\ live.events \in Nat
  BY DEF RestartInv, LedgersConsistent, Consistent, Ledger
<1>5. CASE WriteTmp
  <2>1. /\ mode = "Up" /\ tmp' = Saved(live) /\ stage' = "Written" /\ UNCHANGED <<named, onDisk, returned>>
    BY <1>5 DEF WriteTmp
  <2>2. tmp'.ledger = live /\ tmp' # Nil
    <3>1. live \in Ledger
      BY <1>4 DEF Consistent
    <3> QED BY <2>1, <3>1, SnapshotThere DEF Saved
  <2>3. LedgersConsistent'
    BY <1>1, <1>4, <2>1, <2>2 DEF RestartInv, LedgersConsistent, Sound
  <2>4. LedgersReached'
    BY <1>1, <1>2, <2>1, <2>2 DEF RestartInv, LedgersReached
  <2>5. SnapshotsOrdered'
    BY <1>1, <1>3, <1>4, <2>1, <2>2 DEF RestartInv, SnapshotsOrdered
  <2> QED BY <2>3, <2>4, <2>5 DEF RestartInv
<1>6. CASE SyncTmp
  <2>1. /\ mode = "Up" /\ stage = "Written" /\ tmp' = SyncedTmp /\ stage' = "Synced" /\ UNCHANGED <<named, onDisk, returned>>
    BY <1>6 DEF SyncTmp
  <2>2. tmp'.ledger = tmp.ledger /\ tmp' # Nil /\ tmp # Nil
    <3>1. tmp # Nil /\ IsFile(tmp, FALSE)
      BY <2>1 DEF RestartInv, SnapshotsOrdered, SnapshotInv
    <3>2. PICK l : l = tmp.ledger
      OBVIOUS
    <3>3. tmp = [ledger |-> l, synced |-> FALSE, whole |-> TRUE]
      BY <3>1, <3>2 DEF IsFile
    <3>4. tmp' = [ledger |-> l, synced |-> TRUE, whole |-> TRUE]
      BY <2>1, <3>3 DEF SyncedTmp
    <3>5. l \in Ledger
      BY <1>3, <3>1, <3>2 DEF Consistent
    <3> QED BY <3>1, <3>2, <3>4, <3>5, SnapshotThere
  <2>3. LedgersConsistent'
    BY <1>1, <1>3, <2>1, <2>2 DEF RestartInv, LedgersConsistent, Sound
  <2>4. LedgersReached'
    BY <1>1, <1>2, <2>1, <2>2 DEF RestartInv, LedgersReached
  <2>5. SnapshotsOrdered'
    BY <1>1, <1>3, <1>4, <2>1, <2>2 DEF RestartInv, SnapshotsOrdered
  <2> QED BY <2>3, <2>4, <2>5 DEF RestartInv
<1>7. CASE Rename
  <2>1. /\ mode = "Up" /\ stage = "Synced" /\ named' = tmp /\ tmp' = Nil /\ stage' = "Renamed"
        /\ onDisk' \in {onDisk, named} /\ UNCHANGED returned
    BY <1>7 DEF Rename
  <2>2. LedgersConsistent'
    BY <1>1, <1>3, <2>1 DEF RestartInv, LedgersConsistent, Sound
  <2>3. LedgersReached'
    BY <1>1, <1>2, <2>1 DEF RestartInv, LedgersReached
  <2>4. /\ tmp # Nil /\ tmp.ledger.events \in Nat /\ tmp.ledger.events <= live.events
        /\ named # Nil => named.ledger.events <= tmp.ledger.events
        /\ onDisk # Nil => named # Nil /\ onDisk.ledger.events <= named.ledger.events
        /\ returned > 0 => onDisk # Nil /\ returned <= onDisk.ledger.events
    BY <1>3, <2>1 DEF RestartInv, SnapshotsOrdered
  <2>5. onDisk' # Nil => named # Nil /\ onDisk'.ledger.events <= tmp.ledger.events
    BY <1>3, <2>1, <2>4
  <2>6. returned > 0 => onDisk' # Nil /\ returned <= onDisk'.ledger.events
    <3>1. returned \in Nat
      BY DEF RestartInv, LedgersConsistent
    <3>2. CASE onDisk' = onDisk
      BY <2>4, <3>2
    <3>3. CASE onDisk' = named
      BY <1>3, <2>4, <3>1, <3>3
    <3> QED BY <2>1, <3>2, <3>3
  <2>7. SnapshotsOrdered'
    BY <1>1, <2>1, <2>4, <2>5, <2>6 DEF SnapshotsOrdered
  <2> QED BY <2>2, <2>3, <2>7 DEF RestartInv
<1>8. CASE SyncDirectory
  <2>1. /\ mode = "Up" /\ stage = "Renamed" /\ onDisk' = named /\ returned' = named.ledger.events
        /\ stage' = "Idle" /\ UNCHANGED <<tmp, named>>
    BY <1>8 DEF SyncDirectory, SyncedName
  <2>2. named # Nil
    BY <2>1 DEF RestartInv, SnapshotsOrdered
  <2>3. LedgersConsistent'
    BY <1>1, <1>3, <2>1, <2>2 DEF RestartInv, LedgersConsistent, Sound
  <2>4. LedgersReached'
    BY <1>1, <1>2, <2>1 DEF RestartInv, LedgersReached
  <2>5. SnapshotsOrdered'
    BY <1>1, <1>3, <1>4, <2>1, <2>2 DEF RestartInv, SnapshotsOrdered
  <2> QED BY <2>3, <2>4, <2>5 DEF RestartInv
<1>9. CASE ReturnUnsynced \/ SaveFails
  <2>1. stage' = "Idle" /\ tmp' \in {tmp, Nil} /\ UNCHANGED <<named, onDisk, returned>>
    BY <1>9 DEF ReturnUnsynced, SaveFails
  <2>2. LedgersConsistent'
    BY <1>1, <2>1 DEF RestartInv, LedgersConsistent, Sound
  <2>3. LedgersReached'
    BY <1>1, <1>2, <2>1 DEF RestartInv, LedgersReached
  <2>4. SnapshotsOrdered'
    BY <1>1, <2>1 DEF RestartInv, SnapshotsOrdered
  <2> QED BY <2>2, <2>3, <2>4 DEF RestartInv
<1> QED BY <1>5, <1>6, <1>7, <1>8, <1>9

\* A crash takes the memory and the temporary file; of the snapshots under the
\* name it leaves the one the disk has or the one that was to follow.
LEMMA RestartCrash == ASSUME RestartInv, SnapshotInv, Crash PROVE RestartInv'
<1>1. AfterCrash(named) = {named} /\ AfterCrash(onDisk) = {onDisk}
  <2>1. ASSUME NEW snapshot, snapshot = Nil \/ IsFile(snapshot, TRUE)
        PROVE  AfterCrash(snapshot) = {snapshot}
    <3>1. snapshot = Nil \/ snapshot.synced = TRUE
      BY <2>1 DEF IsFile
    <3> QED BY <3>1 DEF AfterCrash
  <2> QED BY <2>1 DEF SnapshotInv
<1>2. /\ mode = "Up" /\ mode' = "Down" /\ live' = EmptyLedger /\ toApply' = <<>> /\ stage' = "Idle" /\ tmp' = Nil
      /\ named' \in {named, onDisk} /\ onDisk' = named'
      /\ UNCHANGED <<durability, returned, buffered>>
      /\ vanished' \/ (kept' = kept /\ vanished' = vanished)
  BY <1>1 DEF Crash, FileCut, FileGone
<1>3. Consistent(EmptyLedger) /\ EmptyLedger.last = 0 /\ toApply' \in Seq(Event) /\ DOMAIN toApply' = {}
  BY <1>2 DEF EmptyLedger, Consistent, Ledger
<1>4. ~vanished' => ~vanished /\ \A x : Reached(x)' <=> Reached(x)
  BY <1>2 DEF Reached
<1>5. LedgersConsistent'
  BY <1>2, <1>3 DEF RestartInv, LedgersConsistent, Sound
<1>6. LedgersReached'
  <2>1. Reached(0)
    BY DEF Reached
  <2> QED BY <1>2, <1>3, <1>4, <2>1 DEF RestartInv, LedgersReached
<1>7. SnapshotsOrdered'
  <2>1. \A snapshot \in {named, onDisk} : snapshot # Nil => snapshot.ledger.events \in Nat
    BY DEF RestartInv, LedgersConsistent, Sound, Consistent, Ledger
  <2>2. returned \in Nat
    BY DEF RestartInv, LedgersConsistent
  <2> QED BY <1>2, <2>1, <2>2 DEF RestartInv, SnapshotsOrdered
<1> QED BY <1>5, <1>6, <1>7 DEF RestartInv

\* The caller starts from the ledger of the snapshot it reads.
LEMMA RestartOpen ==
  ASSUME RestartInv, SnapshotInv, NEW d \in Durabilities, Open(d)
  PROVE  RestartInv'
<1>1. /\ mode = "Down" /\ durability' = d /\ buffered' = (buffered \/ d = "Buffered") /\ live' = Recovered(named)
      /\ UNCHANGED <<toApply, stage, tmp, named, onDisk, returned, kept, vanished>>
  BY DEF Open, snapshotVars
<1>2. live' = IF named # Nil THEN named.ledger ELSE EmptyLedger
  BY <1>1 DEF Recovered, SnapshotInv, IsFile
<1>3. Consistent(EmptyLedger) /\ EmptyLedger.last = 0
  BY DEF EmptyLedger, Consistent, Ledger
<1>4. \A x : Reached(x)' <=> Reached(x)
  BY <1>1 DEF Reached
<1>5. LedgersConsistent'
  BY <1>1, <1>2, <1>3 DEF RestartInv, LedgersConsistent, Sound
<1>6. LedgersReached'
  <2>1. Reached(0)
    BY DEF Reached
  <2>2. ~buffered' => ~buffered /\ d = "SyncData"
    BY <1>1, JournalAssumption
  <2> QED BY <1>1, <1>2, <1>3, <1>4, <2>1, <2>2 DEF RestartInv, LedgersReached
<1>7. SnapshotsOrdered'
  <2>1. \A snapshot \in {named, onDisk} : snapshot # Nil => snapshot.ledger.events \in Nat
    BY DEF RestartInv, LedgersConsistent, Sound, Consistent, Ledger
  <2> QED BY <1>1, <1>2, <2>1 DEF RestartInv, SnapshotsOrdered
<1> QED BY <1>5, <1>6, <1>7 DEF RestartInv

\* Every step keeps it, given the invariants of the journal and of the snapshot.
LEMMA RestartNext ==
  RestartInv /\ JournalInv /\ JournalInv' /\ SnapshotInv /\ [Next]_vars => RestartInv'
<1> SUFFICES ASSUME RestartInv, JournalInv, JournalInv', SnapshotInv, [Next]_vars PROVE RestartInv'
  OBVIOUS
<1>1. CASE UNCHANGED vars
  BY <1>1 DEF vars, journalVars, ledgerVars, snapshotVars, RestartInv, LedgersConsistent, LedgersReached,
              SnapshotsOrdered, Sound, Reached
<1> QED BY <1>1, RestartAppend, RestartFails, RestartApply, RestartSave, RestartCrash, RestartOpen DEF Next

\* A snapshot that is reached is not ahead of an open journal.
LEMMA NotAhead ==
  ASSUME JournalInv, mode = "Up", NEW x \in Nat, Reached(x)
  PROVE  last >= x
<1>1. /\ kept \in Seq(Record) /\ file \in Seq(Record) /\ IsPrefix(kept, file) /\ last \in Nat
  BY DEF JournalInv, JournalTyped, Synced
<1>2. \A k \in 1..Len(kept) : k \in 1..Len(file) /\ file[k] = kept[k]
  <2>1. Len(kept) <= Len(file) /\ SubSeq(kept, 1, Len(kept)) = SubSeq(file, 1, Len(kept))
    BY <1>1 DEF IsPrefix
  <2>2. \A k \in 1..Len(kept) : k \in 1..Len(file) /\ SubSeq(file, 1, Len(kept))[k] = file[k]
    BY <1>1, <2>1
  <2>3. \A k \in 1..Len(kept) : SubSeq(kept, 1, Len(kept))[k] = kept[k]
    BY <1>1
  <2> QED BY <2>1, <2>2, <2>3
<1>3. CASE x = 0
  BY <1>1, <1>3
<1>4. ASSUME NEW k \in DOMAIN kept, kept[k] # Torn, x <= kept[k].sequence PROVE last >= x
  <2>1. k \in 1..Len(kept)
    BY <1>1
  <2>2. k \in DOMAIN file /\ file[k] = kept[k] /\ file[k] \in Record
    BY <1>1, <1>2, <2>1
  <2>3. file[k].sequence <= last /\ file[k].sequence \in Nat
    BY <1>4, <2>2, RecordNumber DEF JournalInv, LastBounds
  <2> QED BY <1>1, <1>4, <2>2, <2>3
<1> QED BY <1>3, <1>4 DEF Reached

\* A restart finds the snapshot whose write last returned under a path with a
\* directory, or a later one, with no order both on its books and gone from them,
\* and as long as every journal was opened with SyncData and none vanished
\* validate_journal_boundary accepts it.  (Of a snapshot under a bare file name,
\* whose directory write does not sync, the first part says nothing.)
THEOREM RestartsSoundly == Spec => []RestartsFromSnapshot
<1>1. RestartInv /\ JournalInv => RestartsFromSnapshot
  <2> SUFFICES ASSUME RestartInv, JournalInv PROVE RestartsFromSnapshot
    OBVIOUS
  <2>1. returned > 0 => onDisk # Nil /\ onDisk.ledger.events >= returned
    <3>1. onDisk # Nil => onDisk.ledger.events \in Nat
      BY DEF RestartInv, LedgersConsistent, Sound, Consistent, Ledger
    <3>2. returned \in Nat
      BY DEF RestartInv, LedgersConsistent
    <3> QED BY <3>1, <3>2 DEF RestartInv, SnapshotsOrdered
  <2>2. ASSUME mode = "Up", ~buffered, ~vanished, named # Nil PROVE BoundaryValid(named)
    <3>1. Reached(named.ledger.last) /\ named.ledger.last \in Nat
      BY <2>2 DEF RestartInv, LedgersReached, LedgersConsistent, Sound, Consistent, Ledger
    <3> QED BY <2>2, <3>1, NotAhead DEF BoundaryValid
  <2>3. named # Nil => named.ledger.accepted \cap named.ledger.cancelled = {}
    BY DEF RestartInv, LedgersConsistent, Sound, Consistent
  <2> QED BY <2>1, <2>2, <2>3 DEF RestartsFromSnapshot
<1>2. Init => SnapshotInv
  BY DEF Init, SnapshotInv
<1> QED BY <1>1, <1>2, JournalInit, JournalNext, SnapshotNext, RestartInitial, RestartNext, PTL DEF Spec
===============================================================================
