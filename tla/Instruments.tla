------------------------------ MODULE Instruments -----------------------------
(***************************************************************************)
(* The instruments of the sovereigns: the registry that gives each a spot  *)
(* and a future (exchange_core/src/instrument.rs) and the trading status   *)
(* of each instrument (lifecycle.rs).  Both are fixed arrays, indexed by   *)
(* the instrument's number.                                                *)
(*                                                                         *)
(* A call whose assertion fails ends the program, one that is refused      *)
(* changes nothing: neither is a step.  Dropped data: the texts and prices *)
(* of a definition, the numbers and the time that a transition reports.    *)
(***************************************************************************)
EXTENDS Integers

CONSTANTS MaxSovereigns,
          U16Max,
          Definition, \* what a sovereign may be defined as
          Session,    \* opening hours
          Vacant      \* no instrument, no definition, no session

ASSUME InstrumentsAssumption ==
  /\ MaxSovereigns \in Nat /\ U16Max \in Nat
  /\ 2 * MaxSovereigns <= U16Max + 1
  /\ Vacant \notin Definition /\ Vacant \notin Session

MaxInstruments == 2 * MaxSovereigns
InstrumentId   == 0..(MaxInstruments - 1)
Sovereign      == 0..(MaxSovereigns - 1)

VARIABLES instruments, \* InstrumentRegistry: what is at each index
          statuses, sessions, \* MarketLifecycle
          defined      \* history: the latest definition of each sovereign

instrumentVars == <<instruments, statuses, sessions, defined>>

-----------------------------------------------------------------------------
Saturated(n) == IF n > U16Max THEN U16Max ELSE n

SpotInstrumentId(sovereign) == Saturated(2 * sovereign)

\* A slip the properties must catch: the future of one is the spot of the next.
FutureInstrumentIdTooFar(sovereign) == Saturated(Saturated(2 * sovereign) + 2)

FutureInstrumentId(sovereign) == Saturated(Saturated(2 * sovereign) + 1)

Spot(sovereign, definition) ==
  [id |-> SpotInstrumentId(sovereign), sovereign |-> sovereign, market |-> "Spot",
   definition |-> definition]

Future(sovereign, definition) ==
  [id |-> FutureInstrumentId(sovereign), sovereign |-> sovereign, market |-> "Future",
   definition |-> definition]

\* register, which overwrites what is there; an index out of range is refused.
With(registry, instrument) ==
  [registry EXCEPT ![instrument.id] = instrument]

\* register_pair, for a new sovereign or one that is defined again.
RegisterPair(sovereign, definition) ==
  /\ instruments' = With(With(instruments, Spot(sovereign, definition)),
                         Future(sovereign, definition))
  /\ defined' = [defined EXCEPT ![sovereign] = definition]
  /\ UNCHANGED <<statuses, sessions>>

-----------------------------------------------------------------------------
Status == {"PreOpen", "Open", "Halted", "Closed", "Expired", "Settled"}

\* A slip the properties must catch: trading is closed only by the settlement.
ValidTransitionHalting(from, to) ==
  \/ from # "Settled" /\ to \in {"Open", "Halted", "Closed"}
  \/ from \in {"Closed", "Expired"} /\ to = "Settled"
  \/ from = to

\* valid_transition
ValidTransition(from, to) ==
  \/ from = "PreOpen" /\ to \in {"Open", "Halted", "Closed"}
  \/ from = "Open"    /\ to \in {"Halted", "Closed"}
  \/ from = "Halted"  /\ to \in {"Open", "Closed"}
  \/ from = "Closed"  /\ to \in {"Expired", "Settled"}
  \/ from = "Expired" /\ to = "Settled"
  \/ from = to

Transition(id, to) ==
  /\ ValidTransition(statuses[id], to)
  /\ statuses' = [statuses EXCEPT ![id] = to]
  /\ UNCHANGED <<instruments, sessions, defined>>

SetSession(id, session) ==
  /\ sessions' = [sessions EXCEPT ![id] = session]
  /\ UNCHANGED <<instruments, statuses, defined>>

AcceptsOrders(id) == statuses[id] = "Open"
IsTerminal(id)    == statuses[id] \in {"Closed", "Expired", "Settled"}

InstrumentsInit ==
  /\ instruments = [id \in InstrumentId |-> Vacant]
  /\ statuses = [id \in InstrumentId |-> "PreOpen"]
  /\ sessions = [id \in InstrumentId |-> Vacant]
  /\ defined = [sovereign \in Sovereign |-> Vacant]

RegistryNext ==
  \E sovereign \in Sovereign, definition \in Definition : RegisterPair(sovereign, definition)

LifecycleNext ==
  \E id \in InstrumentId :
    \/ \E to \in Status : Transition(id, to)
    \/ \E session \in Session : SetSession(id, session)

InstrumentsNext == RegistryNext \/ LifecycleNext

InstrumentsSpec == InstrumentsInit /\ [][InstrumentsNext]_instrumentVars

-----------------------------------------------------------------------------
\* Every sovereign that was defined has its spot and its future, both of the
\* latest definition, and there is nothing else: no sovereign's pair overwrites
\* an instrument of another (register_pair, spot_instrument_id,
\* future_instrument_id).
PairsWhole ==
  /\ \A sovereign \in Sovereign : defined[sovereign] # Vacant =>
       /\ instruments[2 * sovereign] = Spot(sovereign, defined[sovereign])
       /\ instruments[2 * sovereign + 1] = Future(sovereign, defined[sovereign])
  /\ \A id \in InstrumentId : instruments[id] # Vacant => defined[id \div 2] # Vacant

\* An instrument that is closed, expired or settled stays so and never takes an
\* order again, by whatever transitions (valid_transition, is_terminal).
NeverReopened ==
  [][\A id \in InstrumentId : IsTerminal(id) => IsTerminal(id)' /\ ~AcceptsOrders(id)']_instrumentVars
===============================================================================
