------------------------------ MODULE Gateway -------------------------------
(***************************************************************************)
(* A gateway session (exchange_core/src/protocol.rs) with its sequence     *)
(* numbers (session.rs) and the credentials it is checked against.         *)
(*                                                                         *)
(* One client sends frames, numbered from 1 on.  What carries them is not  *)
(* part of src/: a frame may be lost, repeated, delayed and overtaken, and *)
(* a client that is asked to may send it again.  A frame that is refused   *)
(* with an error and changes nothing is no step.  Of a message the model   *)
(* keeps what receive tells apart.  Encoding and checksums are left out (a *)
(* frame that cannot be decoded is one that is lost), and so is the tick   *)
(* of the last activity, which nothing but heartbeat_due reads.            *)
(***************************************************************************)
EXTENDS Naturals, Sequences, Functions

CONSTANTS ApiKey,
          RolesUsed,    \* the roles that credentials are registered with
          MaxFrames,    \* bound: frames that the client sends
          MaxOutbound,  \* bound: frames that the gateway numbers
          Nobody        \* no role, no key

ASSUME GatewayAssumption == MaxFrames \in Nat /\ MaxOutbound \in Nat

VARIABLES credentials, \* api key -> role and whether it is enabled
          sent,        \* the messages of the client's frames, by number
          established, nextIn, nextOut, \* SessionState
          role, apiKey,
          actions,     \* history: numbers of the frames that receive answered with Accepted or Admin
          logon,       \* history: the number of the frame that logged on
          numbered     \* history: the numbers of the gateway's own frames

sessionVars == <<established, nextIn, nextOut, role, apiKey>>
gatewayVars == <<credentials, sent, sessionVars, actions, logon, numbered>>

Role == {"Trader", "MarketMaker", "Risk", "Operations", "Admin", "ReadOnly"}

ASSUME RolesAssumption == RolesUsed \subseteq Role /\ Nobody \notin Role

(***************************************************************************)
(* Permissions.  The messages that need none are "Heartbeat" and "Logout"; *)
(* "Other" are those that only a gateway sends.                            *)
(***************************************************************************)
Trading == {"SubmitOrders", "CancelOrders", "ReplaceOrders"}

Allows(r, permission) ==
  CASE r \in {"Trader", "MarketMaker"} ->
         permission \in Trading \cup {"ViewMarketData", "RequestRecovery"}
    [] r = "Risk"       -> permission \in {"ViewMarketData", "RequestRecovery", "OperateAccounts"}
    [] r = "Operations" -> permission \in {"ViewMarketData", "RequestRecovery", "OperateMarket", "OperateAccounts"}
    [] r = "Admin"      -> TRUE
    [] r = "ReadOnly"   -> permission = "ViewMarketData"

Permission ==
  [NewOrder |-> "SubmitOrders", CancelOrder |-> "CancelOrders", ReplaceOrder |-> "ReplaceOrders",
   ResendRequest |-> "RequestRecovery", Admin |-> "OperateMarket", Other |-> "ViewMarketData"]

\* The messages that a session hands on to the exchange.
HandedOn == {"NewOrder", "CancelOrder", "ReplaceOrder", "Admin"}

Logons == [type : {"Logon"}, key : ApiKey, tokenMatches : BOOLEAN]

Message == Logons \cup [type : DOMAIN Permission \cup {"Heartbeat", "Logout"}]

-----------------------------------------------------------------------------
(***************************************************************************)
(* CredentialStore.                                                        *)
(***************************************************************************)
Register(key, r) ==
  /\ \E enabled \in BOOLEAN :
       credentials' = [k \in {key} \cup DOMAIN credentials |->
                         IF k = key THEN [role |-> r, enabled |-> enabled] ELSE credentials[k]]
  /\ UNCHANGED <<sent, sessionVars, actions, logon, numbered>>

Disable(key) ==
  /\ key \in DOMAIN credentials
  /\ credentials' = [credentials EXCEPT ![key].enabled = FALSE]
  /\ UNCHANGED <<sent, sessionVars, actions, logon, numbered>>

\* authenticate
Authentic(message) ==
  /\ message.key \in DOMAIN credentials
  /\ credentials[message.key].enabled
  /\ message.tokenMatches

-----------------------------------------------------------------------------
(***************************************************************************)
(* SessionState and GatewaySession.                                        *)
(***************************************************************************)
Send(message) ==
  /\ Len(sent) < MaxFrames
  /\ sent' = Append(sent, message)
  /\ UNCHANGED <<credentials, sessionVars, actions, logon, numbered>>

\* A slip the properties must catch: the session can be established again.
LoggedOnNever == FALSE

LoggedOn == role # Nobody

\* Logon.
ReceiveLogon(n) ==
  /\ sent[n].type = "Logon"
  /\ ~LoggedOn
  /\ Authentic(sent[n])
  /\ established' = TRUE /\ nextIn' = n + 1 /\ nextOut' = 1
  /\ role' = credentials[sent[n].key].role
  /\ apiKey' = sent[n].key
  /\ logon' = n
  /\ UNCHANGED <<credentials, sent, actions, numbered>>

\* A slip the properties must catch: an old frame is taken again.
ExpectedOrOld(n) == established /\ n <= nextIn

\* SessionState::receive refuses a frame that is old or ahead.
Expected(n) == established /\ n = nextIn

\* require; heartbeats and logouts need no permission.
Permitted(type) == type \in DOMAIN Permission => Allows(role, Permission[type])

\* A slip the properties must catch: a message that is denied is not received.
NumberIfPermitted(n) == nextIn' = IF Permitted(sent[n].type) THEN n + 1 ELSE nextIn

\* SessionState::receive takes the number, whatever comes of the message.
TakeNumber(n) == nextIn' = n + 1

\* Any other message.
ReceiveOther(n) ==
  /\ sent[n].type # "Logon"
  /\ LoggedOn
  /\ Expected(n)
  /\ TakeNumber(n)
  /\ actions' = IF sent[n].type \in HandedOn /\ Permitted(sent[n].type)
                THEN Append(actions, n) ELSE actions
  /\ UNCHANGED <<credentials, sent, established, nextOut, role, apiKey, logon, numbered>>

\* next_outbound
NextOutbound ==
  /\ established
  /\ Len(numbered) < MaxOutbound
  /\ numbered' = Append(numbered, nextOut)
  /\ nextOut' = nextOut + 1
  /\ UNCHANGED <<credentials, sent, established, nextIn, role, apiKey, actions, logon>>

GatewayInit ==
  /\ credentials = <<>>
  /\ sent = <<>>
  /\ established = FALSE /\ nextIn = 1 /\ nextOut = 1
  /\ role = Nobody /\ apiKey = Nobody
  /\ actions = <<>>
  /\ logon = 0
  /\ numbered = <<>>

GatewayNext ==
  \/ \E key \in ApiKey : Disable(key) \/ \E r \in RolesUsed : Register(key, r)
  \/ \E message \in Message : Send(message)
  \/ \E n \in DOMAIN sent : ReceiveLogon(n) \/ ReceiveOther(n)
  \/ NextOutbound

GatewaySpec == GatewayInit /\ [][GatewayNext]_gatewayVars

\* The client sends the frame that is expected until it is received.
GatewayFairness == WF_gatewayVars(\E n \in DOMAIN sent : ReceiveOther(n))

-----------------------------------------------------------------------------
\* Whatever the network does to the frames, and however often credentials
\* change, the exchange is handed exactly those orders that the role of the
\* logon allows among the client's frames up to the next expected one, each once
\* and in the order in which the client sent them.
HandedOnExactly ==
  /\ \A j, k \in DOMAIN actions : j < k => actions[j] < actions[k]
  /\ Range(actions) = {n \in logon + 1..nextIn - 1 :
                         sent[n].type \in HandedOn /\ Allows(role, Permission[sent[n].type])}

\* The gateway's own frames are numbered without a gap and without a repetition,
\* because no logon that is delivered again starts the numbers anew.
NumberedOnce == \A k \in DOMAIN numbered : numbered[k] = k

\* Once a client is logged on its frames are received one after the other, those
\* that its role does not permit as well: nothing but a second logon stops a
\* session, whose number is never received (receive, SessionState::receive).
ReceivedUpToLogon ==
  \A n \in 1..MaxFrames :
    LoggedOn /\ n \in DOMAIN sent
      ~> nextIn > n \/ \E m \in DOMAIN sent : m \in nextIn..n /\ sent[m].type = "Logon"
=============================================================================
