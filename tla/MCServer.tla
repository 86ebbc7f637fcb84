------------------------------- MODULE MCServer -------------------------------
(***************************************************************************)
(* A small server and a small session for TLC, under the fairness that     *)
(* their liveness needs.  They share no state, and each initial state      *)
(* chooses the one that steps.                                             *)
(***************************************************************************)
EXTENDS Server, Gateway

VARIABLE stepping \* the one that steps

allVars == <<serverVars, gatewayVars, stepping>>

ServerStep  == stepping = "server" /\ ServerNext /\ UNCHANGED <<gatewayVars, stepping>>
SessionStep == stepping = "session" /\ GatewayNext /\ UNCHANGED <<serverVars, stepping>>

InitLive == stepping \in {"server", "session"} /\ ServerInit /\ GatewayInit

SpecLive ==
  /\ InitLive
  /\ [][ServerStep \/ SessionStep]_allVars
  /\ stepping = "server" => ServerFairness
  /\ stepping = "session" => GatewayFairness
===============================================================================
