-------------------------- MODULE MCGatewayEvents --------------------------
(***************************************************************************)
(* An instance of GatewayEvents for TLC: a task p, the gateway for its     *)
(* channel with the subscriber_id it is deployed with, one page of the     *)
(* user, three streams for two workers.                                    *)
(***************************************************************************)
EXTENDS GatewayEvents

CONSTANTS web,     \* channel
          g,       \* gateway
          p,       \* task
          b        \* page

OnWeb == [t \in Publishers |-> web]
OnlyWeb == [h \in Gateways |-> {web}]
OfTheUser == [c \in Pages |-> Publishers]
=============================================================================
