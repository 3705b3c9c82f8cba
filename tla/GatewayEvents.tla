--------------------------- MODULE GatewayEvents ---------------------------
(***************************************************************************)
(* The way of an event to a browser: EventBus, whose Gateway hands every   *)
(* event it reads to its SseHub (scheduler_event_consumer in               *)
(* gateway-backend-service/app.py).                                        *)
(***************************************************************************)
EXTENDS EventBus, SseHub

CONSTANT Gateway    \* the one whose pages are looked at

ASSUME GatewayAssumption ==
    /\ Gateway \in Gateways
    /\ NoEvent \notin Events

all == <<vars, hubVars>>

GatewayInit == Init /\ HubInit

\* The consumer publishes an event before it reads the next.
Deliver(s) ==
    /\ Yield(s)
    /\ IF link[Gateway] = s THEN HubPublish(hand[s]) ELSE UNCHANGED hubVars

BusStep ==
    /\ \/ \E g \in Gateways : Open(g) \/ Break(g)
       \/ \E s \in Streams : Learn(s) \/ Subscribe(s) \/ Get(s) \/ Quit(s) \/ Unsubscribe(s)
       \/ \E p \in Publishers : Publish(p)
    /\ UNCHANGED hubVars

\* The gateway restarts: its stream and its pages are gone.
Restart == Break(Gateway) /\ HubRestart

Browse == (\E b \in Pages : PageStep(b)) /\ UNCHANGED vars

GatewayNext == BusStep \/ (\E s \in Streams : Deliver(s)) \/ Restart \/ Browse

GatewaySafe == GatewayInit /\ [][GatewayNext]_all

GatewaySpec == GatewaySafe /\ Fairness

-----------------------------------------------------------------------------
GatewayTypeOK == TypeOK /\ HubTypeOK(Events)
=============================================================================
