----------------------------- MODULE MCEventBus -----------------------------
(***************************************************************************)
(* An instance of EventBus for TLC: a gateway for all channels, a task p,  *)
(* and queues that hold all its events.                                    *)
(***************************************************************************)
EXTENDS EventBus

CONSTANTS web,     \* channel
          g1,      \* gateway
          p        \* task

OnWeb == [t \in Publishers |-> web]
AllChannels == [g \in Gateways |-> {}]
=============================================================================
