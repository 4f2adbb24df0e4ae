------------------------------ MODULE MCBroker ------------------------------
EXTENDS Broker, TLC

CONSTANTS u1, u2, n1, n2, t1

Two == {u1, u2}
One == {u1}
MCNodes == {n1, n2}
MCSeeds == {n1}
MCParts == {t1}

Leaders == (u1 :> {"produce", "offset"}) @@ (u2 :> {"fetch"})
Both == (u1 :> {"commit", "Offset"}) @@ (u2 :> {"produce"})
Produces == u1 :> {"produce"}
Commits == u1 :> {"commit"}
Offsets == u1 :> {"Offset"}

NetworkErrors == {"EOF", "OpError"}
OtherErrors == {"other"}
=============================================================================
