---------------------------- MODULE MCHandshake -----------------------------
EXTENDS Handshake

Both == {"tcp", "tls"}
OnlyTLS == {"tls"}
MCKeys == {"fetch", "createTopics"}
\* Narrower than what a node may tell, and without a range for createTopics.
MCDriver == [k \in {"fetch"} |-> [min |-> 1, max |-> 2]]
=============================================================================
