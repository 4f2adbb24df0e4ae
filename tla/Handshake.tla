----------------------------- MODULE Handshake ------------------------------
(***************************************************************************)
(* newTCPConnection and newTLSConnection of src/v2/connection.go: dial the *)
(* node, ask it for the versions of the requests it supports, and, when it *)
(* does not tell, go on without them; then the version with which a        *)
(* request is sent.                                                        *)
(*                                                                         *)
(* An operator that nothing uses and that stands right before another one  *)
(* (XForgotten before X) is the other one with a slip in it.  It takes the *)
(* place of the other one to see that a property notices.                  *)
(***************************************************************************)
EXTENDS Integers, FiniteSets, FiniteSetsExt

CONSTANTS
    Transports,  \* which constructors are called: "tcp", "tls"
    Keys,        \* the kinds of requests, proto.*ReqKind
    MaxVersion,  \* the highest version anybody knows
    Driver,      \* proto.SupportedByDriver, a range for each kind it has
    None         \* no request yet

Version == 0 .. MaxVersion
SupportedVersion == [min : Version, max : Version]

ASSUME HandshakeAssumption ==
    /\ Transports \subseteq {"tcp", "tls"}
    /\ MaxVersion \in Nat
    /\ DOMAIN Driver \subseteq Keys
    /\ \A k \in DOMAIN Driver : Driver[k] \in SupportedVersion

\* What a node tells about the kinds of requests it supports.
Tells == UNION {[S -> SupportedVersion] : S \in SUBSET Keys}

VARIABLES
    transport,      \* the constructor that runs
    node,           \* what the node tells when it is asked
    pc,             \* dial, versions, returned or failed
    fetchVersions,  \* the local variable fetchVersions
    conn,           \* connection c: none, up or closed
    sockets,        \* sockets opened and not closed
    apiVersions,    \* connection.apiVersions
    sent            \* the last request sent over the returned connection

vars == <<transport, node, pc, fetchVersions, conn, sockets, apiVersions, sent>>

Empty == [k \in {} |-> None]

Init ==
    /\ transport \in Transports
    /\ node \in Tells
    /\ pc = "dial" /\ fetchVersions = TRUE
    /\ conn = "none" /\ sockets = 0
    /\ apiVersions = Empty /\ sent = None

-----------------------------------------------------------------------------
\* The dial succeeds, and a new connection starts its loops.
Dial ==
    /\ pc = "dial"
    /\ conn' = "up" /\ sockets' = sockets + 1
    /\ apiVersions' = Empty
    /\ pc' = IF fetchVersions THEN "versions" ELSE "returned"
    /\ UNCHANGED <<transport, node, fetchVersions, sent>>

\* The dial fails, or, for TLS, the certificates are not accepted.
DialFails ==
    /\ pc = "dial"
    /\ pc' = "failed"
    /\ UNCHANGED <<transport, node, fetchVersions, conn, sockets, apiVersions, sent>>

\* cacheApiVersions succeeds.
CacheAPIVersions ==
    /\ pc = "versions"
    /\ apiVersions' = node
    /\ pc' = "returned"
    /\ UNCHANGED <<transport, node, fetchVersions, conn, sockets, sent>>

AskAgainForever == TRUE

\* fetchVersions = false
AskAgain == FALSE

CloseForgotten == sockets

\* c.Close() closes the socket.
Closed == sockets - 1

RetryForgotten == "returned"

\* newTCPConnection goes on with its loop; in newTLSConnection the continue is
\* missing, and it returns.
Retry == IF transport = "tcp" THEN "dial" ELSE "returned"

\* cacheApiVersions fails: a node before 0.10 drops the connection, any other
\* may leave or be late.  The connection is closed.
APIVersionsFail ==
    /\ pc = "versions"
    /\ fetchVersions' = AskAgain
    /\ conn' = "closed" /\ sockets' = Closed
    /\ pc' = Retry
    /\ UNCHANGED <<transport, node, apiVersions, sent>>

\* The range SupportedByDriver[k]: a kind it does not have is only known in
\* version 0, the zero value of SupportedVersion.
Supported(k) == IF k \in DOMAIN Driver THEN Driver[k] ELSE [min |-> 0, max |-> 0]

lesser(a, b) == IF a < b THEN a ELSE b
greater(a, b) == IF a > b THEN a ELSE b

getBestVersionUnchecked(k) ==
    IF k \in DOMAIN apiVersions THEN lesser(Supported(k).max, apiVersions[k].max) ELSE 0

getBestVersion(k) ==
    IF /\ k \in DOMAIN apiVersions
       /\ lesser(Supported(k).max, apiVersions[k].max)
            >= greater(Supported(k).min, apiVersions[k].min)
    THEN lesser(Supported(k).max, apiVersions[k].max)
    ELSE 0

\* sendRequest and sendRequestWithoutAcks set the version of a request.
SendRequest(k) ==
    /\ pc = "returned" /\ conn = "up"
    /\ sent' = [key |-> k, version |-> getBestVersion(k)]
    /\ UNCHANGED <<transport, node, pc, fetchVersions, conn, sockets, apiVersions>>

-----------------------------------------------------------------------------
Construct == Dial \/ DialFails \/ CacheAPIVersions \/ APIVersionsFail

Next == Construct \/ \E k \in Keys : SendRequest(k)

\* The constructor runs.  A dial ends at the latest by DialTimeout and the
\* request for the versions by ReadTimeout, which NewBrokerConf sets.
Spec == Init /\ [][Next]_vars /\ WF_vars(Construct)

-----------------------------------------------------------------------------
(* Properties.                                                             *)

\* The variables range over the values the code can give them.
TypeOK ==
    /\ transport \in Transports /\ node \in Tells
    /\ pc \in {"dial", "versions", "returned", "failed"}
    /\ fetchVersions \in BOOLEAN
    /\ conn \in {"none", "up", "closed"}
    /\ sockets \in {0, 1}
    /\ apiVersions \in Tells
    /\ sent \in [key : Keys, version : Version] \cup {None}

\* No constructor leaves a socket behind: it is closed before the next dial
\* and before an error is returned, also when the second dial fails.
NoSocketLeft == sockets = IF conn = "up" THEN 1 ELSE 0

\* A request is sent in the highest version that both the driver and the node
\* support, and in version 0 when there is none or the node did not tell.
BestVersionAgreed ==
    sent # None =>
        LET known(r) == {v \in Version : r.min <= v /\ v <= r.max}
            common == IF sent.key \in DOMAIN node /\ fetchVersions
                      THEN known(Supported(sent.key)) \cap known(node[sent.key]) ELSE {}
        IN  sent.version = IF common = {} THEN 0 ELSE Max(common)

\* "newConnection returns new, initialized connection or error": the returned
\* connection can be used.
Initialized == pc = "returned" => conn = "up"

\* newTCPConnection returns a connection that can be used.
TCPInitialized == transport = "tcp" => Initialized

\* Where the constructor is says which of the sockets is open, whether a request
\* can have been sent, and where the versions in apiVersions come from.
Phase ==
    /\ pc = "dial" => conn # "up"
    /\ pc = "versions" => conn = "up" /\ fetchVersions
    /\ pc = "returned" /\ transport = "tcp" => conn = "up"
    /\ pc = "returned" /\ conn = "up" => apiVersions = IF fetchVersions THEN node ELSE Empty
    /\ pc # "returned" => sent = None

\* The inductive invariant.
Inv == TypeOK /\ Phase /\ NoSocketLeft /\ BestVersionAgreed

\* The constructors return, whatever the node does: they dial at most twice.
ConstructorReturns == <>(pc \in {"returned", "failed"})
=============================================================================
